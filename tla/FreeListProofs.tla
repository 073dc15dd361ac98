--------------------------- MODULE FreeListProofs ---------------------------
(***************************************************************************)
(* Theorems about FreeList, for every volume, table size and set of        *)
(* processes, whatever calls overlap.  Until a step of Damage, the lock,   *)
(* the heights and the list are in order, also when transfers fail.  When  *)
(* none fails, the stores of Free outside the lock are the only damage,    *)
(* FreeList implements BlockAllocator and fsck accepts the list.           *)
(***************************************************************************)
EXTENDS FreeListFsck, FiniteSetTheorems, TLAPS

-----------------------------------------------------------------------------
(* Arithmetic of the list that mkfs writes.                                 *)

LEMMA DivMod ==
    ASSUME NEW a \in Int, NEW s \in Nat \ {0}
    PROVE  a = s * (a \div s) + (a % s) /\ a % s \in 0 .. s - 1
  OBVIOUS

LEMMA NextMultiple ==
    ASSUME NEW k \in Int, NEW l \in Int, NEW s \in Nat \ {0}, k >= l + 1
    PROVE  s * k >= s * l + s
  OBVIOUS

LEMMA MultipleMod ==
    ASSUME NEW k \in Int, NEW s \in Nat \ {0}
    PROVE  (s * k) % s = 0
  OBVIOUS

\* Two multiples of s that are less than s apart are equal.
LEMMA CloseMultiples ==
    ASSUME NEW a \in Int, NEW b \in Int, NEW s \in Nat \ {0},
           a % s = 0, b % s = 0, a - b < s, b - a < s
    PROVE  a = b
  <1> DEFINE k == a \div s
             l == b \div s
  <1>1. k \in Int /\ l \in Int
    OBVIOUS
  <1>2. a = s * k /\ b = s * l
    BY DivMod
  <1> HIDE DEF k, l
  <1>3. k = l
    BY <1>1, <1>2, NextMultiple
  <1> QED
    BY <1>2, <1>3

-----------------------------------------------------------------------------
(* Steps.                                                                   *)

\* Damage touches nothing but sound: what is shown of the other steps and of those
\* that change nothing else is shown of all.
LEMMA NextIs ==
    [Next]_vars =>
       \/ UNCHANGED listVars
       \/ \E p \in Procs : Alloc(p) \/ FreeBody(p) \/ \E b \in Blocks : FreeCall(p, b)
  BY DEF Next, Step, Damage, vars

LEMMA SoundKnown == sound \in BOOLEAN /\ [Next]_vars => sound' \in BOOLEAN
  BY DEF Next, Step, Damage, vars

-----------------------------------------------------------------------------
(* Type correctness.                                                        *)

LEMMA InitCountRange == InitCount \in 1 .. StackSize
  BY SizeAssumption, DivMod DEF InitCount

LEMMA TypeInit == Init => TypeOK
  <1> SUFFICES ASSUME Init PROVE TypeOK
    OBVIOUS
  <1> USE SizeAssumption, InitCountRange
  <1>1. \A b \in Int : ListEntry(b) \in Blocks \cup {NoBlock}
    BY DEF ListEntry
  <1>2. \A b \in Blocks : InitContent(b) \in Group \cup {FileData}
    BY <1>1 DEF InitContent, Group, Entries, Blocks
  <1>3. sfree \in [Entries -> Blocks \cup {NoBlock}]
    BY <1>1 DEF Init, Entries
  <1>4. disk \in [Blocks -> Group \cup {FileData}]
    BY <1>2 DEF Init
  <1>5. nfree \in -1 .. StackSize
    BY DEF Init
  <1>6. top \in [Procs -> Entries] /\ blk \in [Procs -> Blocks \cup {NoBlock}]
    BY DEF Init, Entries
  <1> QED
    BY <1>3, <1>4, <1>5, <1>6 DEF Init, TypeOK, AllocPcs, FreePcs, IndexBlocks

LEMMA TypeNext == SoundInv /\ [Next]_vars => TypeOK'
  <1> SUFFICES ASSUME SoundInv, [Next]_vars PROVE TypeOK'
    OBVIOUS
  <1>0. sound' \in BOOLEAN
    BY SoundKnown DEF SoundInv, TypeOK
  <1> USE <1>0, SizeAssumption
      DEF SoundInv, TypeOK, LockHeld, LockedPcs, TableHeight, Goto, AllocPcs, FreePcs, Entries
  <1>1. CASE UNCHANGED listVars
    BY <1>1 DEF listVars
  <1>2. ASSUME NEW p \in Procs, Alloc(p) PROVE TypeOK'
    <2>1. CASE AllocCall(p)
      BY <2>1 DEF AllocCall
    <2>2. CASE AllocLock(p)
      BY <2>2 DEF AllocLock, Acquire
    <2>3. CASE AllocPop(p)
      BY <2>3 DEF AllocPop
    <2>4. CASE AllocTake(p)
      BY <2>4 DEF AllocTake, Entries
    <2>5. CASE AllocEmpty(p)
      BY <2>5 DEF AllocEmpty, Release, Return, Entries
    <2>6. CASE AllocKeep(p)
      BY <2>6 DEF AllocKeep, Release
    <2>7. CASE AllocLoad(p)
      <3>1. disk[blk[p]] \in Group
        BY <2>7 DEF AllocLoad
      <3>2. nfree' = StackSize /\ sfree' \in [Entries -> Blocks \cup {NoBlock}]
        BY <2>7, <3>1 DEF AllocLoad, Group
      <3> QED
        BY <2>7, <3>2 DEF AllocLoad, Release
    <2>8. CASE AllocLoadFails(p)
      BY <2>8 DEF AllocLoadFails, Release, Return, Entries
    <2>9. CASE AllocClear(p)
      BY <2>9 DEF AllocClear, Return, Entries
    <2> QED
      BY <1>2, <2>1, <2>2, <2>3, <2>4, <2>5, <2>6, <2>7, <2>8, <2>9 DEF Alloc
  <1>3. ASSUME NEW p \in Procs, FreeBody(p) PROVE TypeOK'
    <2>1. CASE FreeLock(p)
      BY <2>1 DEF FreeLock, Acquire
    <2>2. CASE FreeFirst(p)
      <3>1. sfree' \in [Entries -> Blocks \cup {NoBlock}]
        BY <2>2 DEF FreeFirst
      <3> QED
        BY <2>2, <3>1 DEF FreeFirst
    <2>3. CASE FreeRoom(p)
      BY <2>3 DEF FreeRoom
    <2>4. CASE FreeSpill(p)
      <3>1. [n |-> StackSize, free |-> [i \in Entries |-> sfree[i]]] \in Group
        BY DEF Group, Entries
      <3> QED
        BY <2>4, <3>1 DEF FreeSpill
    <2>5. CASE FreeSpillFails(p)
      BY <2>5 DEF FreeSpillFails
    <2>6. CASE FreeUnlock(p)
      BY <2>6 DEF FreeUnlock, Release
    <2>7. CASE PushSlot(p)
      BY <2>7 DEF PushSlot
    <2>8. CASE PushCount(p)
      BY <2>8 DEF PushCount, Return, Entries
    <2> QED
      BY <1>3, <2>1, <2>2, <2>3, <2>4, <2>5, <2>6, <2>7, <2>8 DEF FreeBody
  <1>4. ASSUME NEW p \in Procs, NEW b \in Blocks, FreeCall(p, b) PROVE TypeOK'
    BY <1>4 DEF FreeCall
  <1> QED
    BY <1>1, <1>2, <1>3, <1>4, NextIs

-----------------------------------------------------------------------------
(* s_flock.                                                                 *)

LEMMA LockInit == Init => LockHeld
  BY ProcAssumption DEF Init, LockHeld, LockedPcs

LEMMA LockNext == TypeOK /\ LockHeld /\ [Next]_vars => LockHeld'
  <1> SUFFICES ASSUME TypeOK, LockHeld, [Next]_vars PROVE LockHeld'
    OBVIOUS
  <1> USE ProcAssumption DEF TypeOK, LockHeld, LockedPcs, Goto, Acquire, Release, Return
  <1>1. CASE UNCHANGED listVars
    BY <1>1 DEF listVars
  <1>2. ASSUME NEW p \in Procs, Alloc(p) PROVE LockHeld'
    BY <1>2 DEF Alloc, AllocCall, AllocLock, AllocPop, AllocTake, AllocEmpty, AllocKeep,
                AllocLoad, AllocLoadFails, AllocClear
  <1>3. ASSUME NEW p \in Procs, FreeBody(p) PROVE LockHeld'
    BY <1>3 DEF FreeBody, FreeLock, FreeFirst, FreeRoom, FreeSpill, FreeSpillFails,
                FreeUnlock, PushSlot, PushCount
  <1>4. ASSUME NEW p \in Procs, NEW b \in Blocks, FreeCall(p, b) PROVE LockHeld'
    BY <1>4 DEF FreeCall
  <1> QED
    BY <1>1, <1>2, <1>3, <1>4, NextIs

-----------------------------------------------------------------------------
(* The list.                                                                *)

\* What a step does to the list when it leaves the table, the blocks and the lock
\* holder's place between decrement and read alone.
LEMMA SameList ==
    ASSUME UNCHANGED <<nfree, sfree, disk, chain>>,
           \A q \in Procs : pc'[q] = "take" <=> pc[q] = "take"
    PROVE  /\ Heads' = Heads
           /\ \A h, i : (Listed(h, i)' <=> Listed(h, i)) /\ Entry(h, i)' = Entry(h, i)
  BY DEF Heads, Listed, Entry, Live

\* A step that adds no block to the list and none to the owned ones keeps OnePlace.
LEMMA ListedFrame ==
    ASSUME TypeOK', OnePlace, Heads' \subseteq Heads,
           \A h \in Heads' : \A i \in Entries :
              Listed(h, i)' => \/ Entry(h, i)' = NoBlock
                               \/ Listed(h, i) /\ Entry(h, i)' = Entry(h, i),
           \A b \in Blocks : Owned(b)' => Owned(b)
    PROVE  OnePlace'
  <1>1. ~Owned(NoBlock)'
    BY DEF TypeOK, Owned, InHand, Carrying, Freeing, Blocks, NoBlock
  <1>2. \A b : Owned(b)' => b \in Blocks
    BY DEF TypeOK, Owned, InHand, Carrying, Freeing
  <1> QED
    BY <1>1, <1>2 DEF OnePlace

\* Nobody stands between decrement and read while p is elsewhere inside the lock.
LEMMA NobodyTaking ==
    ASSUME LockHeld, NEW p \in Procs, pc[p] \in LockedPcs \ {"take"}
    PROVE  \A i : Live(i) <=> i < nfree
  BY DEF LockHeld, LockedPcs, Live

LEMMA BusyNext ==
    SoundInv /\ [Next]_vars => OneBusy'
  <1> SUFFICES ASSUME SoundInv, [Next]_vars PROVE OneBusy'
    BY DEF OneBusy, Busy, StoresDue
  <1> USE SizeAssumption, ProcAssumption
     DEF SoundInv, TypeOK, OneBusy, Busy, StoresDue, Freeing, Goto, Acquire, Release, Return,
         AllocPcs, FreePcs, LockedPcs, LockHeld, Entries
  <1>1. CASE UNCHANGED listVars
    BY <1>1 DEF listVars
  <1>2. ASSUME NEW p \in Procs, Alloc(p) PROVE OneBusy'
    <2>1. CASE AllocCall(p)
      BY <2>1 DEF AllocCall
    <2>2. CASE AllocLock(p)
      BY <2>2 DEF AllocLock
    <2>3. CASE AllocPop(p)
      BY <2>3 DEF AllocPop
    <2>4. CASE AllocTake(p)
      BY <2>4 DEF AllocTake
    <2>5. CASE AllocEmpty(p)
      BY <2>5 DEF AllocEmpty
    <2>6. CASE AllocKeep(p)
      BY <2>6 DEF AllocKeep
    <2>7. CASE AllocLoad(p)
      BY <2>7 DEF AllocLoad
    <2>8. CASE AllocLoadFails(p)
      BY <2>8 DEF AllocLoadFails
    <2>9. CASE AllocClear(p)
      BY <2>9 DEF AllocClear
    <2> QED
      BY <1>2, <2>1, <2>2, <2>3, <2>4, <2>5, <2>6, <2>7, <2>8, <2>9 DEF Alloc
  <1>3. ASSUME NEW p \in Procs, FreeBody(p) PROVE OneBusy'
    <2>1. CASE FreeLock(p)
      BY <2>1 DEF FreeLock
    <2>2. CASE FreeFirst(p)
      BY <2>2 DEF FreeFirst
    <2>3. CASE FreeRoom(p)
      BY <2>3 DEF FreeRoom
    <2>4. CASE FreeSpill(p)
      BY <2>4 DEF FreeSpill
    <2>5. CASE FreeSpillFails(p)
      BY <2>5 DEF FreeSpillFails
    <2>6. CASE FreeUnlock(p)
      BY <2>6 DEF FreeUnlock
    <2>7. CASE PushSlot(p)
      BY <2>7 DEF PushSlot
    <2>8. CASE PushCount(p)
      BY <2>8 DEF PushCount
    <2> QED
      BY <1>3, <2>1, <2>2, <2>3, <2>4, <2>5, <2>6, <2>7, <2>8 DEF FreeBody
  <1>4. ASSUME NEW p \in Procs, NEW c \in Blocks, FreeCall(p, c) PROVE OneBusy'
    BY <1>4 DEF FreeCall
  <1> QED
    BY <1>1, <1>2, <1>3, <1>4, NextIs

LEMMA HeightNext ==
    SoundInv /\ [Next]_vars => TableHeight'
  <1> SUFFICES ASSUME SoundInv, [Next]_vars PROVE TableHeight'
    BY DEF TableHeight
  <1> USE SizeAssumption, ProcAssumption
     DEF SoundInv, TypeOK, TableHeight, OneBusy, Busy, StoresDue, Freeing, Goto, Acquire, Release,
         Return, AllocPcs, FreePcs, LockedPcs, LockHeld, Entries
  <1>1. CASE UNCHANGED listVars
    BY <1>1 DEF listVars
  <1>2. ASSUME NEW p \in Procs, Alloc(p) PROVE TableHeight'
    <2>1. CASE AllocCall(p)
      BY <2>1 DEF AllocCall
    <2>2. CASE AllocLock(p)
      BY <2>2 DEF AllocLock
    <2>3. CASE AllocPop(p)
      BY <2>3 DEF AllocPop
    <2>4. CASE AllocTake(p)
      BY <2>4 DEF AllocTake
    <2>5. CASE AllocEmpty(p)
      BY <2>5 DEF AllocEmpty
    <2>6. CASE AllocKeep(p)
      BY <2>6 DEF AllocKeep
    <2>7. CASE AllocLoad(p)
      <3>1. disk[blk[p]] \in Group
        BY <2>7 DEF AllocLoad
      <3> QED
        BY <2>7, <3>1 DEF AllocLoad, Group
    <2>8. CASE AllocLoadFails(p)
      BY <2>8 DEF AllocLoadFails
    <2>9. CASE AllocClear(p)
      BY <2>9 DEF AllocClear
    <2> QED
      BY <1>2, <2>1, <2>2, <2>3, <2>4, <2>5, <2>6, <2>7, <2>8, <2>9 DEF Alloc
  <1>3. ASSUME NEW p \in Procs, FreeBody(p) PROVE TableHeight'
    <2>1. CASE FreeLock(p)
      BY <2>1 DEF FreeLock
    <2>2. CASE FreeFirst(p)
      BY <2>2 DEF FreeFirst
    <2>3. CASE FreeRoom(p)
      BY <2>3 DEF FreeRoom
    <2>4. CASE FreeSpill(p)
      BY <2>4 DEF FreeSpill
    <2>5. CASE FreeSpillFails(p)
      BY <2>5 DEF FreeSpillFails
    <2>6. CASE FreeUnlock(p)
      BY <2>6 DEF FreeUnlock
    <2>7. CASE PushSlot(p)
      BY <2>7 DEF PushSlot
    <2>8. CASE PushCount(p)
      BY <2>8 DEF PushCount
    <2> QED
      BY <1>3, <2>1, <2>2, <2>3, <2>4, <2>5, <2>6, <2>7, <2>8 DEF FreeBody
  <1>4. ASSUME NEW p \in Procs, NEW c \in Blocks, FreeCall(p, c) PROVE TableHeight'
    BY <1>4 DEF FreeCall
  <1> QED
    BY <1>1, <1>2, <1>3, <1>4, NextIs

LEMMA DoubleNext ==
    SoundInv /\ [Next]_vars => OneOwner'
  <1> SUFFICES ASSUME SoundInv, [Next]_vars PROVE OneOwner'
    BY DEF OneOwner
  <1> USE SizeAssumption, ProcAssumption
     DEF SoundInv, TypeOK, OneOwner, InHand, Carrying, Freeing, OneBusy, Busy, StoresDue,
         TableHeight, Goto, Acquire, Release, Return, AllocPcs, FreePcs, LockedPcs,
         LockHeld, Entries
  <1>1. CASE UNCHANGED listVars
    BY <1>1 DEF listVars
  <1>2. ASSUME NEW p \in Procs, Alloc(p) PROVE OneOwner'
    <2>1. CASE AllocCall(p)
      BY <2>1 DEF AllocCall
    <2>2. CASE AllocLock(p)
      BY <2>2 DEF AllocLock
    <2>3. CASE AllocPop(p)
      BY <2>3 DEF AllocPop
    <2>4. CASE AllocTake(p)
      <3>1. Listed(NoBlock, nfree) /\ NoBlock \in Heads /\ nfree \in Entries
        BY <2>4 DEF AllocTake, Listed, Live, Heads
      <3>2. ~Owned(sfree[nfree])
        BY <3>1 DEF OnePlace, Entry
      <3>3. blk'[p] = sfree[nfree] /\ used' = used
        BY <2>4 DEF AllocTake
      <3>4. \A q \in Procs : q # p => (InHand(q)' <=> InHand(q)) /\ blk'[q] = blk[q]
        BY <2>4 DEF AllocTake, InHand, Carrying, Freeing
      <3> HIDE DEF InHand, Carrying, Freeing
      <3>5. blk'[p] \notin used /\ \A q \in Procs : InHand(q) => blk[q] # blk'[p]
        BY <3>2, <3>3 DEF Owned
      <3>6. ASSUME NEW q \in Procs, InHand(q)' PROVE blk'[q] \notin used'
        BY <3>3, <3>4, <3>5, <3>6
      <3>7. ASSUME NEW q \in Procs, NEW r \in Procs, InHand(q)', InHand(r)', blk'[q] = blk'[r]
            PROVE  q = r
        BY <3>4, <3>5, <3>7
      <3> QED
        BY <3>6, <3>7
    <2>5. CASE AllocEmpty(p)
      BY <2>5 DEF AllocEmpty
    <2>6. CASE AllocKeep(p)
      BY <2>6 DEF AllocKeep
    <2>7. CASE AllocLoad(p)
      BY <2>7 DEF AllocLoad
    <2>8. CASE AllocLoadFails(p)
      BY <2>8 DEF AllocLoadFails
    <2>9. CASE AllocClear(p)
      BY <2>9 DEF AllocClear
    <2> QED
      BY <1>2, <2>1, <2>2, <2>3, <2>4, <2>5, <2>6, <2>7, <2>8, <2>9 DEF Alloc
  <1>3. ASSUME NEW p \in Procs, FreeBody(p) PROVE OneOwner'
    <2>1. CASE FreeLock(p)
      BY <2>1 DEF FreeLock
    <2>2. CASE FreeFirst(p)
      BY <2>2 DEF FreeFirst
    <2>3. CASE FreeRoom(p)
      BY <2>3 DEF FreeRoom
    <2>4. CASE FreeSpill(p)
      BY <2>4 DEF FreeSpill
    <2>5. CASE FreeSpillFails(p)
      BY <2>5 DEF FreeSpillFails
    <2>6. CASE FreeUnlock(p)
      BY <2>6 DEF FreeUnlock
    <2>7. CASE PushSlot(p)
      BY <2>7 DEF PushSlot
    <2>8. CASE PushCount(p)
      BY <2>8 DEF PushCount
    <2> QED
      BY <1>3, <2>1, <2>2, <2>3, <2>4, <2>5, <2>6, <2>7, <2>8 DEF FreeBody
  <1>4. ASSUME NEW p \in Procs, NEW c \in Blocks, FreeCall(p, c) PROVE OneOwner'
    BY <1>4 DEF FreeCall
  <1> QED
    BY <1>1, <1>2, <1>3, <1>4, NextIs

LEMMA ListedNext ==
    SoundInv /\ [Next]_vars => OnePlace'
  <1> SUFFICES ASSUME SoundInv, TypeOK', [Next]_vars PROVE OnePlace'
    BY TypeNext DEF SoundInv
  <1> USE SizeAssumption, ProcAssumption
      DEF SoundInv, TypeOK, Goto, Acquire, Release, Return, AllocPcs, FreePcs
  <1>5. \A b : Owned(b)' => b \in Blocks
    BY DEF Owned, InHand, Carrying, Freeing
  <1>1. CASE UNCHANGED listVars
    <2>1. \A b \in Blocks : Owned(b)' => Owned(b)
      BY <1>1 DEF listVars, Owned, InHand, Carrying, Freeing
    <2> QED
      BY <1>1, <2>1, SameList, ListedFrame DEF listVars
  <1>2. ASSUME NEW p \in Procs, Alloc(p) PROVE OnePlace'
    <2>1. CASE AllocCall(p)
      <3>1. \A b \in Blocks : Owned(b)' => Owned(b)
        BY <2>1 DEF AllocCall, Owned, InHand, Carrying, Freeing
      <3>2. UNCHANGED <<nfree, sfree, disk, chain>>
        BY <2>1 DEF AllocCall
      <3>3. \A q \in Procs : pc'[q] = "take" <=> pc[q] = "take"
        BY <2>1 DEF AllocCall
      <3> QED
        BY <3>1, <3>2, <3>3, SameList, ListedFrame
    <2>2. CASE AllocLock(p)
      <3>1. \A b \in Blocks : Owned(b)' => Owned(b)
        BY <2>2 DEF AllocLock, Owned, InHand, Carrying, Freeing
      <3>2. UNCHANGED <<nfree, sfree, disk, chain>>
        BY <2>2 DEF AllocLock
      <3>3. \A q \in Procs : pc'[q] = "take" <=> pc[q] = "take"
        BY <2>2 DEF AllocLock
      <3> QED
        BY <3>1, <3>2, <3>3, SameList, ListedFrame
    <2>3. CASE AllocPop(p)
      <3>1. \A b \in Blocks : Owned(b)' => Owned(b)
        BY <2>3 DEF AllocPop, Owned, InHand, Carrying, Freeing
      <3>2. \A i \in Entries : Live(i)' <=> Live(i)
        BY <2>3, NobodyTaking DEF AllocPop, Live, LockHeld, LockedPcs, Entries
      <3>3. UNCHANGED <<sfree, disk, chain>>
        BY <2>3 DEF AllocPop
      <3> QED
        BY <3>1, <3>2, <3>3, ListedFrame DEF Listed, Entry, Heads
    <2>4. CASE AllocTake(p)
      <3>1. \A h \in Heads : \A i \in Entries :
               Listed(h, i)' => Listed(h, i) /\ ~(h = NoBlock /\ i = nfree)
        BY <2>4 DEF AllocTake, Listed, Live, LockHeld, LockedPcs, Entries
      <3>2. Heads' = Heads /\ \A h, i : Entry(h, i)' = Entry(h, i)
        BY <2>4 DEF AllocTake, Heads, Entry
      <3>3. nfree \in Entries => Listed(NoBlock, nfree) /\ NoBlock \in Heads
        BY <2>4 DEF AllocTake, Listed, Live, Heads
      <3>4. \A b \in Blocks : Owned(b)' =>
               Owned(b) \/ (nfree \in Entries /\ b = Entry(NoBlock, nfree))
        BY <2>4 DEF AllocTake, Owned, InHand, Carrying, Freeing, Entry, Blocks
      <3>5. \A h \in Heads : \A i \in Entries :
               Listed(h, i)' => ~Owned(Entry(h, i))'
        <4> SUFFICES ASSUME NEW h \in Heads, NEW i \in Entries, Listed(h, i)',
                            Owned(Entry(h, i))'
                     PROVE  FALSE
          OBVIOUS
        <4>1. Entry(h, i)' \in Blocks
          BY <1>5
        <4>2. PICK e \in Blocks : e = Entry(h, i) /\ Owned(e)'
          BY <3>2, <4>1
        <4>3. e # NoBlock
          BY DEF Blocks, NoBlock
        <4>4. Listed(h, i) /\ ~(h = NoBlock /\ i = nfree)
          BY <3>1
        <4>5. ~Owned(e)
          BY <4>2, <4>4 DEF OnePlace
        <4>6. nfree \in Entries /\ e = Entry(NoBlock, nfree)
          BY <4>2, <4>5, <3>4
        <4> QED
          BY <4>2, <4>3, <4>4, <4>6, <3>3 DEF OnePlace
      <3> QED
        BY <3>1, <3>2, <3>5 DEF OnePlace
    <2>5. CASE AllocEmpty(p)
      <3>1. \A b \in Blocks : Owned(b)' => Owned(b)
        BY <2>5 DEF AllocEmpty, Owned, InHand, Carrying, Freeing
      <3>2. \A i \in Entries : Live(i)' => i = 0
        BY <2>5 DEF AllocEmpty, Live, LockHeld, LockedPcs, Entries
      <3>3. nfree >= 1 \/ sfree[0] = NoBlock
        BY SizeAssumption, <2>5 DEF AllocEmpty, TableHeight, Entries
      <3>4. UNCHANGED <<sfree, disk, chain>>
        BY <2>5 DEF AllocEmpty
      <3>5. nfree >= 1 => Live(0)
        BY DEF Live
      <3>6. \A i \in Entries : Live(i)' => Live(i) \/ sfree[i] = NoBlock
        BY <3>2, <3>3, <3>5
      <3> QED
        BY <3>1, <3>4, <3>6, ListedFrame DEF Listed, Entry, Heads
    <2>6. CASE AllocKeep(p)
      <3>1. \A b \in Blocks : Owned(b)' => Owned(b)
        BY <2>6 DEF AllocKeep, Owned, InHand, Carrying, Freeing
      <3>2. UNCHANGED <<nfree, sfree, disk, chain>>
        BY <2>6 DEF AllocKeep
      <3>3. \A q \in Procs : pc'[q] = "take" <=> pc[q] = "take"
        BY <2>6 DEF AllocKeep
      <3> QED
        BY <3>1, <3>2, <3>3, SameList, ListedFrame
    <2>7. CASE AllocLoad(p)
      <3> DEFINE g == blk[p]
      <3>1. g \in chain /\ disk[g] \in Group /\ g # NoBlock
        BY <2>7 DEF AllocLoad, GroupsInChain, OneOwner, InHand, Carrying, NoBlock, Blocks
      <3>2. \A i \in Entries : Live(i)' <=> i \in Entries
        BY <2>7, <3>1 DEF AllocLoad, Live, LockHeld, LockedPcs, Entries, Group
      <3>3. \A i \in Entries : sfree'[i] = disk[g].free[i]
        BY <2>7 DEF AllocLoad, Entries
      <3>4. UNCHANGED disk /\ chain' = chain \ {g} /\ NoBlock \notin chain
        BY <2>7 DEF AllocLoad, Blocks, NoBlock
      <3> DEFINE Old(h) == IF h = NoBlock THEN g ELSE h
      <3>5. \A h \in Heads' : \A i \in Entries :
               Listed(h, i)' => /\ Old(h) \in Heads
                                /\ Listed(Old(h), i)
                                /\ Entry(h, i)' = Entry(Old(h), i)
        BY <3>1, <3>2, <3>3, <3>4 DEF Listed, Entry, Heads
      <3>6. \A h, k \in Heads' : Old(h) = Old(k) => h = k
        BY <3>4 DEF Heads
      <3>7. \A b \in Blocks : Owned(b)' => Owned(b)
        BY <2>7 DEF AllocLoad, Owned, InHand, Carrying, Freeing
      <3> HIDE DEF Old, g
      <3>8. \A h \in Heads' : \A i \in Entries : Listed(h, i)' => ~Owned(Entry(h, i))'
        BY <3>5, <3>7, <1>5 DEF OnePlace
      <3> QED
        BY <3>5, <3>6, <3>8 DEF OnePlace
    <2>8. CASE AllocLoadFails(p)
      <3>1. \A b \in Blocks : Owned(b)' => Owned(b)
        BY <2>8 DEF AllocLoadFails, Owned, InHand, Carrying, Freeing
      <3>2. UNCHANGED <<nfree, sfree, disk, chain>>
        BY <2>8 DEF AllocLoadFails
      <3>3. \A q \in Procs : pc'[q] = "take" <=> pc[q] = "take"
        BY <2>8 DEF AllocLoadFails
      <3> QED
        BY <3>1, <3>2, <3>3, SameList, ListedFrame
    <2>9. CASE AllocClear(p)
      <3>1. \A b \in Blocks : Owned(b)' => Owned(b)
        BY <2>9 DEF AllocClear, Owned, InHand, Carrying, Freeing
      <3>2. blk[p] \notin chain
        BY <2>9 DEF AllocClear, IndexAtBottom, InHand, Carrying
      <3>3. \A h \in chain : disk'[h] = disk[h]
        BY <2>9, <3>2 DEF AllocClear
      <3>4. UNCHANGED <<nfree, sfree, chain>>
        BY <2>9 DEF AllocClear
      <3>5. \A i : Live(i)' <=> Live(i)
        BY <2>9 DEF AllocClear, Live
      <3>6. \A h \in Heads : \A i : (Listed(h, i)' <=> Listed(h, i)) /\ Entry(h, i)' = Entry(h, i)
        BY <3>3, <3>4, <3>5 DEF Listed, Entry, Heads
      <3>7. Heads' = Heads
        BY <3>4 DEF Heads
      <3> QED
        BY <3>1, <3>6, <3>7, ListedFrame
    <2> QED
      BY <1>2, <2>1, <2>2, <2>3, <2>4, <2>5, <2>6, <2>7, <2>8, <2>9 DEF Alloc
  <1>3. ASSUME NEW p \in Procs, FreeBody(p) PROVE OnePlace'
    <2>1. CASE FreeLock(p)
      <3>1. \A b \in Blocks : Owned(b)' => Owned(b)
        BY <2>1 DEF FreeLock, Owned, InHand, Carrying, Freeing
      <3>2. UNCHANGED <<nfree, sfree, disk, chain>>
        BY <2>1 DEF FreeLock
      <3>3. \A q \in Procs : pc'[q] = "take" <=> pc[q] = "take"
        BY <2>1 DEF FreeLock
      <3> QED
        BY <3>1, <3>2, <3>3, SameList, ListedFrame
    <2>2. CASE FreeFirst(p)
      <3>1. \A b \in Blocks : Owned(b)' => Owned(b)
        BY <2>2 DEF FreeFirst, Owned, InHand, Carrying, Freeing
      <3>2. \A i \in Entries : Live(i)' => i = 0
        BY <2>2 DEF FreeFirst, Live, LockHeld, LockedPcs, Entries
      <3>3. sfree'[0] = NoBlock /\ UNCHANGED <<disk, chain>>
        BY <2>2 DEF FreeFirst, Entries
      <3> QED
        BY <3>1, <3>2, <3>3, ListedFrame DEF Listed, Entry, Heads
    <2>3. CASE FreeRoom(p)
      <3>1. \A b \in Blocks : Owned(b)' => Owned(b)
        BY <2>3 DEF FreeRoom, Owned, InHand, Carrying, Freeing
      <3>2. UNCHANGED <<nfree, sfree, disk, chain>>
        BY <2>3 DEF FreeRoom
      <3>3. \A q \in Procs : pc'[q] = "take" <=> pc[q] = "take"
        BY <2>3 DEF FreeRoom
      <3> QED
        BY <3>1, <3>2, <3>3, SameList, ListedFrame
    <2>4. CASE FreeSpill(p)
      <3> DEFINE g == blk[p]
      <3>1. g \in Blocks /\ g \notin chain /\ NoBlock \notin chain /\ g # NoBlock
        BY <2>4 DEF FreeSpill, IndexAtBottom, InHand, Freeing, Blocks, NoBlock
      <3>2. \A i \in Entries : ~Live(i)'
        BY <2>4 DEF FreeSpill, Live, LockHeld, LockedPcs, Entries
      <3>3. \A i \in Entries : i \in Entries /\ Live(i)
        BY <2>4 DEF FreeSpill, Live, Entries, TableHeight
      <3>4. chain' = chain \cup {g} /\ sfree' = sfree
        BY <2>4 DEF FreeSpill
      <3>5. /\ \A i \in Entries : disk'[g].free[i] = sfree[i]
            /\ \A h \in chain : disk'[h] = disk[h]
        BY <2>4, <3>1 DEF FreeSpill
      <3> DEFINE Old(h) == IF h = g THEN NoBlock ELSE h
      <3>6. \A h \in Heads' : \A i \in Entries :
               Listed(h, i)' => /\ h # NoBlock
                                /\ Old(h) \in Heads
                                /\ Listed(Old(h), i)
                                /\ Entry(h, i)' = Entry(Old(h), i)
        BY <3>1, <3>2, <3>3, <3>4, <3>5 DEF Listed, Entry, Heads
      <3>7. \A h, k \in Heads' : h # NoBlock /\ k # NoBlock /\ Old(h) = Old(k) => h = k
        BY <3>1, <3>4 DEF Heads
      <3>8. \A b \in Blocks : Owned(b)' => Owned(b)
        BY <2>4 DEF FreeSpill, Owned, InHand, Carrying, Freeing
      <3> HIDE DEF Old, g
      <3>9. \A h \in Heads' : \A i \in Entries : Listed(h, i)' => ~Owned(Entry(h, i))'
        BY <3>6, <3>8, <1>5 DEF OnePlace
      <3> QED
        BY <3>6, <3>7, <3>9 DEF OnePlace
    <2>5. CASE FreeSpillFails(p)
      <3>1. \A b \in Blocks : Owned(b)' => Owned(b)
        BY <2>5 DEF FreeSpillFails, Owned, InHand, Carrying, Freeing
      <3>2. \A i \in Entries : ~Live(i)'
        BY <2>5 DEF FreeSpillFails, Live, LockHeld, LockedPcs, Entries
      <3>3. UNCHANGED <<disk, chain>>
        BY <2>5 DEF FreeSpillFails
      <3> QED
        BY <3>1, <3>2, <3>3, ListedFrame DEF Listed, Entry, Heads
    <2>6. CASE FreeUnlock(p)
      <3>1. \A b \in Blocks : Owned(b)' => Owned(b)
        BY <2>6 DEF FreeUnlock, Owned, InHand, Carrying, Freeing
      <3>2. UNCHANGED <<nfree, sfree, disk, chain>>
        BY <2>6 DEF FreeUnlock
      <3>3. \A q \in Procs : pc'[q] = "take" <=> pc[q] = "take"
        BY <2>6 DEF FreeUnlock
      <3> QED
        BY <3>1, <3>2, <3>3, SameList, ListedFrame
    <2>7. CASE PushSlot(p)
      <3>1. \A b \in Blocks : Owned(b)' => Owned(b)
        BY <2>7 DEF PushSlot, Owned, InHand, Carrying, Freeing
      <3>2. \A i : Live(i)' => Live(i)
        BY <2>7 DEF PushSlot, Live
      <3>3. ~Live(nfree)
        BY <2>7 DEF PushSlot, Live, OneBusy, Busy, StoresDue, Freeing
      <3>4. \A i \in Entries : Live(i) => sfree'[i] = sfree[i]
        BY <2>7, <3>3 DEF PushSlot
      <3>5. UNCHANGED <<disk, chain>>
        BY <2>7 DEF PushSlot
      <3> QED
        BY <3>1, <3>2, <3>4, <3>5, ListedFrame DEF Listed, Entry, Heads
    <2>8. CASE PushCount(p)
      <3>1. nfree' = nfree + 1 /\ sfree[nfree] = blk[p] /\ nfree \in Entries
        BY <2>8 DEF PushCount, TableHeight, Entries
      <3>2. \A i \in Entries : Live(i)' => Live(i) \/ i = nfree
        BY <2>8, <3>1 DEF PushCount, Live, OneBusy, Busy, StoresDue, Freeing, Entries
      <3>3. UNCHANGED <<sfree, disk, chain>>
        BY <2>8 DEF PushCount
      <3>4. Heads' = Heads /\ \A h, i : Entry(h, i)' = Entry(h, i)
        BY <3>3 DEF Heads, Entry
      <3>5. \A h \in Heads : \A i \in Entries : Listed(h, i)' =>
               \/ Listed(h, i)
               \/ h = NoBlock /\ i = nfree /\ Entry(h, i) = blk[p]
        BY <3>1, <3>2, <3>3 DEF Listed, Entry
      <3>6. Owned(blk[p]) /\ \A b \in Blocks : Owned(b)' => Owned(b) /\ b # blk[p]
        BY <2>8 DEF PushCount, Owned, InHand, Carrying, Freeing, OneOwner
      <3>7. \A h \in Heads : \A i \in Entries : Listed(h, i)' => ~Owned(Entry(h, i))'
        BY <3>4, <3>5, <3>6, <1>5 DEF OnePlace
      <3> QED
        BY <3>4, <3>5, <3>6, <3>7 DEF OnePlace
    <2> QED
      BY <1>3, <2>1, <2>2, <2>3, <2>4, <2>5, <2>6, <2>7, <2>8 DEF FreeBody
  <1>4. ASSUME NEW p \in Procs, NEW c \in Blocks, FreeCall(p, c) PROVE OnePlace'
    <2>1. \A b \in Blocks : Owned(b)' => Owned(b)
      BY <1>4 DEF FreeCall, Owned, InHand, Carrying, Freeing
    <2>2. UNCHANGED <<nfree, sfree, disk, chain>>
      BY <1>4 DEF FreeCall
    <2>3. \A q \in Procs : pc'[q] = "take" <=> pc[q] = "take"
      BY <1>4 DEF FreeCall
    <2> QED
      BY <2>1, <2>2, <2>3, SameList, ListedFrame
  <1> QED
    BY <1>1, <1>2, <1>3, <1>4, NextIs

\* The two halves of IndexAtBottom.
BottomListed ==
    \A h \in Heads : \A i \in Entries : Listed(h, i) /\ Entry(h, i) \in chain => i = 0

BottomOwned ==
    /\ chain \cap used = {}
    /\ \A p \in Procs : InHand(p) /\ blk[p] \in chain =>
          /\ pc[p] \in {"taken", "free_unlock", "push", "count"}
          /\ nfree = 0

LEMMA Bottom ==
    /\ IndexAtBottom <=> BottomListed /\ BottomOwned
    /\ IndexAtBottom' <=> BottomListed' /\ BottomOwned'
  BY DEF IndexAtBottom, BottomListed, BottomOwned

\* A step that lists no new block above the bottom, and makes no new index block.
LEMMA BottomFrame ==
    ASSUME TypeOK', BottomListed, BottomOwned', chain' = chain, Heads' \subseteq Heads,
           \A h \in Heads' : \A i \in Entries :
              Listed(h, i)' => \/ i = 0
                               \/ Entry(h, i)' = NoBlock
                               \/ Listed(h, i) /\ Entry(h, i)' = Entry(h, i)
    PROVE  IndexAtBottom'
  <1>1. NoBlock \notin chain'
    BY DEF TypeOK, NoBlock, Blocks
  <1> QED
    BY <1>1, Bottom DEF BottomListed

LEMMA BottomNext ==
    SoundInv /\ [Next]_vars => IndexAtBottom'
  <1> SUFFICES ASSUME SoundInv, TypeOK', [Next]_vars PROVE IndexAtBottom'
    BY TypeNext DEF SoundInv
  <1>0. BottomListed /\ BottomOwned
    BY Bottom DEF SoundInv
  <1> USE <1>0, SizeAssumption, ProcAssumption
      DEF SoundInv, TypeOK, Goto, Acquire, Release, Return, AllocPcs, FreePcs
  <1>1. CASE UNCHANGED listVars
    <2>1. BottomOwned'
      BY <1>1 DEF listVars, BottomOwned, InHand, Carrying, Freeing
    <2> QED
      BY <1>1, <2>1, SameList, BottomFrame DEF listVars
  <1>2. ASSUME NEW p \in Procs, Alloc(p) PROVE IndexAtBottom'
    <2>1. CASE AllocCall(p)
      <3>1. UNCHANGED <<nfree, sfree, disk, chain>>
        BY <2>1 DEF AllocCall
      <3>2. \A q \in Procs : pc'[q] = "take" <=> pc[q] = "take"
        BY <2>1 DEF AllocCall
      <3>3. BottomOwned'
        BY <2>1 DEF AllocCall, BottomOwned, InHand, Carrying, Freeing
      <3> QED
        BY <3>1, <3>2, <3>3, SameList, BottomFrame
    <2>2. CASE AllocLock(p)
      <3>1. UNCHANGED <<nfree, sfree, disk, chain>>
        BY <2>2 DEF AllocLock
      <3>2. \A q \in Procs : pc'[q] = "take" <=> pc[q] = "take"
        BY <2>2 DEF AllocLock
      <3>3. BottomOwned'
        BY <2>2 DEF AllocLock, BottomOwned, InHand, Carrying, Freeing
      <3> QED
        BY <3>1, <3>2, <3>3, SameList, BottomFrame
    <2>3. CASE AllocPop(p)
      <3>1. \A i \in Entries : Live(i)' <=> Live(i)
        BY <2>3, NobodyTaking DEF AllocPop, Live, LockHeld, LockedPcs, Entries
      <3>2. UNCHANGED <<sfree, disk, chain>>
        BY <2>3 DEF AllocPop
      <3>3. BottomOwned'
        BY <2>3 DEF AllocPop, BottomOwned, InHand, Carrying, Freeing, LockHeld, LockedPcs, StoresDue
      <3> QED
        BY <3>1, <3>2, <3>3, BottomFrame DEF Listed, Entry, Heads
    <2>4. CASE AllocTake(p)
      <3>1. \A i \in Entries : Live(i)' => Live(i)
        BY <2>4 DEF AllocTake, Live, LockHeld, LockedPcs, Entries
      <3>2. UNCHANGED <<nfree, sfree, disk, chain, used>>
        BY <2>4 DEF AllocTake
      <3>3. nfree \in Entries => Listed(NoBlock, nfree) /\ Entry(NoBlock, nfree) = sfree[nfree]
        BY <2>4 DEF AllocTake, Listed, Live, Entry
      <3>4. nfree \in Entries /\ sfree[nfree] \in chain => nfree = 0
        BY <3>3 DEF BottomListed, Heads
      <3>5. InHand(p)' => pc'[p] = "taken" /\ nfree \in Entries /\ blk'[p] = sfree[nfree]
        BY <2>4 DEF AllocTake, InHand, Carrying, Freeing, Blocks
      <3>6. \A q \in Procs \ {p} : (InHand(q)' <=> InHand(q)) /\ blk'[q] = blk[q] /\ pc'[q] = pc[q]
        BY <2>4 DEF AllocTake, InHand, Carrying, Freeing
      <3> HIDE DEF InHand
      <3>7. BottomOwned'
        BY <3>2, <3>4, <3>5, <3>6 DEF BottomOwned
      <3> QED
        BY <3>1, <3>2, <3>7, BottomFrame DEF Listed, Entry, Heads
    <2>5. CASE AllocEmpty(p)
      <3>1. \A i \in Entries : Live(i)' => i = 0
        BY <2>5 DEF AllocEmpty, Live, LockHeld, LockedPcs, Entries
      <3>2. UNCHANGED <<sfree, disk, chain>>
        BY <2>5 DEF AllocEmpty
      <3>3. BottomOwned'
        BY <2>5
           DEF AllocEmpty, BottomOwned, InHand, Carrying, Freeing, LockHeld, LockedPcs,
               OneBusy, Busy, StoresDue
      <3> QED
        BY <3>1, <3>2, <3>3, BottomFrame DEF Listed, Entry, Heads
    <2>6. CASE AllocKeep(p)
      <3>1. UNCHANGED <<nfree, sfree, disk, chain>>
        BY <2>6 DEF AllocKeep
      <3>2. \A q \in Procs : pc'[q] = "take" <=> pc[q] = "take"
        BY <2>6 DEF AllocKeep
      <3>3. BottomOwned'
        BY <2>6 DEF AllocKeep, BottomOwned, InHand, Carrying, Freeing
      <3> QED
        BY <3>1, <3>2, <3>3, SameList, BottomFrame
    <2>7. CASE AllocLoad(p)
      <3> DEFINE g == blk[p]
      <3>1. g \in chain /\ disk[g] \in Group /\ g # NoBlock
        BY <2>7 DEF AllocLoad, GroupsInChain, OneOwner, InHand, Carrying, NoBlock, Blocks
      <3>2. \A i \in Entries : Live(i)' <=> i \in Entries
        BY <2>7, <3>1 DEF AllocLoad, Live, LockHeld, LockedPcs, Entries, Group
      <3>3. \A i \in Entries : sfree'[i] = disk[g].free[i]
        BY <2>7 DEF AllocLoad, Entries
      <3>4. UNCHANGED disk /\ chain' = chain \ {g} /\ NoBlock \notin chain
        BY <2>7 DEF AllocLoad, Blocks, NoBlock
      <3>5. \A h \in Heads' : \A i \in Entries :
               Listed(h, i)' => \E k \in Heads : Listed(k, i) /\ Entry(h, i)' = Entry(k, i)
        BY <3>1, <3>2, <3>3, <3>4 DEF Listed, Entry, Heads
      <3>6. BottomListed'
        BY <3>4, <3>5 DEF BottomListed
      <3>7. BottomOwned'
        BY <2>7
           DEF AllocLoad, BottomOwned, InHand, Carrying, Freeing, LockHeld, LockedPcs,
               OneBusy, Busy, StoresDue
      <3> QED
        BY <3>6, <3>7, Bottom
    <2>8. CASE AllocLoadFails(p)
      <3>1. UNCHANGED <<nfree, sfree, disk, chain>>
        BY <2>8 DEF AllocLoadFails
      <3>2. \A q \in Procs : pc'[q] = "take" <=> pc[q] = "take"
        BY <2>8 DEF AllocLoadFails
      <3>3. BottomOwned'
        BY <2>8 DEF AllocLoadFails, BottomOwned, InHand, Carrying, Freeing
      <3> QED
        BY <3>1, <3>2, <3>3, SameList, BottomFrame
    <2>9. CASE AllocClear(p)
      <3>1. blk[p] \notin chain
        BY <2>9, Bottom DEF AllocClear, BottomOwned, InHand, Carrying
      <3>2. \A h \in chain : disk'[h] = disk[h]
        BY <2>9, <3>1 DEF AllocClear
      <3>3. UNCHANGED <<nfree, sfree, chain>>
        BY <2>9 DEF AllocClear
      <3>4. \A i : Live(i)' <=> Live(i)
        BY <2>9 DEF AllocClear, Live
      <3>5. \A h \in Heads : \A i : (Listed(h, i)' <=> Listed(h, i)) /\ Entry(h, i)' = Entry(h, i)
        BY <3>2, <3>3, <3>4 DEF Listed, Entry, Heads
      <3>6. BottomOwned'
        BY <2>9, <3>1 DEF AllocClear, BottomOwned, InHand, Carrying, Freeing
      <3> QED
        BY <3>3, <3>5, <3>6, BottomFrame DEF Heads
    <2> QED
      BY <1>2, <2>1, <2>2, <2>3, <2>4, <2>5, <2>6, <2>7, <2>8, <2>9 DEF Alloc
  <1>3. ASSUME NEW p \in Procs, FreeBody(p) PROVE IndexAtBottom'
    <2>1. CASE FreeLock(p)
      <3>1. UNCHANGED <<nfree, sfree, disk, chain>>
        BY <2>1 DEF FreeLock
      <3>2. \A q \in Procs : pc'[q] = "take" <=> pc[q] = "take"
        BY <2>1 DEF FreeLock
      <3>3. BottomOwned'
        BY <2>1 DEF FreeLock, BottomOwned, InHand, Carrying, Freeing
      <3> QED
        BY <3>1, <3>2, <3>3, SameList, BottomFrame
    <2>2. CASE FreeFirst(p)
      <3>1. \A i \in Entries : Live(i)' => i = 0
        BY <2>2 DEF FreeFirst, Live, LockHeld, LockedPcs, Entries
      <3>2. sfree'[0] = NoBlock /\ UNCHANGED <<disk, chain>>
        BY <2>2 DEF FreeFirst, Entries
      <3>3. BottomOwned'
        BY <2>2 DEF FreeFirst, BottomOwned, InHand, Carrying, Freeing, LockHeld, LockedPcs, StoresDue
      <3> QED
        BY <3>1, <3>2, <3>3, BottomFrame DEF Listed, Entry, Heads
    <2>3. CASE FreeRoom(p)
      <3>1. UNCHANGED <<nfree, sfree, disk, chain>>
        BY <2>3 DEF FreeRoom
      <3>2. \A q \in Procs : pc'[q] = "take" <=> pc[q] = "take"
        BY <2>3 DEF FreeRoom
      <3>3. BottomOwned'
        BY <2>3 DEF FreeRoom, BottomOwned, InHand, Carrying, Freeing
      <3> QED
        BY <3>1, <3>2, <3>3, SameList, BottomFrame
    <2>4. CASE FreeSpill(p)
      <3> DEFINE g == blk[p]
      <3>1. g \in Blocks /\ g \notin chain /\ NoBlock \notin chain /\ g # NoBlock
        BY <2>4, Bottom DEF FreeSpill, BottomOwned, InHand, Freeing, Blocks, NoBlock
      <3>2. \A i \in Entries : ~Live(i)'
        BY <2>4 DEF FreeSpill, Live, LockHeld, LockedPcs, Entries
      <3>3. \A i \in Entries : i \in Entries /\ Live(i)
        BY <2>4 DEF FreeSpill, Live, Entries, TableHeight
      <3>4. chain' = chain \cup {g} /\ sfree' = sfree
        BY <2>4 DEF FreeSpill
      <3>5. /\ \A i \in Entries : disk'[g].free[i] = sfree[i]
            /\ \A h \in chain : disk'[h] = disk[h]
        BY <2>4, <3>1 DEF FreeSpill
      <3>6. \A h \in Heads' : \A i \in Entries :
               Listed(h, i)' => \E k \in Heads : Listed(k, i) /\ Entry(h, i)' = Entry(k, i)
        BY <3>1, <3>2, <3>3, <3>4, <3>5 DEF Listed, Entry, Heads
      <3>7. Owned(g)
        BY <2>4 DEF FreeSpill, Owned, InHand, Freeing
      <3>8. BottomListed'
        BY <3>4, <3>6, <3>7 DEF BottomListed, OnePlace
      <3>9. BottomOwned'
        BY <2>4
           DEF FreeSpill, BottomOwned, InHand, Carrying, Freeing, OneBusy, Busy, StoresDue, OneOwner
      <3> QED
        BY <3>8, <3>9, Bottom
    <2>5. CASE FreeSpillFails(p)
      <3>1. \A i \in Entries : ~Live(i)'
        BY <2>5 DEF FreeSpillFails, Live, LockHeld, LockedPcs, Entries
      <3>2. UNCHANGED <<disk, chain>>
        BY <2>5 DEF FreeSpillFails
      <3>3. BottomOwned'
        BY <2>5 DEF FreeSpillFails, BottomOwned, InHand, Carrying, Freeing, OneBusy, Busy, StoresDue
      <3> QED
        BY <3>1, <3>2, <3>3, BottomFrame DEF Listed, Entry, Heads
    <2>6. CASE FreeUnlock(p)
      <3>1. UNCHANGED <<nfree, sfree, disk, chain>>
        BY <2>6 DEF FreeUnlock
      <3>2. \A q \in Procs : pc'[q] = "take" <=> pc[q] = "take"
        BY <2>6 DEF FreeUnlock
      <3>3. BottomOwned'
        BY <2>6 DEF FreeUnlock, BottomOwned, InHand, Carrying, Freeing
      <3> QED
        BY <3>1, <3>2, <3>3, SameList, BottomFrame
    <2>7. CASE PushSlot(p)
      <3>1. \A i : Live(i)' => Live(i)
        BY <2>7 DEF PushSlot, Live
      <3>2. ~Live(nfree)
        BY <2>7 DEF PushSlot, Live, OneBusy, Busy, StoresDue, Freeing
      <3>3. \A i \in Entries : Live(i) => sfree'[i] = sfree[i]
        BY <2>7, <3>2 DEF PushSlot
      <3>4. UNCHANGED <<disk, chain>>
        BY <2>7 DEF PushSlot
      <3>5. BottomOwned'
        BY <2>7 DEF PushSlot, BottomOwned, InHand, Carrying, Freeing
      <3> QED
        BY <3>1, <3>3, <3>4, <3>5, BottomFrame DEF Listed, Entry, Heads
    <2>8. CASE PushCount(p)
      <3>1. nfree' = nfree + 1 /\ sfree[nfree] = blk[p] /\ nfree \in Entries
        BY <2>8 DEF PushCount, TableHeight, Entries
      <3>2. \A i \in Entries : Live(i)' => Live(i) \/ i = nfree
        BY <2>8, <3>1 DEF PushCount, Live, OneBusy, Busy, StoresDue, Freeing, Entries
      <3>3. UNCHANGED <<sfree, disk, chain>>
        BY <2>8 DEF PushCount
      <3>4. \A h \in Heads : \A i \in Entries : Listed(h, i)' =>
               \/ Listed(h, i)
               \/ h = NoBlock /\ i = nfree /\ Entry(h, i) = blk[p]
        BY <3>1, <3>2, <3>3 DEF Listed, Entry
      <3>5. Heads' = Heads /\ \A h, i : Entry(h, i)' = Entry(h, i)
        BY <3>3 DEF Heads, Entry
      <3>6. blk[p] \in chain => nfree = 0
        BY <2>8, <3>1, Bottom DEF PushCount, BottomOwned, InHand, Freeing, Entries
      <3>7. BottomListed'
        BY <3>3, <3>4, <3>5, <3>6 DEF BottomListed
      <3>8. BottomOwned'
        BY <2>8 DEF PushCount, BottomOwned, InHand, Carrying, Freeing, OneBusy, Busy, StoresDue
      <3> QED
        BY <3>7, <3>8, Bottom
    <2> QED
      BY <1>3, <2>1, <2>2, <2>3, <2>4, <2>5, <2>6, <2>7, <2>8 DEF FreeBody
  <1>4. ASSUME NEW p \in Procs, NEW c \in Blocks, FreeCall(p, c) PROVE IndexAtBottom'
    <2>1. UNCHANGED <<nfree, sfree, disk, chain>>
      BY <1>4 DEF FreeCall
    <2>2. \A q \in Procs : pc'[q] = "take" <=> pc[q] = "take"
      BY <1>4 DEF FreeCall
    <2>3. BottomOwned'
      BY <1>4 DEF FreeCall, BottomOwned, InHand, Carrying, Freeing
    <2> QED
      BY <2>1, <2>2, <2>3, SameList, BottomFrame
  <1> QED
    BY <1>1, <1>2, <1>3, <1>4, NextIs

LEMMA GroupsNext ==
    SoundInv /\ [Next]_vars => GroupsInChain'
  <1> SUFFICES ASSUME SoundInv, [Next]_vars PROVE GroupsInChain'
    OBVIOUS
  <1> USE SizeAssumption, ProcAssumption
      DEF SoundInv, TypeOK, GroupsInChain, Goto, Acquire, Release, Return
  <1>1. CASE UNCHANGED listVars
    BY <1>1 DEF listVars
  <1>2. ASSUME NEW p \in Procs, Alloc(p) PROVE GroupsInChain'
    <2>1. CASE AllocCall(p)
      BY <2>1 DEF AllocCall, InHand, Carrying, LockHeld, LockedPcs, IndexAtBottom
    <2>2. CASE AllocLock(p)
      BY <2>2 DEF AllocLock, InHand, Carrying, LockHeld, LockedPcs, IndexAtBottom
    <2>3. CASE AllocPop(p)
      BY <2>3 DEF AllocPop, InHand, Carrying, LockHeld, LockedPcs, IndexAtBottom
    <2>4. CASE AllocTake(p)
      BY <2>4 DEF AllocTake, InHand, Carrying, LockHeld, LockedPcs, IndexAtBottom
    <2>5. CASE AllocEmpty(p)
      BY <2>5 DEF AllocEmpty, InHand, Carrying, LockHeld, LockedPcs, IndexAtBottom
    <2>6. CASE AllocKeep(p)
      BY <2>6 DEF AllocKeep, InHand, Carrying, LockHeld, LockedPcs, IndexAtBottom
    <2>7. CASE AllocLoad(p)
      BY <2>7 DEF AllocLoad, InHand, Carrying, LockHeld, LockedPcs, IndexAtBottom
    <2>8. CASE AllocLoadFails(p)
      BY <2>8 DEF AllocLoadFails, InHand, Carrying, LockHeld, LockedPcs, IndexAtBottom
    <2>9. CASE AllocClear(p)
      BY <2>9 DEF AllocClear, InHand, Carrying, LockHeld, LockedPcs, IndexAtBottom
    <2> QED
      BY <1>2, <2>1, <2>2, <2>3, <2>4, <2>5, <2>6, <2>7, <2>8, <2>9 DEF Alloc
  <1>3. ASSUME NEW p \in Procs, FreeBody(p) PROVE GroupsInChain'
    <2>1. CASE FreeLock(p)
      BY <2>1 DEF FreeLock, InHand, Carrying, LockHeld, LockedPcs, IndexAtBottom
    <2>2. CASE FreeFirst(p)
      BY <2>2 DEF FreeFirst, InHand, Carrying, LockHeld, LockedPcs, IndexAtBottom
    <2>3. CASE FreeRoom(p)
      BY <2>3 DEF FreeRoom, InHand, Carrying, LockHeld, LockedPcs, IndexAtBottom
    <2>4. CASE FreeSpill(p)
      <3> DEFINE g == [n |-> StackSize, free |-> sfree]
      <3>1. g \in Group /\ g # FileData
        BY FileDataAssumption DEF Group, Entries
      <3>2. chain' = chain \cup {blk[p]} /\ disk' = [disk EXCEPT ![blk[p]] = g]
        BY <2>4 DEF FreeSpill
      <3>3. blk[p] \in Blocks
        BY <2>4 DEF FreeSpill, FreePcs
      <3>4. \A q \in Procs : pc[q] = "clear" => pc'[q] = "clear" /\ blk'[q] = blk[q]
        BY <2>4 DEF FreeSpill
      <3> HIDE DEF g
      <3>5. \A b \in chain' : disk'[b] # FileData
        BY <3>1, <3>2, <3>3
      <3>6. \A b \in Blocks \ chain' : b \notin chain /\ disk'[b] = disk[b]
        BY <3>2, <3>3
      <3> QED
        BY <3>4, <3>5, <3>6
    <2>5. CASE FreeSpillFails(p)
      BY <2>5 DEF FreeSpillFails, InHand, Carrying, LockHeld, LockedPcs, IndexAtBottom
    <2>6. CASE FreeUnlock(p)
      BY <2>6 DEF FreeUnlock, InHand, Carrying, LockHeld, LockedPcs, IndexAtBottom
    <2>7. CASE PushSlot(p)
      BY <2>7 DEF PushSlot, InHand, Carrying, LockHeld, LockedPcs, IndexAtBottom
    <2>8. CASE PushCount(p)
      BY <2>8 DEF PushCount, InHand, Carrying, LockHeld, LockedPcs, IndexAtBottom
    <2> QED
      BY <1>3, <2>1, <2>2, <2>3, <2>4, <2>5, <2>6, <2>7, <2>8 DEF FreeBody
  <1>4. ASSUME NEW p \in Procs, NEW c \in Blocks, FreeCall(p, c) PROVE GroupsInChain'
    BY <1>4 DEF FreeCall
  <1> QED
    BY <1>1, <1>2, <1>3, <1>4, NextIs

\* What mkfs writes: entry i of the group stored in h is block h + StackSize - i, and
\* entry i of the table is block InitCount - i, so that a multiple of StackSize away
\* from NBlocks + 1 stands at the bottom of every group.
LEMMA SerialInit == Init => SoundInv
  <1> SUFFICES ASSUME Init PROVE SoundInv
    OBVIOUS
  <1>1. TypeOK /\ LockHeld
    BY TypeInit, LockInit
  <1>2. \A p \in Procs : ~InHand(p) /\ ~Freeing(p) /\ pc[p] = "idle"
    BY DEF Init, InHand, Carrying, Freeing, FreePcs
  <1>3. OneBusy /\ TableHeight /\ OneOwner
    BY <1>2, SizeAssumption, InitCountRange DEF OneBusy, Busy, StoresDue, TableHeight, OneOwner, Init
  <1>4. \A b : ~Owned(b)
    BY <1>2 DEF Owned, Init
  <1>5. chain = IndexBlocks /\ \A b \in Blocks : disk[b] = InitContent(b)
    BY DEF Init
  <1>6. \A b \in IndexBlocks :
           disk[b] = [n |-> StackSize, free |-> [i \in Entries |-> ListEntry(b + StackSize - i)]]
    BY <1>5 DEF InitContent, IndexBlocks
  <1>7. GroupsInChain
    <2>1. \A b \in IndexBlocks : disk[b] \in Group
      <3>1. \A n \in Int : ListEntry(n) \in Blocks \cup {NoBlock}
        BY DEF ListEntry
      <3> SUFFICES ASSUME NEW b \in IndexBlocks PROVE disk[b] \in Group
        OBVIOUS
      <3>2. \A i \in Entries : b + StackSize - i \in Int
        BY SizeAssumption DEF IndexBlocks, Blocks, Entries
      <3> DEFINE f == [i \in Entries |-> ListEntry(b + StackSize - i)]
      <3>3. f \in [Entries -> Blocks \cup {NoBlock}]
        BY <3>1, <3>2
      <3>4. disk[b] = [n |-> StackSize, free |-> f]
        BY <1>6
      <3> HIDE DEF f
      <3> QED
        BY <3>3, <3>4 DEF Group
    <2>2. \A b \in Blocks \ IndexBlocks : disk[b] = FileData
      BY <1>5 DEF InitContent
    <2> QED
      BY <1>5, <2>1, <2>2, FileDataAssumption DEF GroupsInChain, IndexBlocks
  <1> DEFINE Base(h) == IF h = NoBlock THEN InitCount - StackSize ELSE h
  \* Every group lies StackSize blocks or more from the next.
  <1>8. \A h \in Heads : Base(h) \in Int /\ (NBlocks + 1 - Base(h)) % StackSize = 0
    <2>1. (NBlocks + 1 - (InitCount - StackSize)) % StackSize = 0
      <3>1. NBlocks = StackSize * (NBlocks \div StackSize) + (NBlocks % StackSize)
        BY SizeAssumption, DivMod
      <3>2. NBlocks \div StackSize \in Int
        BY SizeAssumption
      <3>3. NBlocks + 1 - (InitCount - StackSize)
               = StackSize * ((NBlocks \div StackSize) + 1)
        BY <3>1, <3>2, SizeAssumption DEF InitCount
      <3> QED
        BY <3>2, <3>3, SizeAssumption, MultipleMod
    <2> QED
      BY <1>5, <2>1, InitCountRange, SizeAssumption DEF Heads, IndexBlocks, Blocks
  <1>9. \A h, k \in Heads : Base(h) = Base(k) => h = k
    BY <1>5, InitCountRange, SizeAssumption DEF Heads, IndexBlocks, Blocks, NoBlock
  <1>10. \A h \in Heads : \A i \in Entries : Listed(h, i) =>
            /\ i \in Entries
            /\ Entry(h, i) = ListEntry(Base(h) + StackSize - i)
    <2>1. \A i \in Entries : Live(i) => i < InitCount
      BY <1>2 DEF Live, Init
    <2>2. \A i \in Entries : i < InitCount =>
             i \in Entries /\ sfree[i] = ListEntry(InitCount - i)
      BY InitCountRange, SizeAssumption DEF Init, Entries
    <2>3. \A i \in Entries : InitCount - StackSize + StackSize - i = InitCount - i
      BY InitCountRange, SizeAssumption DEF Entries
    <2> SUFFICES ASSUME NEW h \in Heads, NEW i \in Entries, Listed(h, i)
                 PROVE  i \in Entries /\ Entry(h, i) = ListEntry(Base(h) + StackSize - i)
      OBVIOUS
    <2>4. CASE h = NoBlock
      BY <2>1, <2>2, <2>3, <2>4 DEF Listed, Entry
    <2>5. CASE h # NoBlock
      <3>1. h \in IndexBlocks /\ i \in Entries
        BY <1>5, <2>5 DEF Listed, Heads
      <3> DEFINE f == [j \in Entries |-> ListEntry(h + StackSize - j)]
      <3>2. disk[h] = [n |-> StackSize, free |-> f]
        BY <1>6, <3>1
      <3>3. f[i] = ListEntry(h + StackSize - i)
        BY <3>1
      <3> HIDE DEF f
      <3>4. Entry(h, i) = f[i]
        BY <2>5, <3>2 DEF Entry
      <3> QED
        BY <2>5, <3>1, <3>3, <3>4
    <2> QED
      BY <2>4, <2>5
  <1> HIDE DEF Base
  <1>11. \A h \in Heads : \A i \in Entries : Listed(h, i) /\ Entry(h, i) # NoBlock =>
            i \in Entries /\ Entry(h, i) = Base(h) + StackSize - i
    BY <1>10 DEF ListEntry
  <1>12. OnePlace
    <2>1. SUFFICES ASSUME NEW h \in Heads, NEW k \in Heads, NEW i \in Entries, NEW j \in Entries,
                          Listed(h, i), Listed(k, j),
                          Entry(h, i) = Entry(k, j), Entry(h, i) # NoBlock
                   PROVE  h = k /\ i = j
      BY <1>4 DEF OnePlace
    <2>2. Base(h) + StackSize - i = Base(k) + StackSize - j /\ i \in Entries /\ j \in Entries
      BY <1>11, <2>1
    <2> DEFINE a == NBlocks + 1 - Base(h)
               b == NBlocks + 1 - Base(k)
    <2>3. /\ a \in Int /\ b \in Int /\ a % StackSize = 0 /\ b % StackSize = 0
          /\ a - b < StackSize /\ b - a < StackSize
      BY <1>8, <2>2, SizeAssumption DEF Entries
    <2>4. a = b
      <3> HIDE DEF a, b
      <3> QED
        BY <2>3, CloseMultiples, SizeAssumption
    <2>5. Base(h) = Base(k)
      BY <1>8, <2>4, SizeAssumption
    <2> QED
      BY <1>8, <1>9, <2>2, <2>5, SizeAssumption DEF Entries
  <1>13. IndexAtBottom
    <2>1. SUFFICES ASSUME NEW h \in Heads, NEW i \in Entries, Listed(h, i), Entry(h, i) \in chain
                   PROVE  i = 0
      BY <1>2, <1>5 DEF IndexAtBottom, Init
    <2>2. Entry(h, i) \in Blocks /\ (NBlocks + 1 - Entry(h, i)) % StackSize = 0
      BY <1>5, <2>1 DEF IndexBlocks
    <2>3. i \in Entries /\ Entry(h, i) = Base(h) + StackSize - i
      BY <1>11, <2>1, <2>2 DEF Blocks, NoBlock
    <2> DEFINE a == NBlocks + 1 - Base(h)
               b == NBlocks + 1 - Entry(h, i)
    <2>4. a \in Int /\ b \in Int /\ a % StackSize = 0 /\ b % StackSize = 0
      BY <1>8, <2>2, SizeAssumption DEF Blocks
    <2>5. b = a - StackSize + i
      BY <1>8, <2>3, SizeAssumption DEF Entries
    <2> HIDE DEF a, b
    <2>6. i = 0 \/ (i >= 1 /\ i < StackSize)
      BY <2>3, SizeAssumption DEF Entries
    <2>7. ASSUME i >= 1, i < StackSize PROVE FALSE
      <3>1. a - b < StackSize /\ b - a < StackSize
        BY <2>4, <2>5, <2>7, SizeAssumption, <2>3 DEF Entries
      <3>2. a = b
        BY <3>1, <2>4, CloseMultiples, SizeAssumption
      <3> QED
        BY <3>2, <2>4, <2>5, <2>7, SizeAssumption, <2>3 DEF Entries
    <2> QED
      BY <2>6, <2>7
  <1> QED
    BY <1>1, <1>3, <1>7, <1>12, <1>13 DEF SoundInv

LEMMA SerialNext == SoundInv /\ [Next]_vars => SoundInv'
  <1> SUFFICES ASSUME SoundInv, [Next]_vars PROVE SoundInv'
    OBVIOUS
  <1>1. TypeOK' /\ LockHeld'
    BY TypeNext, LockNext DEF SoundInv
  <1> QED
    BY <1>1, BusyNext, HeightNext, ListedNext, BottomNext, GroupsNext, DoubleNext
    DEF SoundInv

LEMMA SoundAlways == Spec => []SoundInv
  BY SerialInit, SerialNext, PTL DEF Spec

\* The lock, the heights, the index blocks and the list are in order in every reachable
\* state that no Damage has led to, whatever calls overlap and whatever transfers fail.
THEOREM SerialCorrect == Spec => []SerialInv
  <1>1. SoundInv => SerialInv
    BY DEF SerialInv
  <1> QED
    BY <1>1, SoundAlways, PTL

\* The table, the blocks and the processes keep their types, and the count its range,
\* up to the step that does damage and with it.
THEOREM TypeCorrect == Spec => []TypeOK
  <1>1. SoundInv => TypeOK
    BY DEF SoundInv
  <1> QED
    BY <1>1, SoundAlways, PTL

\* Whoever is inside the table is the holder of s_flock, with and without failures.
THEOREM LockCorrect == Spec => []LockHeld
  <1>1. SoundInv => LockHeld
    BY DEF SoundInv
  <1> QED
    BY <1>1, SoundAlways, PTL

\* No block is handed out twice before damage has been done.
THEOREM NoDoubleAllocCorrect == Spec => []NoDoubleAlloc
  <1>1. SoundInv => NoDoubleAlloc
    BY DEF SoundInv, NoDoubleAlloc
  <1> QED
    BY <1>1, SoundAlways, PTL

\* The table and the index blocks together never name a block twice, nor one in use,
\* before damage has been done.
THEOREM ListedOnceCorrect == Spec => []ListedOnce
  <1>1. SoundInv => ListedOnce
    BY DEF SoundInv, ListedOnce
  <1> QED
    BY <1>1, SoundAlways, PTL

-----------------------------------------------------------------------------
(* The refinement.                                                          *)
(*                                                                          *)
(* SoundInv says that the list never names a block twice; that "no space"  *)
(* is the truth needs more, namely that no group is out of reach.  The      *)
(* index blocks form one path: each group's bottom entry names the next     *)
(* index block, the last group's is the 0 that ends the list, and the       *)
(* table's bottom entry names the first.                                    *)

\* f leads from the end of the list, f[0], to the first index block, f[n], through
\* every index block.
Path(n, f) ==
    /\ f[0] = NoBlock
    /\ \A i \in 1 .. n : f[i] \in chain /\ disk[f[i]].free[0] = f[i - 1]
    /\ \A b \in chain : \E i \in 1 .. n : f[i] = b
    /\ \A i, j \in 0 .. n : f[i] = f[j] => i = j

\* Where the first index block stands: at the bottom of the table, or in the hands
\* of the process that takes it out of there or puts it there.  A table that is empty
\* and stays so is the whole list.
TableEnd(n, f) ==
    /\ nfree >= 1 => sfree[0] = f[n]
    /\ nfree < 0 => n = 0
    /\ nfree = 0 => \/ n = 0
                    \/ \E p \in Procs :
                          pc[p] \in {"take", "taken", "free_unlock", "push", "count"}
    /\ \A p \in Procs :
          /\ pc[p] \in {"take", "taken"} /\ nfree = 0 => sfree[0] = f[n]
          /\ pc[p] \in {"free_unlock", "push", "count"} /\ nfree = 0 => blk[p] = f[n]

Linked ==
    \E n \in Nat : \E f \in [0 .. n -> Blocks \cup {NoBlock}] :
        Path(n, f) /\ TableEnd(n, f)

\* The 0 that ends the list is a bottom entry.
EndAtBottom ==
    /\ \A h \in Heads : \A i \in Entries : Listed(h, i) /\ Entry(h, i) = NoBlock => i = 0
    /\ \A p \in Procs : pc[p] = "taken" /\ blk[p] = NoBlock => nfree = 0

\* A process waits for an answer just while it is inside Alloc.
Answers == \A p \in Procs : ret[p] = "pending" <=> pc[p] \in AllocPcs

\* The invariant under which every step is one of the abstract allocator.
ListInv == SoundInv /\ Linked /\ EndAtBottom /\ Answers

NoFaults == Faults = {}

-----------------------------------------------------------------------------
(* The path through the index blocks.                                       *)

\* A step that leaves the index blocks alone keeps the path.
LEMMA SamePath ==
    ASSUME NEW n \in Nat, NEW f \in [0 .. n -> Blocks \cup {NoBlock}], Path(n, f), chain' = chain,
           \A b \in chain : disk'[b] = disk[b]
    PROVE  Path(n, f)'
  BY DEF Path

LEMMA PathEnd ==
    ASSUME NEW n \in Nat, NEW f \in [0 .. n -> Blocks \cup {NoBlock}], Path(n, f),
           f[n] # NoBlock
    PROVE  n - 1 \in Nat /\ f[n] \in chain /\ disk[f[n]].free[0] = f[n - 1]
  <1>1. n # 0
    BY DEF Path
  <1>2. n \in 1 .. n
    BY <1>1
  <1> QED
    BY <1>2 DEF Path

\* The first index block is taken off the path.
LEMMA PathShorter ==
    ASSUME NEW n \in Nat, NEW f \in [0 .. n -> Blocks \cup {NoBlock}], Path(n, f),
           f[n] # NoBlock, chain' = chain \ {f[n]}, disk' = disk
    PROVE  \E g \in [0 .. n - 1 -> Blocks \cup {NoBlock}] :
              Path(n - 1, g)' /\ g[n - 1] = f[n - 1]
  <1>1. n - 1 \in Nat
    BY PathEnd
  <1> DEFINE g == [i \in 0 .. n - 1 |-> f[i]]
  <1>2. g \in [0 .. n - 1 -> Blocks \cup {NoBlock}]
    BY <1>1
  <1>3. \A i \in 0 .. n - 1 : g[i] = f[i] /\ f[i] # f[n]
    BY <1>1 DEF Path
  <1> HIDE DEF g
  <1>4. \A i \in 1 .. n - 1 : g[i] \in chain' /\ disk'[g[i]].free[0] = g[i - 1]
    BY <1>1, <1>3 DEF Path
  <1>5. \A b \in chain' : \E i \in 1 .. n - 1 : g[i] = b
    BY <1>1, <1>3 DEF Path
  <1>6. \A i, j \in 0 .. n - 1 : g[i] = g[j] => i = j
    BY <1>1, <1>3 DEF Path
  <1>7. Path(n - 1, g)'
    BY <1>1, <1>3, <1>4, <1>5, <1>6 DEF Path
  <1> QED
    BY <1>1, <1>2, <1>3, <1>7

\* A block that holds the table becomes the first index block.
LEMMA PathLonger ==
    ASSUME NEW n \in Nat, NEW f \in [0 .. n -> Blocks \cup {NoBlock}], Path(n, f),
           NEW b \in Blocks, b \notin chain, chain' = chain \cup {b}, disk'[b].free[0] = f[n],
           \A i \in 1 .. n : disk'[f[i]].free[0] = disk[f[i]].free[0]
    PROVE  \E g \in [0 .. n + 1 -> Blocks \cup {NoBlock}] :
              Path(n + 1, g)' /\ g[n + 1] = b
  <1> DEFINE g == [i \in 0 .. n + 1 |-> IF i = n + 1 THEN b ELSE f[i]]
  <1>1. g \in [0 .. n + 1 -> Blocks \cup {NoBlock}]
    OBVIOUS
  <1>2. g[n + 1] = b /\ \A i \in 0 .. n : g[i] = f[i]
    OBVIOUS
  <1>3. \A i \in 0 .. n : f[i] # b
    BY DEF Path, Blocks, NoBlock
  <1> HIDE DEF g
  <1>4. ASSUME NEW i \in 1 .. n + 1
        PROVE  g[i] \in chain' /\ disk'[g[i]].free[0] = g[i - 1]
    <2>1. CASE i = n + 1
      <3>1. i - 1 = n /\ n \in 0 .. n
        BY <2>1
      <3> QED
        BY <2>1, <3>1, <1>2
    <2>2. CASE i # n + 1
      <3>1. i \in 1 .. n /\ i \in 0 .. n /\ i - 1 \in 0 .. n
        BY <2>2
      <3> QED
        BY <3>1, <1>2 DEF Path
    <2> QED
      BY <2>1, <2>2
  <1>5. ASSUME NEW c \in chain' PROVE \E i \in 1 .. n + 1 : g[i] = c
    <2>1. CASE c = b
      BY <2>1, <1>2
    <2>2. CASE c # b
      BY <2>2, <1>2 DEF Path
    <2> QED
      BY <2>1, <2>2
  <1>6. \A i, j \in 0 .. n + 1 : g[i] = g[j] => i = j
    <2>1. \A i \in 0 .. n + 1 : i = n + 1 \/ i \in 0 .. n
      OBVIOUS
    <2> QED
      BY <2>1, <1>2, <1>3 DEF Path
  <1>7. Path(n + 1, g)'
    <2>1. 0 \in 0 .. n
      OBVIOUS
    <2> QED
      BY <2>1, <1>2, <1>4, <1>5, <1>6 DEF Path
  <1> QED
    BY <1>1, <1>2, <1>7

LEMMA LinkedNext ==
    NoFaults /\ ListInv /\ [Next]_vars => Linked'
  <1> SUFFICES ASSUME NoFaults, ListInv, [Next]_vars PROVE Linked'
    OBVIOUS
  <1> PICK n \in Nat :
        \E f \in [0 .. n -> Blocks \cup {NoBlock}] : Path(n, f) /\ TableEnd(n, f)
    BY DEF ListInv, Linked
  <1> PICK f \in [0 .. n -> Blocks \cup {NoBlock}] : Path(n, f) /\ TableEnd(n, f)
    OBVIOUS
  <1> USE SizeAssumption, ProcAssumption
      DEF NoFaults, ListInv, SoundInv, TypeOK, LockHeld, LockedPcs, OneBusy, Busy, StoresDue, Freeing,
          TableHeight, Goto, Acquire, Release, Return, AllocPcs, FreePcs, Entries
  <1>a. ASSUME Path(n, f)', TableEnd(n, f)' PROVE Linked'
    BY <1>a DEF Linked
  <1>1. CASE UNCHANGED listVars
    BY <1>1, <1>a DEF listVars, Path, TableEnd
  <1>2. ASSUME NEW p \in Procs, Alloc(p) PROVE Linked'
    <2>1. CASE AllocCall(p)
      BY <2>1, <1>a, SamePath DEF AllocCall, TableEnd
    <2>2. CASE AllocLock(p)
      BY <2>2, <1>a, SamePath DEF AllocLock, TableEnd
    <2>3. CASE AllocPop(p)
      BY <2>3, <1>a, SamePath DEF AllocPop, TableEnd
    <2>4. CASE AllocTake(p)
      BY <2>4, <1>a, SamePath DEF AllocTake, TableEnd
    <2>5. CASE AllocEmpty(p)
      BY <2>5, <1>a, SamePath DEF AllocEmpty, TableEnd, EndAtBottom
    <2>6. CASE AllocKeep(p)
      BY <2>6, <1>a, SamePath DEF AllocKeep, TableEnd
    <2>7. CASE AllocLoad(p)
      <3>1. nfree = 0 /\ blk[p] = f[n] /\ f[n] # NoBlock
        <4>1. nfree >= 0
          BY <2>7 DEF AllocLoad, Blocks
        <4>2. nfree = 0 /\ blk[p] = sfree[0] /\ blk[p] \in Blocks
          BY <2>7, <4>1 DEF AllocLoad
        <4> QED
          BY <2>7, <4>2 DEF AllocLoad, TableEnd, Blocks, NoBlock
      <3>2. chain' = chain \ {f[n]} /\ disk' = disk
        BY <2>7, <3>1 DEF AllocLoad
      <3>3. n - 1 \in Nat /\ f[n] \in chain /\ disk[f[n]].free[0] = f[n - 1]
        BY <3>1, PathEnd
      <3>4. PICK g \in [0 .. n - 1 -> Blocks \cup {NoBlock}] :
               Path(n - 1, g)' /\ g[n - 1] = f[n - 1]
        BY <3>1, <3>2, PathShorter
      <3>5. nfree' = StackSize /\ sfree'[0] = f[n - 1]
        BY <2>7, <3>1, <3>3 DEF AllocLoad, Group
      <3>6. TableEnd(n - 1, g)'
        BY <3>4, <3>5 DEF TableEnd
      <3> QED
        BY <3>3, <3>4, <3>6 DEF Linked
    <2>8. CASE AllocLoadFails(p)
      BY <2>8 DEF AllocLoadFails
    <2>9. CASE AllocClear(p)
      <3>1. blk[p] \notin chain
        BY <2>9 DEF AllocClear, IndexAtBottom, InHand, Carrying
      <3>2. Path(n, f)'
        BY <2>9, <3>1, SamePath DEF AllocClear
      <3>3. TableEnd(n, f)'
        BY <2>9 DEF AllocClear, TableEnd
      <3> QED
        BY <3>2, <3>3, <1>a
    <2> QED
      BY <1>2, <2>1, <2>2, <2>3, <2>4, <2>5, <2>6, <2>7, <2>8, <2>9 DEF Alloc
  <1>3. ASSUME NEW p \in Procs, FreeBody(p) PROVE Linked'
    <2>1. CASE FreeLock(p)
      BY <2>1, <1>a, SamePath DEF FreeLock, TableEnd
    <2>2. CASE FreeFirst(p)
      <3>1. n = 0 /\ f[0] = NoBlock
        <4>1. pc[p] = "check" /\ nfree <= 0 /\ \A q \in Procs : pc[q] \notin Busy
          BY <2>2 DEF FreeFirst
        <4>2. n = 0
          BY SMTT(30), <4>1 DEF TableEnd
        <4> QED
          BY <4>2 DEF Path
      <3>2. Path(n, f)'
        BY <2>2, SamePath DEF FreeFirst
      <3>3. nfree' = 1 /\ sfree'[0] = NoBlock
        BY <2>2 DEF FreeFirst
      <3>4. TableEnd(n, f)'
        BY <3>1, <3>3 DEF TableEnd
      <3> QED
        BY <3>2, <3>4, <1>a
    <2>3. CASE FreeRoom(p)
      BY <2>3, <1>a, SamePath DEF FreeRoom, TableEnd
    <2>4. CASE FreeSpill(p)
      <3>1. PICK b \in Blocks : b = blk[p] /\ b \notin chain
        BY <2>4 DEF FreeSpill, IndexAtBottom, InHand
      <3>2. sfree[0] = f[n]
        BY <2>4 DEF FreeSpill, TableEnd
      <3>3. chain' = chain \cup {b} /\ \A c \in chain : disk'[c] = disk[c]
        BY <2>4, <3>1 DEF FreeSpill
      <3>4. disk'[b].free[0] = f[n]
        BY <2>4, <3>1, <3>2 DEF FreeSpill
      <3>5. nfree' = 0 /\ pc'[p] = "free_unlock" /\ blk' = blk
        BY <2>4 DEF FreeSpill
      <3>6. \A q \in Procs \ {p} : pc'[q] \notin Busy
        BY <2>4 DEF FreeSpill
      <3>7. PICK g \in [0 .. n + 1 -> Blocks \cup {NoBlock}] : Path(n + 1, g)' /\ g[n + 1] = b
        <4>1. \A i \in 1 .. n : disk'[f[i]].free[0] = disk[f[i]].free[0]
          BY <3>3 DEF Path
        <4> HIDE DEF TypeOK, TableHeight, LockHeld, SoundInv, ListInv, OneBusy
        <4> QED
          BY <3>1, <3>3, <3>4, <4>1, PathLonger
      <3>8. TableEnd(n + 1, g)'
        <4>1. \A q \in Procs : q = p \/ pc'[q] \notin Busy
          BY <3>6
        <4>2. (\A q \in Procs :
                 /\ pc[q] \in {"take", "taken"} /\ nfree = 0 => sfree[0] = g[n + 1]
                 /\ pc[q] \in {"free_unlock", "push", "count"} /\ nfree = 0 => blk[q] = g[n + 1])'
          BY <3>1, <3>5, <3>7, <4>1
        <4>3. (\E q \in Procs : pc[q] \in {"take", "taken", "free_unlock", "push", "count"})'
          BY <3>5
        <4> QED
          BY <3>5, <4>2, <4>3 DEF TableEnd
      <3> QED
        BY <3>7, <3>8 DEF Linked
    <2>5. CASE FreeSpillFails(p)
      BY <2>5 DEF FreeSpillFails
    <2>6. CASE FreeUnlock(p)
      BY <2>6, <1>a, SamePath DEF FreeUnlock, TableEnd
    <2>7. CASE PushSlot(p)
      BY <2>7, <1>a, SamePath DEF PushSlot, TableEnd
    <2>8. CASE PushCount(p)
      BY <2>8, <1>a, SamePath DEF PushCount, TableEnd
    <2> QED
      BY <1>3, <2>1, <2>2, <2>3, <2>4, <2>5, <2>6, <2>7, <2>8 DEF FreeBody
  <1>4. ASSUME NEW p \in Procs, NEW c \in Blocks, FreeCall(p, c) PROVE Linked'
    BY <1>4, <1>a, SamePath DEF FreeCall, TableEnd
  <1> QED
    BY <1>1, <1>2, <1>3, <1>4, NextIs

-----------------------------------------------------------------------------
(* The end of the list, and the answers.                                    *)

LEMMA EndFrame ==
    ASSUME EndAtBottom,
           \A h \in Heads' : \A i \in Entries : Listed(h, i)' =>
              \/ Entry(h, i)' # NoBlock
              \/ i = 0
              \/ h \in Heads /\ Listed(h, i) /\ Entry(h, i)' = Entry(h, i),
           \A q \in Procs : pc'[q] = "taken" /\ blk'[q] = NoBlock =>
              \/ nfree' = 0
              \/ pc[q] = "taken" /\ blk[q] = NoBlock /\ nfree' = nfree
    PROVE  EndAtBottom'
  BY DEF EndAtBottom

LEMMA EndNext ==
    NoFaults /\ ListInv /\ [Next]_vars => EndAtBottom'
  <1> SUFFICES ASSUME NoFaults, ListInv, [Next]_vars PROVE EndAtBottom'
    OBVIOUS
  <1>e. EndAtBottom
    BY DEF ListInv
  <1> USE SizeAssumption, ProcAssumption
      DEF NoFaults, ListInv, SoundInv, TypeOK, LockHeld, LockedPcs, OneBusy, Busy, StoresDue, Freeing,
          TableHeight, Goto, Acquire, Release, Return, AllocPcs, FreePcs, Entries
  <1>1. CASE UNCHANGED listVars
    BY <1>e, <1>1, SameList, EndFrame DEF listVars
  <1>2. ASSUME NEW p \in Procs, Alloc(p) PROVE EndAtBottom'
    <2>1. CASE AllocCall(p)
      BY <1>e, <2>1, SameList, EndFrame DEF AllocCall
    <2>2. CASE AllocLock(p)
      BY <1>e, <2>2, SameList, EndFrame DEF AllocLock
    <2>3. CASE AllocPop(p)
      <3>1. \A i \in Entries : Live(i)' <=> Live(i)
        BY <2>3, NobodyTaking DEF AllocPop, Live
      <3>2. UNCHANGED <<sfree, disk, chain>> /\ \A q \in Procs : pc'[q] # "taken"
        BY <2>3 DEF AllocPop
      <3> QED
        BY <1>e, <3>1, <3>2, EndFrame DEF Listed, Entry, Heads
    <2>4. CASE AllocTake(p)
      <3>1. \A h \in Heads : \A i \in Entries : Listed(h, i)' => Listed(h, i)
        BY <2>4 DEF AllocTake, Listed, Live
      <3>2. Heads' = Heads /\ \A h, i : Entry(h, i)' = Entry(h, i)
        BY <2>4 DEF AllocTake, Heads, Entry
      <3>3. nfree \in Entries => Listed(NoBlock, nfree) /\ NoBlock \in Heads
        BY <2>4 DEF AllocTake, Listed, Live, Heads
      <3>4. blk'[p] = NoBlock => nfree \in Entries /\ Entry(NoBlock, nfree) = NoBlock
        BY <2>4 DEF AllocTake, Entry, NoBlock
      <3>5. blk'[p] = NoBlock => nfree = 0
        BY <1>e, <3>3, <3>4 DEF EndAtBottom
      <3>6. nfree' = nfree /\ \A q \in Procs \ {p} : pc'[q] = pc[q] /\ blk'[q] = blk[q]
        BY <2>4 DEF AllocTake
      <3> QED
        BY <1>e, <3>1, <3>2, <3>5, <3>6, EndFrame
    <2>5. CASE AllocEmpty(p)
      <3>1. \A i \in Entries : Live(i)' => i = 0
        BY <2>5 DEF AllocEmpty, Live
      <3>2. UNCHANGED <<sfree, disk, chain>> /\ \A q \in Procs : pc'[q] # "taken"
        BY <2>5 DEF AllocEmpty
      <3> QED
        BY <1>e, <3>1, <3>2, EndFrame DEF Listed, Entry, Heads
    <2>6. CASE AllocKeep(p)
      BY <1>e, <2>6, SameList, EndFrame DEF AllocKeep
    <2>7. CASE AllocLoad(p)
      <3>1. PICK b \in Blocks : b = blk[p]
        BY <2>7 DEF AllocLoad
      <3>2. b \in chain /\ disk[b] \in Group
        BY <2>7, <3>1 DEF AllocLoad, GroupsInChain, OneOwner, InHand, Carrying
      <3>3. b # NoBlock
        BY DEF Blocks, NoBlock
      <3>4. \A i \in Entries : Live(i)' => i \in Entries
        BY <2>7, <3>1, <3>2 DEF AllocLoad, Live, Group
      <3>5. \A i \in Entries : sfree'[i] = Entry(b, i) /\ Listed(b, i)
        BY <2>7, <3>1, <3>2, <3>3 DEF AllocLoad, Entry, Listed
      <3>6. \A i \in Entries : sfree'[i] = NoBlock => i = 0
        BY <1>e, <3>2, <3>5 DEF EndAtBottom, Heads
      <3>7. chain' \subseteq chain /\ disk' = disk /\ \A q \in Procs : pc'[q] # "taken"
        BY <2>7 DEF AllocLoad
      <3> QED
        BY <1>e, <3>4, <3>6, <3>7, EndFrame DEF Listed, Entry, Heads
    <2>8. CASE AllocLoadFails(p)
      BY <1>e, <2>8, SameList, EndFrame DEF AllocLoadFails
    <2>9. CASE AllocClear(p)
      <3>1. blk[p] \notin chain
        BY <2>9 DEF AllocClear, IndexAtBottom, InHand, Carrying
      <3>2. /\ UNCHANGED <<nfree, sfree, chain>>
            /\ \A b \in chain : disk'[b] = disk[b]
        BY <2>9, <3>1 DEF AllocClear
      <3>3. \A q \in Procs : /\ pc'[q] = "take" <=> pc[q] = "take"
                             /\ pc'[q] = "taken" => pc[q] = "taken" /\ blk'[q] = blk[q]
        BY <2>9 DEF AllocClear
      <3>4. \A h \in Heads : \A i \in Entries : Listed(h, i)' =>
               Listed(h, i) /\ Entry(h, i)' = Entry(h, i)
        BY <3>2, <3>3 DEF Heads, Listed, Entry, Live
      <3> QED
        BY <1>e, <3>2, <3>3, <3>4, EndFrame DEF Heads
    <2> QED
      BY <1>2, <2>1, <2>2, <2>3, <2>4, <2>5, <2>6, <2>7, <2>8, <2>9 DEF Alloc
  <1>3. ASSUME NEW p \in Procs, FreeBody(p) PROVE EndAtBottom'
    <2>1. CASE FreeLock(p)
      BY <1>e, <2>1, SameList, EndFrame DEF FreeLock
    <2>2. CASE FreeFirst(p)
      <3>1. \A i \in Entries : Live(i)' => i = 0
        BY <2>2 DEF FreeFirst, Live
      <3>2. UNCHANGED <<disk, chain>> /\ \A q \in Procs : pc'[q] # "taken"
        BY <2>2 DEF FreeFirst
      <3> QED
        BY <1>e, <3>1, <3>2, EndFrame DEF Listed, Entry, Heads
    <2>3. CASE FreeRoom(p)
      BY <1>e, <2>3, SameList, EndFrame DEF FreeRoom
    <2>4. CASE FreeSpill(p)
      <3>1. PICK b \in Blocks : b = blk[p]
        BY <2>4 DEF FreeSpill
      <3> DEFINE g == [i \in Entries |-> sfree[i]]
      <3>2. \A i \in Entries : g[i] = sfree[i]
        OBVIOUS
      <3>3. disk'[b].free = g /\ \A c \in chain \ {b} : disk'[c] = disk[c]
        BY <2>4, <3>1 DEF FreeSpill
      <3> HIDE DEF g
      <3>4. \A i \in Entries : i \in Entries /\ Listed(NoBlock, i)
        BY <2>4 DEF FreeSpill, Listed, Live
      <3>5. NoBlock \in Heads
        BY DEF Heads
      <3>6. ASSUME NEW i \in Entries, g[i] = NoBlock PROVE i = 0
        <4>1. Entry(NoBlock, i) = NoBlock
          BY <3>2, <3>6 DEF Entry
        <4>2. i \in Entries /\ Listed(NoBlock, i)
          BY <3>4
        <4> QED
          BY <1>e, <3>5, <4>1, <4>2 DEF EndAtBottom
      <3>7. \A i \in Entries : ~Live(i)'
        BY <2>4 DEF FreeSpill, Live
      <3>8. chain' = chain \cup {b} /\ \A q \in Procs : pc'[q] # "taken"
        BY <2>4, <3>1 DEF FreeSpill
      <3> QED
        BY <1>e, <3>3, <3>6, <3>7, <3>8, EndFrame DEF Listed, Entry, Heads
    <2>5. CASE FreeSpillFails(p)
      BY <2>5 DEF FreeSpillFails
    <2>6. CASE FreeUnlock(p)
      BY <1>e, <2>6, SameList, EndFrame DEF FreeUnlock
    <2>7. CASE PushSlot(p)
      <3>1. \A i \in Entries : Live(i)' => Live(i) /\ sfree'[i] = sfree[i]
        BY <2>7 DEF PushSlot, Live
      <3>2. UNCHANGED <<disk, chain>> /\ \A q \in Procs : pc'[q] # "taken"
        BY <2>7 DEF PushSlot
      <3> QED
        BY <1>e, <3>1, <3>2, EndFrame DEF Listed, Entry, Heads
    <2>8. CASE PushCount(p)
      <3>1. nfree' = nfree + 1 /\ sfree[nfree] = blk[p] /\ blk[p] # NoBlock
        BY <2>8 DEF PushCount, Blocks, NoBlock
      <3>2. \A i \in Entries : Live(i)' => Live(i) \/ i = nfree
        BY <2>8, <3>1 DEF PushCount, Live
      <3>3. UNCHANGED <<sfree, disk, chain>> /\ \A q \in Procs : pc'[q] # "taken"
        BY <2>8 DEF PushCount
      <3> QED
        BY <1>e, <3>1, <3>2, <3>3, EndFrame DEF Listed, Entry, Heads
    <2> QED
      BY <1>3, <2>1, <2>2, <2>3, <2>4, <2>5, <2>6, <2>7, <2>8 DEF FreeBody
  <1>4. ASSUME NEW p \in Procs, NEW c \in Blocks, FreeCall(p, c) PROVE EndAtBottom'
    BY <1>e, <1>4, SameList, EndFrame DEF FreeCall
  <1> QED
    BY <1>1, <1>2, <1>3, <1>4, NextIs

LEMMA AnswersNext ==
    TypeOK /\ Answers /\ [Next]_vars => Answers'
  <1> SUFFICES ASSUME TypeOK, Answers, [Next]_vars PROVE Answers'
    OBVIOUS
  <1> USE DEF TypeOK, Answers, Goto, Return, AllocPcs, FreePcs
  <1>1. CASE UNCHANGED listVars
    BY <1>1 DEF listVars
  <1>2. ASSUME NEW p \in Procs, Alloc(p) PROVE Answers'
    BY <1>2 DEF Alloc, AllocCall, AllocLock, AllocPop, AllocTake, AllocEmpty, AllocKeep,
                AllocLoad, AllocLoadFails, AllocClear
  <1>3. ASSUME NEW p \in Procs, FreeBody(p) PROVE Answers'
    BY <1>3 DEF FreeBody, FreeLock, FreeFirst, FreeRoom, FreeSpill, FreeSpillFails,
                FreeUnlock, PushSlot, PushCount
  <1>4. ASSUME NEW p \in Procs, NEW c \in Blocks, FreeCall(p, c) PROVE Answers'
    BY <1>4 DEF FreeCall
  <1> QED
    BY <1>1, <1>2, <1>3, <1>4, NextIs

-----------------------------------------------------------------------------
(* The list that mkfs writes.                                               *)

\* Where the index block of group k lies, the one at the top of the volume first.
Head(k) == NBlocks + 1 - StackSize * k

\* The number of index blocks.
Groups == NBlocks \div StackSize

LEMMA HeadRange ==
    /\ Groups \in Nat
    /\ Head(0) = NBlocks + 1
    /\ Head(Groups) = InitCount
    /\ \A k \in Int : Head(k) \in Int /\ Head(k - 1) = Head(k) + StackSize
    /\ \A k \in 1 .. Groups : Head(k) \in InitCount .. NBlocks + 1 - StackSize
    /\ \A k \in 1 .. Groups : Head(k) \in IndexBlocks
  <1> USE SizeAssumption
  <1>1. Groups \in Nat /\ NBlocks = StackSize * Groups + (NBlocks % StackSize)
    BY DivMod DEF Groups
  <1>2. Head(0) = NBlocks + 1
    BY DEF Head
  <1>3. Head(Groups) = InitCount
    BY <1>1 DEF Head, InitCount
  <1>4. \A k \in Int : Head(k) \in Int /\ Head(k - 1) = Head(k) + StackSize
    BY DEF Head
  <1>5. ASSUME NEW k \in 1 .. Groups
        PROVE  Head(k) \in InitCount .. NBlocks + 1 - StackSize
    <2>1. StackSize * k >= StackSize /\ StackSize * k \in Int
      BY <1>1
    <2>2. k = Groups \/ StackSize * Groups >= StackSize * k + StackSize
      BY <1>1, NextMultiple
    <2>3. Head(k) <= NBlocks + 1 - StackSize
      BY <2>1 DEF Head
    <2>4. Head(k) >= InitCount
      BY <1>1, <1>3, <2>1, <2>2 DEF Head
    <2> QED
      BY <2>1, <2>3, <2>4, InitCountRange DEF Head
  <1>6. ASSUME NEW k \in 1 .. Groups PROVE Head(k) \in IndexBlocks
    <2>1. NBlocks + 1 - Head(k) = StackSize * k
      BY <1>1 DEF Head
    <2>2. (NBlocks + 1 - Head(k)) % StackSize = 0
      BY <2>1, <1>1, MultipleMod
    <2> QED
      BY <1>5, <2>2, InitCountRange DEF IndexBlocks, Blocks
  <1> QED
    BY <1>1, <1>2, <1>3, <1>4, <1>5, <1>6

\* Every index block has its place in the order.
LEMMA HeadOfIndex ==
    ASSUME NEW b \in IndexBlocks
    PROVE  \E k \in 1 .. Groups : Head(k) = b
  <1> USE SizeAssumption
  <1> DEFINE a == NBlocks + 1 - b
  <1> DEFINE k == a \div StackSize
  <1>1. b \in 1 .. NBlocks /\ a \in 1 .. NBlocks /\ a % StackSize = 0
    BY DEF IndexBlocks, Blocks
  <1>2. k \in Int /\ a = StackSize * k
    BY <1>1, DivMod
  <1>3. /\ Groups \in Nat
        /\ NBlocks + 1 - StackSize * Groups \in 1 .. StackSize
    BY HeadRange, InitCountRange DEF Head
  <1>4. Head(k) = b
    BY <1>1, <1>2 DEF Head
  <1> HIDE DEF k, a
  <1>5. k >= 1
    <2>1. ASSUME k <= 0 PROVE FALSE
      BY <1>1, <1>2, <2>1
    <2> QED
      BY <1>2, <2>1
  <1>6. k <= Groups
    <2>1. ASSUME k >= Groups + 1 PROVE FALSE
      <3>1. StackSize * k >= StackSize * Groups + StackSize
        BY <1>2, <1>3, <2>1, NextMultiple
      <3> QED
        BY <1>1, <1>2, <1>3, <3>1
    <2> QED
      BY <1>2, <1>3, <2>1
  <1> QED
    BY <1>2, <1>3, <1>4, <1>5, <1>6

LEMMA InitList ==
    ASSUME Init
    PROVE  /\ chain = IndexBlocks
           /\ \A b \in IndexBlocks : \A i \in Entries :
                 disk[b].free[i] = ListEntry(b + StackSize - i)
           /\ \A i \in Entries : i < InitCount => sfree[i] = ListEntry(InitCount - i)
           /\ \A i \in Entries : Live(i) <=> i < InitCount
           /\ \A h \in IndexBlocks : \A i :
                 (Listed(h, i) <=> i \in Entries) /\ Entry(h, i) = disk[h].free[i]
  <1>1. chain = IndexBlocks
    BY DEF Init
  <1>2. ASSUME NEW b \in IndexBlocks, NEW i \in Entries
        PROVE  disk[b].free[i] = ListEntry(b + StackSize - i)
    <2> DEFINE f == [j \in Entries |-> ListEntry(b + StackSize - j)]
    <2>1. disk[b].free = f
      BY DEF Init, InitContent, IndexBlocks
    <2>2. f[i] = ListEntry(b + StackSize - i)
      OBVIOUS
    <2> HIDE DEF f
    <2> QED
      BY <2>1, <2>2
  <1>3. \A i \in Entries : i < InitCount => sfree[i] = ListEntry(InitCount - i)
    BY DEF Init
  <1>4. \A i \in Entries : Live(i) <=> i < InitCount
    BY DEF Init, Live
  <1>5. \A h \in IndexBlocks : \A i :
           (Listed(h, i) <=> i \in Entries) /\ Entry(h, i) = disk[h].free[i]
    BY <1>1 DEF Listed, Entry, IndexBlocks, Blocks, NoBlock
  <1> QED
    BY <1>1, <1>2, <1>3, <1>4, <1>5

LEMMA LinkedInit == Init => Linked
  <1> SUFFICES ASSUME Init PROVE Linked
    OBVIOUS
  <1> USE SizeAssumption, InitCountRange, HeadRange
  <1> DEFINE n == Groups
             f == [i \in 0 .. n |-> ListEntry(Head(i))]
  <1>1. f \in [0 .. n -> Blocks \cup {NoBlock}]
    BY DEF ListEntry
  <1>2. f[0] = NoBlock /\ \A i \in 1 .. n : f[i] = Head(i)
    <2>1. \A i \in 0 .. n : f[i] = ListEntry(Head(i))
      OBVIOUS
    <2> HIDE DEF f
    <2>2. f[0] = NoBlock
      BY <2>1 DEF ListEntry, Blocks
    <2>3. \A i \in 1 .. n : Head(i) \in Blocks
      BY DEF Blocks
    <2> QED
      BY <2>1, <2>2, <2>3 DEF ListEntry
  <1>3. \A i \in 1 .. n : f[i - 1] = ListEntry(Head(i - 1))
    OBVIOUS
  <1> HIDE DEF f
  <1>4. ASSUME NEW i \in 1 .. n PROVE f[i] \in chain /\ disk[f[i]].free[0] = f[i - 1]
    <2>1. f[i] \in IndexBlocks /\ 0 \in Entries /\ f[i] + StackSize - 0 = Head(i - 1)
      BY <1>2 DEF Entries
    <2> QED
      BY <1>3, <2>1, InitList
  <1>5. \A b \in chain : \E i \in 1 .. n : f[i] = b
    BY <1>2, InitList, HeadOfIndex
  <1>6. \A i, j \in 0 .. n : f[i] = f[j] => i = j
    <2>1. ASSUME NEW i \in 1 .. n, NEW j \in 1 .. n, i > j PROVE Head(i) # Head(j)
      <3>1. StackSize * i >= StackSize * j + StackSize
        BY <2>1, NextMultiple
      <3>2. StackSize * i \in Int /\ StackSize * j \in Int
        OBVIOUS
      <3> QED
        BY <3>1, <3>2 DEF Head
    <2>2. \A i, j \in 1 .. n : f[i] = f[j] => i = j
      BY <1>2, <2>1
    <2>3. \A i \in 1 .. n : f[i] # f[0]
      BY <1>2 DEF NoBlock
    <2> QED
      BY <2>2, <2>3
  <1>7. Path(n, f)
    BY <1>2, <1>4, <1>5, <1>6 DEF Path
  <1>8. sfree[0] = f[n]
    <2>1. sfree[0] = ListEntry(InitCount)
      BY InitList DEF Entries
    <2>2. CASE n = 0
      BY <1>2, <2>1, <2>2 DEF ListEntry, Blocks
    <2>3. CASE n # 0
      <3>1. n \in 1 .. n /\ InitCount \in Blocks
        BY <2>3 DEF Blocks
      <3> QED
        BY <1>2, <2>1, <3>1 DEF ListEntry
    <2> QED
      BY <2>2, <2>3
  <1>9. TableEnd(n, f)
    BY <1>8 DEF TableEnd, Init
  <1> QED
    BY <1>1, <1>7, <1>9 DEF Linked

LEMMA EndInit == Init => EndAtBottom
  <1> SUFFICES ASSUME Init PROVE EndAtBottom
    OBVIOUS
  <1> USE SizeAssumption, InitCountRange, HeadRange
  <1>1. \A p \in Procs : pc[p] # "taken"
    BY DEF Init
  <1> SUFFICES ASSUME NEW h \in Heads, NEW i \in Entries, Listed(h, i), Entry(h, i) = NoBlock,
                      i # 0
               PROVE  FALSE
    BY <1>1 DEF EndAtBottom
  <1>2. CASE h = NoBlock
    <2>1. i < InitCount /\ sfree[i] = ListEntry(InitCount - i)
      BY <1>2, InitList DEF Listed
    <2>2. InitCount <= NBlocks + 1
      <3>1. Groups = 0 \/ 1 \in 1 .. Groups
        OBVIOUS
      <3> QED
        BY <3>1
    <2>3. InitCount - i \in Blocks
      BY <2>1, <2>2 DEF Blocks, Entries
    <2> QED
      BY <1>2, <2>1, <2>3 DEF ListEntry, Entry, Blocks, NoBlock
  <1>3. CASE h # NoBlock
    <2>1. h \in IndexBlocks /\ i \in Entries
      BY <1>3, InitList DEF Heads
    <2>2. Entry(h, i) = ListEntry(h + StackSize - i)
      BY <2>1, InitList
    <2>3. PICK k \in 1 .. Groups : Head(k) = h
      BY <2>1, HeadOfIndex
    <2>4. h + StackSize - i \in Blocks
      BY <2>1, <2>3 DEF Entries, Blocks, IndexBlocks
    <2> QED
      BY <2>2, <2>4 DEF ListEntry, Blocks, NoBlock
  <1> QED
    BY <1>2, <1>3

LEMMA ListInit == Init => ListInv
  <1> SUFFICES ASSUME Init PROVE ListInv
    OBVIOUS
  <1>1. Answers
    BY DEF Init, Answers, AllocPcs
  <1> QED
    BY <1>1, SerialInit, LinkedInit, EndInit DEF ListInv

LEMMA ListNext == NoFaults /\ ListInv /\ [Next]_vars => ListInv'
  <1> SUFFICES ASSUME NoFaults, ListInv, [Next]_vars PROVE ListInv'
    OBVIOUS
  <1>1. TypeOK /\ SoundInv /\ Answers
    BY DEF ListInv, SoundInv, NoFaults
  <1>2. SoundInv'
    BY <1>1, SerialNext
  <1>3. Answers'
    BY <1>1, AnswersNext
  <1> QED
    BY <1>2, <1>3, LinkedNext, EndNext DEF ListInv

\* The index blocks form one path from the table to the 0 that ends the list, in every
\* reachable state: no group of free blocks is ever out of reach.
THEOREM ListCorrect == NoFaults => (Spec => []ListInv)
  <1>1. SUFFICES ASSUME NoFaults PROVE Spec => []ListInv
    OBVIOUS
  <1>2. ListInv /\ [Next]_vars => ListInv'
    BY <1>1, ListNext
  <1> QED
    BY <1>2, ListInit, PTL DEF Spec

-----------------------------------------------------------------------------
(* The step refinement.                                                     *)

\* The answers that the abstract allocator has given.
Given == [p \in Procs |-> IF Carrying(p) THEN "block" ELSE ret[p]]

\* A step inside the code that the abstract allocator does not see.
Unseen == FreeBlocks' = FreeBlocks /\ HeldBlocks' = HeldBlocks /\ Given' = Given

\* A step moves blocks within the list.
LEMMA SameFree ==
    ASSUME \A h \in Heads : \A i \in Entries : Listed(h, i) /\ Entry(h, i) \in Blocks =>
              \E k \in Heads' : \E j \in Entries : Listed(k, j)' /\ Entry(k, j)' = Entry(h, i),
           \A h \in Heads' : \A i \in Entries : Listed(h, i)' /\ Entry(h, i)' \in Blocks =>
              \E k \in Heads : \E j \in Entries : Listed(k, j) /\ Entry(k, j) = Entry(h, i)'
    PROVE  FreeBlocks' = FreeBlocks
  BY DEF FreeBlocks

\* The same, for a step that leaves the list as it is.
LEMMA SameListFree ==
    ASSUME UNCHANGED <<nfree, sfree, disk, chain>>,
           \A q \in Procs : pc'[q] = "take" <=> pc[q] = "take"
    PROVE  FreeBlocks' = FreeBlocks
  BY SameList DEF FreeBlocks

\* A step that hands out no block and takes none back.
LEMMA SameHeld ==
    ASSUME used' = used,
           \A q \in Procs : (InHand(q)' <=> InHand(q)) /\ (InHand(q) => blk'[q] = blk[q])
    PROVE  HeldBlocks' = HeldBlocks
  BY DEF HeldBlocks, Owned

LEMMA SameGiven ==
    ASSUME ret' = ret, \A q \in Procs : Carrying(q)' <=> Carrying(q)
    PROVE  Given' = Given
  BY DEF Given

LEMMA GivenNone ==
    ASSUME TypeOK, NEW p \in Procs, ret[p] = "pending", ret' = [ret EXCEPT ![p] = "none"],
           ~Carrying(p), ~Carrying(p)', \A q \in Procs \ {p} : Carrying(q)' <=> Carrying(q)
    PROVE  Given[p] = "pending" /\ Given' = [Given EXCEPT ![p] = "none"]
  BY DEF TypeOK, Given

\* When the list has ended, no block is free.
LEMMA NothingFree ==
    ASSUME ListInv, NEW p \in Procs, pc[p] = "taken", blk[p] = NoBlock
    PROVE  FreeBlocks = {}
  <1> PICK n \in Nat :
        \E f \in [0 .. n -> Blocks \cup {NoBlock}] : Path(n, f) /\ TableEnd(n, f)
    BY DEF ListInv, Linked
  <1> PICK f \in [0 .. n -> Blocks \cup {NoBlock}] : Path(n, f) /\ TableEnd(n, f)
    OBVIOUS
  <1> USE DEF ListInv, SoundInv
  <1>1. nfree = 0 /\ n = 0
    <2>1. nfree = 0 /\ sfree[0] = NoBlock
      BY DEF EndAtBottom, TableHeight
    <2>2. sfree[0] = f[n]
      BY <2>1 DEF TableEnd
    <2>3. f[n] = f[0]
      BY <2>1, <2>2 DEF Path
    <2> QED
      BY <2>1, <2>3 DEF Path
  <1>2. Heads = {NoBlock}
    BY <1>1 DEF Path, Heads
  <1>3. \A i \in Entries : ~Live(i)
    BY SMTT(30), <1>1, NobodyTaking, SizeAssumption DEF LockedPcs, Entries, TypeOK
  <1> QED
    BY <1>2, <1>3 DEF FreeBlocks, Listed

LEMMA AllocStep ==
    ASSUME NoFaults, ListInv, NEW p \in Procs, Alloc(p)
    PROVE  Unseen \/ Abstract!Ask(p) \/ Abstract!Grant(p) \/ Abstract!Deny(p)
  <1> USE SizeAssumption, ProcAssumption
      DEF NoFaults, ListInv, SoundInv, TypeOK, LockHeld, LockedPcs, OneBusy, Busy, StoresDue, Freeing,
          InHand, TableHeight, Goto, Acquire, Release, Return, AllocPcs, FreePcs, Entries
  <1>1. CASE AllocCall(p)
    <2>1. FreeBlocks' = FreeBlocks
      BY <1>1, SameListFree DEF AllocCall
    <2>2. HeldBlocks' = HeldBlocks
      BY <1>1, SameHeld DEF AllocCall, Carrying
    <2>3. Given[p] # "pending" /\ Given' = [Given EXCEPT ![p] = "pending"]
      BY ZenonT(60), <1>1 DEF AllocCall, Answers, Given, Carrying
    <2> QED
      BY <2>1, <2>2, <2>3 DEF Given, Abstract!Ask, Abstract!Answer
  <1>2. CASE AllocLock(p)
    BY <1>2, SameListFree, SameHeld, SameGiven DEF AllocLock, Carrying, Unseen
  <1>3. CASE AllocPop(p)
    <2>1. \A i \in Entries : Live(i)' <=> Live(i)
      BY <1>3, NobodyTaking DEF AllocPop, Live
    <2>2. UNCHANGED <<sfree, disk, chain>>
      BY <1>3 DEF AllocPop
    <2>4. Heads' = Heads /\ \A h \in Heads : \A i \in Entries :
             (Listed(h, i)' <=> Listed(h, i)) /\ Entry(h, i)' = Entry(h, i)
      BY <2>1, <2>2 DEF Heads, Listed, Entry
    <2>5. FreeBlocks' = FreeBlocks
      BY <2>4 DEF FreeBlocks
    <2> QED
      BY <1>3, <2>5, SameHeld, SameGiven DEF AllocPop, Carrying, Unseen
  <1>4. CASE AllocTake(p)
    <2>1. Heads' = Heads /\ \A h, i : Entry(h, i)' = Entry(h, i)
      BY <1>4 DEF AllocTake, Heads, Entry
    <2>2. \A h \in Heads : \A i \in Entries :
             Listed(h, i)' <=> Listed(h, i) /\ ~(h = NoBlock /\ i = nfree)
      BY <1>4 DEF AllocTake, Listed, Live
    <2>4. CASE blk'[p] \in Blocks
      <3>1. PICK b \in Blocks : b = blk'[p]
        BY <2>4
      <3>2. nfree \in Entries /\ b = Entry(NoBlock, nfree)
        BY <1>4, <3>1 DEF AllocTake, Entry, Blocks
      <3>3. Listed(NoBlock, nfree) /\ NoBlock \in Heads /\ b # NoBlock
        BY <1>4, <3>2 DEF AllocTake, Listed, Live, Heads, Blocks, NoBlock
      <3>4. b \in FreeBlocks
        BY <3>2, <3>3 DEF FreeBlocks
      <3>5. FreeBlocks' = FreeBlocks \ {b}
        <4>1. \A c \in Blocks \ {b} : c \in FreeBlocks' <=> c \in FreeBlocks
          BY <2>1, <2>2, <3>2 DEF FreeBlocks
        <4>2. b \notin FreeBlocks'
          <5> SUFFICES ASSUME NEW h \in Heads, NEW i \in Entries, Listed(h, i),
                              ~(h = NoBlock /\ i = nfree), Entry(h, i) = b
                       PROVE  FALSE
            BY <2>1, <2>2 DEF FreeBlocks
          <5> QED
            BY <3>2, <3>3 DEF OnePlace
        <4> QED
          BY <4>1, <4>2 DEF FreeBlocks
      <3>6. HeldBlocks' = HeldBlocks \cup {b}
        BY <1>4, <3>1 DEF AllocTake, HeldBlocks, Owned, Carrying
      <3>7. Given[p] = "pending" /\ Given' = [Given EXCEPT ![p] = "block"]
        BY ZenonT(60), <1>4, <2>4 DEF AllocTake, Answers, Given, Carrying
      <3>8. Abstract!Grant(p)
        BY <3>4, <3>5, <3>6, <3>7 DEF Given, Abstract!Grant, Abstract!Answer
      <3> QED
        BY <3>8
    <2>5. CASE blk'[p] \notin Blocks
      <3>1. Entry(NoBlock, nfree) \notin Blocks
        BY <1>4, <2>5 DEF AllocTake, Entry
      <3>2. \A h \in Heads : \A i \in Entries : Entry(h, i) \in Blocks =>
               (Listed(h, i)' <=> Listed(h, i))
        BY <2>2, <3>1
      <3>3. FreeBlocks' = FreeBlocks
        <4> HIDE DEF Entries
        <4> QED
          BY <2>1, <3>2 DEF FreeBlocks
      <3> QED
        BY <1>4, <2>5, <3>3, SameHeld, SameGiven DEF AllocTake, Carrying, Unseen
    <2> QED
      BY <2>4, <2>5
  <1>5. CASE AllocEmpty(p)
    <2>1. FreeBlocks = {}
      BY <1>5, NothingFree DEF AllocEmpty
    <2>2. sfree[0] = NoBlock
      BY <1>5 DEF AllocEmpty, EndAtBottom
    <2>3. \A i \in Entries : Live(i)' => i = 0
      BY <1>5 DEF AllocEmpty, Live
    <2>4. UNCHANGED <<sfree, disk, chain>>
      BY <1>5 DEF AllocEmpty
    <2>5. FreeBlocks' = {}
      <3>1. ASSUME NEW h \in Heads, NEW i \in Entries, Listed(h, i)', Entry(h, i)' \in Blocks
            PROVE  FALSE
        <4>1. h # NoBlock
          BY <2>2, <2>3, <2>4, <3>1 DEF Listed, Entry, Blocks, NoBlock
        <4>2. Listed(h, i) /\ Entry(h, i) = Entry(h, i)'
          BY <2>4, <3>1, <4>1 DEF Listed, Entry
        <4> QED
          BY <2>1, <3>1, <4>2 DEF FreeBlocks
      <3>2. Heads' = Heads
        BY <2>4 DEF Heads
      <3> HIDE DEF Entries
      <3> QED
        BY <3>1, <3>2 DEF FreeBlocks
    <2>6. HeldBlocks' = HeldBlocks
      BY <1>5, SameHeld DEF AllocEmpty, Carrying, Blocks, NoBlock
    <2>7. Given[p] = "pending" /\ Given' = [Given EXCEPT ![p] = "none"]
      <3>1. ret[p] = "pending" /\ ret' = [ret EXCEPT ![p] = "none"]
        BY <1>5 DEF AllocEmpty, Answers
      <3>2. ~Carrying(p) /\ ~Carrying(p)' /\ \A q \in Procs \ {p} : Carrying(q)' <=> Carrying(q)
        BY <1>5 DEF AllocEmpty, Carrying, Blocks, NoBlock
      <3> QED
        BY <3>1, <3>2, GivenNone
    <2> QED
      BY <2>1, <2>5, <2>6, <2>7 DEF Given, Abstract!Deny, Abstract!Answer
  <1>6. CASE AllocKeep(p)
    BY <1>6, SameListFree, SameHeld, SameGiven DEF AllocKeep, Carrying, Unseen
  <1>7. CASE AllocLoad(p)
    <2>1. PICK b \in Blocks : b = blk[p] /\ b \in chain /\ disk[b] \in Group
      BY <1>7 DEF AllocLoad, GroupsInChain, OneOwner, InHand, Carrying
    <2>2. \A i \in Entries : ~Live(i)
      <3>1. nfree <= 0 /\ \A i : Live(i) <=> i < nfree
        BY <1>7, NobodyTaking DEF AllocLoad
      <3> QED
        BY <3>1
    <2>3. \A i \in Entries : Live(i)' <=> i \in Entries
      BY <1>7, <2>1 DEF AllocLoad, Live, Group
    <2>4. \A i \in Entries : sfree'[i] = disk[b].free[i]
      BY <1>7, <2>1 DEF AllocLoad
    <2>5. chain' = chain \ {b} /\ disk' = disk /\ b # NoBlock /\ Entries \subseteq Entries
      BY <1>7, <2>1 DEF AllocLoad, Blocks, NoBlock
    <2> HIDE DEF Entries
    <2>7. \A h \in Heads : \A i \in Entries : Listed(h, i) =>
             \E k \in Heads' : \E j \in Entries : Listed(k, j)' /\ Entry(k, j)' = Entry(h, i)
      BY <2>2, <2>3, <2>4, <2>5 DEF Heads, Listed, Entry
    <2>8. \A h \in Heads' : \A i \in Entries : Listed(h, i)' =>
             \E k \in Heads : \E j \in Entries : Listed(k, j) /\ Entry(k, j) = Entry(h, i)'
      BY <2>1, <2>2, <2>3, <2>4, <2>5 DEF Heads, Listed, Entry
    <2>9. FreeBlocks' = FreeBlocks
      BY <2>7, <2>8, SameFree
    <2> QED
      BY <1>7, <2>9, SameHeld, SameGiven DEF AllocLoad, Carrying, Unseen
  <1>8. CASE AllocLoadFails(p)
    BY <1>8 DEF AllocLoadFails
  <1>9. CASE AllocClear(p)
    <2>1. PICK b \in Blocks : b = blk[p] /\ b \notin chain
      BY <1>9 DEF AllocClear, IndexAtBottom, InHand, Carrying
    <2>2. UNCHANGED <<nfree, sfree, chain>> /\ \A c \in chain : disk'[c] = disk[c]
      BY <1>9, <2>1 DEF AllocClear
    <2>3. \A q \in Procs : pc'[q] = "take" <=> pc[q] = "take"
      BY <1>9 DEF AllocClear
    <2>4. Heads' = Heads /\ \A h \in Heads : \A i \in Entries :
             (Listed(h, i)' <=> Listed(h, i)) /\ Entry(h, i)' = Entry(h, i)
      BY <2>2, <2>3 DEF Heads, Listed, Entry, Live
    <2>5. FreeBlocks' = FreeBlocks
      BY <2>4 DEF FreeBlocks
    <2>6. HeldBlocks' = HeldBlocks
      BY <1>9, <2>1 DEF AllocClear, HeldBlocks, Owned, Carrying
    <2>7. Given' = Given
      BY <1>9, <2>1 DEF AllocClear, Given, Carrying
    <2> QED
      BY <2>5, <2>6, <2>7 DEF Unseen
  <1> QED
    BY <1>1, <1>2, <1>3, <1>4, <1>5, <1>6, <1>7, <1>8, <1>9 DEF Alloc

LEMMA FreeStep ==
    ASSUME NoFaults, ListInv, NEW p \in Procs, FreeBody(p)
    PROVE  Unseen \/ Abstract!Release
  <1> USE SizeAssumption, ProcAssumption
      DEF NoFaults, ListInv, SoundInv, TypeOK, LockHeld, LockedPcs, OneBusy, Busy, StoresDue, Freeing,
          TableHeight, Goto, Acquire, Release, Return, AllocPcs, FreePcs, Entries
  <1>0. /\ Given' = Given
        /\ ~PushCount(p) => HeldBlocks' = HeldBlocks
    <2>1. used' = used /\ ret' = ret
      BY DEF FreeBody, FreeLock, FreeFirst, FreeRoom, FreeSpill, FreeSpillFails,
                  FreeUnlock, PushSlot, PushCount
    <2>2. \A q \in Procs : Carrying(q)' <=> Carrying(q)
      BY DEF FreeBody, FreeLock, FreeFirst, FreeRoom, FreeSpill, FreeSpillFails,
                  FreeUnlock, PushSlot, PushCount, Carrying
    <2>3. ~PushCount(p) =>
             \A q \in Procs : (InHand(q)' <=> InHand(q)) /\ (InHand(q) => blk'[q] = blk[q])
      BY DEF FreeBody, FreeLock, FreeFirst, FreeRoom, FreeSpill, FreeSpillFails,
                  FreeUnlock, PushSlot, Carrying, InHand
    <2> QED
      BY <2>1, <2>2, <2>3, SameHeld, SameGiven
  <1>1. CASE FreeLock(p)
    BY <1>0, <1>1, SameListFree DEF FreeLock, PushCount, Unseen
  <1>2. CASE FreeFirst(p)
    <2>1. nfree <= 0 /\ \A q \in Procs : pc[q] # "take" /\ pc'[q] # "take"
      BY <1>2 DEF FreeFirst
    <2>2. \A i \in Entries : ~Live(i)
      BY <2>1 DEF Live
    <2>3. sfree'[0] = NoBlock /\ \A i \in Entries : Live(i)' => i = 0
      BY <1>2, <2>1 DEF FreeFirst, Live
    <2>4. UNCHANGED <<disk, chain>> /\ ~PushCount(p)
      BY <1>2 DEF FreeFirst, PushCount
    <2> HIDE DEF Entries
    <2>5. FreeBlocks' = FreeBlocks
      <3>0. NoBlock \notin Blocks
        BY DEF Blocks, NoBlock
      <3> HIDE DEF ListInv, SoundInv, TypeOK, TableHeight, LockHeld, OneBusy
      <3>1. \A h \in Heads : \A i \in Entries : Listed(h, i) =>
               h \in Heads' /\ Listed(h, i)' /\ Entry(h, i)' = Entry(h, i)
        BY <2>2, <2>4 DEF Heads, Listed, Entry
      <3>2. \A h \in Heads' : \A i \in Entries : Listed(h, i)' /\ Entry(h, i)' \in Blocks =>
               h \in Heads /\ Listed(h, i) /\ Entry(h, i) = Entry(h, i)'
        BY <3>0, <2>3, <2>4 DEF Heads, Listed, Entry
      <3> QED
        BY <3>1, <3>2, SameFree
    <2> QED
      BY <1>0, <2>4, <2>5 DEF Unseen
  <1>3. CASE FreeRoom(p)
    BY <1>0, <1>3, SameListFree DEF FreeRoom, PushCount, Unseen
  <1>4. CASE FreeSpill(p)
    <2>1. PICK b \in Blocks : b = blk[p] /\ b \notin chain /\ b # NoBlock
      BY <1>4 DEF FreeSpill, IndexAtBottom, InHand, Blocks, NoBlock
    <2> DEFINE g == [i \in Entries |-> sfree[i]]
    <2>2. \A i \in Entries : g[i] = sfree[i] /\ i \in Entries
      OBVIOUS
    <2>3. disk'[b].free = g /\ \A c \in chain : disk'[c] = disk[c]
      BY <1>4, <2>1 DEF FreeSpill
    <2> HIDE DEF g
    <2>4. \A i \in Entries : (Live(i) <=> i \in Entries) /\ ~Live(i)'
      BY <1>4 DEF FreeSpill, Live
    <2>5. chain' = chain \cup {b} /\ ~PushCount(p)
      BY <1>4, <2>1 DEF FreeSpill, PushCount
    <2> HIDE DEF Entries
    <2>6. \A h \in Heads : \A i \in Entries : Listed(h, i) =>
             \E k \in Heads' : \E j \in Entries : Listed(k, j)' /\ Entry(k, j)' = Entry(h, i)
      BY <2>1, <2>2, <2>3, <2>4, <2>5 DEF Heads, Listed, Entry
    <2>7. \A h \in Heads' : \A i \in Entries : Listed(h, i)' =>
             \E k \in Heads : \E j \in Entries : Listed(k, j) /\ Entry(k, j) = Entry(h, i)'
      BY <2>1, <2>2, <2>3, <2>4, <2>5 DEF Heads, Listed, Entry
    <2>8. FreeBlocks' = FreeBlocks
      BY <2>6, <2>7, SameFree
    <2> QED
      BY <1>0, <2>5, <2>8 DEF Unseen
  <1>5. CASE FreeSpillFails(p)
    BY <1>5 DEF FreeSpillFails
  <1>6. CASE FreeUnlock(p)
    BY <1>0, <1>6, SameListFree DEF FreeUnlock, PushCount, Unseen
  <1>7. CASE PushSlot(p)
    <2>1. \A i \in Entries : (Live(i)' <=> Live(i)) /\ (Live(i) => sfree'[i] = sfree[i])
      BY <1>7 DEF PushSlot, Live
    <2>2. UNCHANGED <<disk, chain>> /\ ~PushCount(p)
      BY <1>7 DEF PushSlot, PushCount
    <2> HIDE DEF Entries
    <2>3. Heads' = Heads /\ \A h \in Heads : \A i \in Entries :
             /\ Listed(h, i)' <=> Listed(h, i)
             /\ Listed(h, i) => Entry(h, i)' = Entry(h, i)
      BY <2>1, <2>2 DEF Heads, Listed, Entry
    <2>4. FreeBlocks' = FreeBlocks
      BY <2>3 DEF FreeBlocks
    <2> QED
      BY <1>0, <2>2, <2>4 DEF Unseen
  <1>8. CASE PushCount(p)
    <2>1. nfree' = nfree + 1 /\ sfree[nfree] = blk[p] /\ nfree \in Entries
      BY <1>8 DEF PushCount
    <2>2. \A i \in Entries : Live(i)' <=> Live(i) \/ i = nfree
      BY <1>8, <2>1 DEF PushCount, Live
    <2>3. UNCHANGED <<sfree, disk, chain>>
      BY <1>8 DEF PushCount
    <2>4. PICK b \in Blocks : b = blk[p]
      BY <1>8 DEF PushCount
    <2> HIDE DEF Entries
    <2>5. Heads' = Heads /\ NoBlock \in Heads
      BY <2>3 DEF Heads
    <2>6. \A h \in Heads : \A i \in Entries :
             /\ Listed(h, i)' <=> Listed(h, i) \/ (h = NoBlock /\ i = nfree)
             /\ Entry(h, i)' = Entry(h, i)
      BY <2>1, <2>2, <2>3 DEF Listed, Entry
    <2>7. Entry(NoBlock, nfree) = b
      BY <2>1, <2>4 DEF Entry
    <2>8. FreeBlocks' = FreeBlocks \cup {b}
      BY <2>1, <2>5, <2>6, <2>7 DEF FreeBlocks
    <2>9. HeldBlocks' = HeldBlocks \ {b} /\ b \in HeldBlocks
      BY <1>8, <2>4 DEF PushCount, HeldBlocks, Owned, InHand, Carrying, OneOwner
    <2> QED
      BY <1>0, <2>8, <2>9 DEF Given, Abstract!Release
  <1> QED
    BY <1>1, <1>2, <1>3, <1>4, <1>5, <1>6, <1>7, <1>8 DEF FreeBody

\* The block leaves its file for the hands of the process that frees it.
LEMMA FreeCallStep ==
    ASSUME ListInv, NEW p \in Procs, NEW b \in Blocks, FreeCall(p, b)
    PROVE  Unseen
  <1> USE DEF ListInv, SoundInv, TypeOK, Goto, AllocPcs, FreePcs
  <1>1. FreeBlocks' = FreeBlocks
    BY SameListFree DEF FreeCall
  <1>2. HeldBlocks' = HeldBlocks
    BY DEF FreeCall, HeldBlocks, Owned, InHand, Carrying, Freeing
  <1>3. Given' = Given
    BY SameGiven DEF FreeCall, Carrying
  <1> QED
    BY <1>1, <1>2, <1>3 DEF Unseen

LEMMA StepRefines ==
    NoFaults /\ ListInv /\ [Next]_vars => [Abstract!Next]_(Abstract!vars)
  <1> SUFFICES ASSUME NoFaults, ListInv, [Next]_vars PROVE [Abstract!Next]_(Abstract!vars)
    OBVIOUS
  <1>1. Unseen => UNCHANGED Abstract!vars
    BY DEF Unseen, Given, Abstract!vars
  <1>2. CASE UNCHANGED listVars
    <2>1. Unseen
      BY <1>2 DEF listVars, Unseen, Given, FreeBlocks, HeldBlocks, Heads, Listed, Live, Entry,
                  Owned, InHand, Freeing, Carrying
    <2> QED
      BY <1>1, <2>1
  <1>3. ASSUME NEW p \in Procs, Alloc(p) PROVE [Abstract!Next]_(Abstract!vars)
    BY <1>1, <1>3, AllocStep DEF Abstract!Next
  <1>4. ASSUME NEW p \in Procs, FreeBody(p) PROVE [Abstract!Next]_(Abstract!vars)
    BY <1>1, <1>4, FreeStep DEF Abstract!Next
  <1>5. ASSUME NEW p \in Procs, NEW b \in Blocks, FreeCall(p, b)
        PROVE  [Abstract!Next]_(Abstract!vars)
    BY <1>1, <1>5, FreeCallStep
  <1> QED
    BY <1>2, <1>3, <1>4, <1>5, NextIs

LEMMA Division ==
    ASSUME NEW a \in Nat
    PROVE  \E q \in Nat : \E i \in Entries : a = StackSize * q + i
  <1>1. StackSize \in Nat \ {0}
    BY SizeAssumption
  <1>2. PICK q \in Int : q = a \div StackSize
    BY <1>1
  <1>3. PICK i \in 0 .. StackSize - 1 : i = a % StackSize
    BY <1>1, DivMod
  <1>4. a = StackSize * q + i
    BY <1>1, <1>2, <1>3, DivMod
  <1>5. q >= 0
    BY <1>1, <1>2
  <1> QED
    BY <1>2, <1>4, <1>5 DEF Entries

\* A block above those in the table is listed in a group.
LEMMA GroupOf ==
    ASSUME NEW a \in Nat, NEW q \in Nat, NEW i \in Entries, a = StackSize * q + i,
           NBlocks + 1 - a > InitCount
    PROVE  q + 1 \in 1 .. Groups
  <1>1. StackSize \in Nat \ {0} /\ i \in Int /\ i >= 0 /\ NBlocks \in Nat
    BY SizeAssumption DEF Entries
  <1>2. Groups \in Nat /\ NBlocks + 1 - StackSize * Groups = InitCount
    BY HeadRange DEF Head
  <1>3. ASSUME q >= Groups PROVE FALSE
    <2>1. q = Groups \/ StackSize * q >= StackSize * Groups + StackSize
      BY <1>1, <1>2, <1>3, NextMultiple
    <2>2. StackSize * q >= StackSize * Groups
      BY <1>1, <1>2, <2>1
    <2> QED
      BY <1>1, <1>2, <2>2
  <1> QED
    BY <1>2, <1>3

\* mkfs lists every block of the volume.
LEMMA AllListed == Init => FreeBlocks = Blocks
  <1> SUFFICES ASSUME Init, NEW b \in Blocks PROVE b \in FreeBlocks
    BY DEF FreeBlocks
  <1> USE SizeAssumption, InitCountRange
  <1>1. CASE b <= InitCount
    <2>1. InitCount - b \in Entries /\ InitCount - b < InitCount
      BY <1>1 DEF Blocks, Entries
    <2>2. Listed(NoBlock, InitCount - b) /\ NoBlock \in Heads
      BY <2>1, InitList DEF Listed, Heads
    <2>3. Entry(NoBlock, InitCount - b) = b
      <3>1. sfree[InitCount - b] = ListEntry(InitCount - (InitCount - b))
        BY <2>1, InitList
      <3>2. InitCount - (InitCount - b) = b
        BY DEF Blocks
      <3> QED
        BY <3>1, <3>2 DEF Entry, ListEntry
    <2> QED
      BY <2>1, <2>2, <2>3 DEF FreeBlocks
  <1>2. CASE ~(b <= InitCount)
    <2>1. PICK a \in 1 .. NBlocks : b = NBlocks + 1 - a
      <3>1. NBlocks + 1 - b \in 1 .. NBlocks /\ b = NBlocks + 1 - (NBlocks + 1 - b)
        BY DEF Blocks
      <3> QED
        BY <3>1
    <2>2. a \in Nat
      OBVIOUS
    <2>3. PICK q \in Nat : \E j \in Entries : a = StackSize * q + j
      BY <2>2, Division
    <2>4. PICK i \in Entries : a = StackSize * q + i
      BY <2>3
    <2>5. NBlocks + 1 - a > InitCount
      BY <1>2, <2>1 DEF Blocks
    <2>6. q + 1 \in 1 .. Groups
      BY <2>2, <2>4, <2>5, GroupOf
    <2>7. Head(q) - i = b
      BY <2>1, <2>4 DEF Head, Entries
    <2>8. /\ Head(q + 1) + StackSize = Head(q) /\ Head(q + 1) \in Int
          /\ Head(q + 1) \in IndexBlocks
      BY <2>6, HeadRange
    <2>9. PICK h \in IndexBlocks : h = Head(q + 1) /\ h + StackSize - i = b
      BY <2>7, <2>8 DEF Entries
    <2>10. Entry(h, i) = b /\ Listed(h, i)
      BY <2>9, InitList DEF ListEntry
    <2>11. i \in Entries /\ h \in Heads
      BY InitList DEF Entries, Heads
    <2> QED
      BY <2>10, <2>11 DEF FreeBlocks
  <1> QED
    BY <1>1, <1>2

LEMMA InitRefines == Init => Abstract!Init
  <1> SUFFICES ASSUME Init PROVE Abstract!Init
    OBVIOUS
  <1>1. \A p \in Procs : ~Carrying(p) /\ ~InHand(p)
    BY DEF Init, Carrying, InHand, Freeing, FreePcs
  <1>2. HeldBlocks = {}
    BY <1>1 DEF Init, HeldBlocks, Owned
  <1> QED
    BY <1>1, <1>2, AllListed DEF Init, Abstract!Init

\* The table, the index blocks and the lock implement the set of free blocks: Alloc
\* hands out some free block, says "no space" only when there is none, and what Free
\* takes back can be handed out again.
THEOREM ImplementsCorrect == NoFaults => (Spec => Implements)
  <1>1. SUFFICES ASSUME NoFaults PROVE Spec => Implements
    OBVIOUS
  <1>2. ListInv /\ [Next]_vars => ListInv'
    BY <1>1, ListNext
  <1>3. ListInv /\ [Next]_vars => [Abstract!Next]_(Abstract!vars)
    BY <1>1, StepRefines
  <1> QED
    BY <1>2, <1>3, ListInit, InitRefines, PTL DEF Spec, Implements, Abstract!Spec

-----------------------------------------------------------------------------
(* What fsck finds.                                                         *)

\* While the table may have no entry, a process is between taking the last one and
\* loading a group, or between storing a group and entering its block.
Risen ==
    /\ nfree >= 0
    /\ (\A p \in Procs : pc[p] \notin {"take", "taken", "free_unlock", "push", "count"})
          => nfree >= 1

\* Every block is free or held.
Complete == FreeBlocks \cup HeldBlocks = Blocks

LEMMA RisenNext ==
    NoFaults /\ ListInv /\ Risen /\ [Next]_vars => Risen'
  <1> SUFFICES ASSUME NoFaults, ListInv, Risen, [Next]_vars PROVE Risen'
    OBVIOUS
  <1>1. /\ TypeOK /\ LockHeld /\ OneBusy /\ TableHeight
    BY DEF ListInv, SoundInv
  <1>2. NoProc \notin Procs /\ StackSize \in Nat \ {0, 1} /\ Faults = {}
    BY ProcAssumption, SizeAssumption DEF NoFaults
  <1> USE DEF TypeOK, LockHeld, OneBusy, Busy, StoresDue, TableHeight, Risen, Goto, Acquire, Release, Return,
              AllocPcs, FreePcs, LockedPcs, Freeing, Entries
  <1> HIDE DEF ListInv
  <1>3. CASE UNCHANGED listVars
    BY <1>3 DEF listVars
  <1>4. ASSUME NEW p \in Procs, Alloc(p) PROVE Risen'
    <2>1. CASE AllocCall(p)
      BY <1>1, <2>1 DEF AllocCall
    <2>2. CASE AllocLock(p)
      BY <1>1, <2>2 DEF AllocLock
    <2>3. CASE AllocPop(p)
      BY <1>1, <1>2, <2>3 DEF AllocPop
    <2>4. CASE AllocTake(p)
      BY <1>1, <2>4 DEF AllocTake
    <2>5. CASE AllocEmpty(p)
      BY <1>1, <2>5 DEF AllocEmpty
    <2>6. CASE AllocKeep(p)
      BY <1>1, <2>6 DEF AllocKeep
    <2>7. CASE AllocLoad(p)
      <3>1. disk[blk[p]] \in Group
        BY <1>1, <2>7 DEF AllocLoad
      <3>2. nfree' = StackSize
        BY <2>7, <3>1 DEF AllocLoad, Group
      <3> QED
        BY <1>2, <3>2
    <2>8. CASE AllocLoadFails(p)
      BY <1>2, <2>8 DEF AllocLoadFails
    <2>9. CASE AllocClear(p)
      BY <1>1, <2>9 DEF AllocClear
    <2> QED
      BY <1>4, <2>1, <2>2, <2>3, <2>4, <2>5, <2>6, <2>7, <2>8, <2>9 DEF Alloc
  <1>5. ASSUME NEW p \in Procs, FreeBody(p) PROVE Risen'
    <2>1. CASE FreeLock(p)
      BY <1>1, <2>1 DEF FreeLock
    <2>2. CASE FreeFirst(p)
      BY <1>1, <2>2 DEF FreeFirst
    <2>3. CASE FreeRoom(p)
      BY <1>1, <2>3 DEF FreeRoom
    <2>4. CASE FreeSpill(p)
      BY <1>1, <2>4 DEF FreeSpill
    <2>5. CASE FreeSpillFails(p)
      BY <1>2, <2>5 DEF FreeSpillFails
    <2>6. CASE FreeUnlock(p)
      BY <1>1, <2>6 DEF FreeUnlock
    <2>7. CASE PushSlot(p)
      BY <1>1, <2>7 DEF PushSlot
    <2>8. CASE PushCount(p)
      BY <1>1, <1>2, <2>8 DEF PushCount
    <2> QED
      BY <1>5, <2>1, <2>2, <2>3, <2>4, <2>5, <2>6, <2>7, <2>8 DEF FreeBody
  <1>6. ASSUME NEW p \in Procs, NEW b \in Blocks, FreeCall(p, b) PROVE Risen'
    BY <1>1, <1>6 DEF FreeCall
  <1> QED
    BY <1>3, <1>4, <1>5, <1>6, NextIs

LEMMA RisenInit == Init => Risen
  BY InitCountRange, SizeAssumption DEF Init, Risen

\* Without failures the count is never 0 where Alloc decrements it, and the block whose
\* group it loads is the first of the path: the only Damage is to meet the stores of an
\* unfinished Free.
THEOREM LoadsOnlyGroupsCorrect == NoFaults => (Spec => []LoadsOnlyGroups)
  <1>1. SUFFICES ASSUME NoFaults PROVE Spec => []LoadsOnlyGroups
    OBVIOUS
  <1>2. Init => ListInv /\ Risen
    BY ListInit, RisenInit
  <1>3. ListInv /\ Risen /\ [Next]_vars => (ListInv /\ Risen)'
    BY <1>1, ListNext, RisenNext
  <1>4. ListInv /\ Risen => LoadsOnlyGroups
    <2> SUFFICES ASSUME ListInv, Risen, NEW p \in Procs PROVE ~TakesWild(p) /\ ~LoadsData(p)
      BY DEF LoadsOnlyGroups
    <2>1. ~TakesWild(p)
      BY SizeAssumption DEF ListInv, SoundInv, TypeOK, TableHeight, Risen, TakesWild, Entries
    <2>2. SUFFICES ASSUME LoadsData(p) PROVE FALSE
      BY <2>1
    <2>3. PICK n \in Nat :
             \E f \in [0 .. n -> Blocks \cup {NoBlock}] : Path(n, f) /\ TableEnd(n, f)
      BY DEF ListInv, Linked
    <2>4. PICK f \in [0 .. n -> Blocks \cup {NoBlock}] : Path(n, f) /\ TableEnd(n, f)
      BY <2>3
    <2>5. nfree = 0 /\ blk[p] = sfree[0] /\ blk[p] \in Blocks
      BY <2>2, SizeAssumption
         DEF LoadsData, ListInv, SoundInv, TypeOK, TableHeight, Entries
    <2>6. blk[p] = f[n] /\ f[n] # NoBlock
      BY <2>2, <2>4, <2>5 DEF LoadsData, TableEnd, Blocks, NoBlock
    <2> QED
      BY <2>2, <2>4, <2>6, PathEnd DEF LoadsData, ListInv, SoundInv, GroupsInChain
  <1> QED
    BY <1>2, <1>3, <1>4, PTL DEF Spec

LEMMA CompleteNext ==
    ASSUME ListInv, [Abstract!Next]_(Abstract!vars), Complete
    PROVE  Complete'
  <1>1. CASE Abstract!Next
    BY <1>1 DEF Complete, Abstract!Next, Abstract!Release, Abstract!Ask, Abstract!Grant,
                Abstract!Deny
  <1>2. CASE UNCHANGED Abstract!vars
    BY <1>2 DEF Complete, Abstract!vars
  <1> QED
    BY <1>1, <1>2

LEMMA CompleteInit == Init => Complete
  <1>1. ASSUME Init PROVE HeldBlocks \subseteq Blocks
    BY DEF HeldBlocks
  <1> QED
    BY <1>1, AllListed DEF Complete

\* A set of numbers has a least one.
LEMMA LeastNumber ==
    ASSUME NEW S \in SUBSET Nat, S # {}
    PROVE  \E n \in S : \A m \in S : n <= m
  <1> DEFINE R == { ss \in Nat \X Nat : ss[1] < ss[2] }
  <1>1. IsWellFoundedOn(R, Nat)
    BY NatLessThanWellFounded DEF OpToRel
  <1>2. PICK x \in S : \A y \in S : ~ (<<y, x>> \in R)
    <2> HIDE DEF R
    <2> QED
      BY <1>1, WFMin
  <1>3. ASSUME NEW y \in S PROVE x <= y
    <2>1. x \in Nat /\ y \in Nat
      OBVIOUS
    <2>2. ~(y < x)
      <3>1. <<y, x>> \in Nat \X Nat /\ <<y, x>>[1] = y /\ <<y, x>>[2] = x
        BY <2>1
      <3> QED
        BY <1>2, <3>1
    <2> QED
      BY <2>1, <2>2
  <1> QED
    BY <1>3

\* A path is no longer than the volume.
LEMMA PathFits ==
    ASSUME TypeOK, NEW n \in Nat, NEW f \in [0 .. n -> Blocks \cup {NoBlock}], Path(n, f)
    PROVE  n <= NBlocks
  <1> DEFINE g == [i \in 1 .. n |-> f[i]]
  <1>1. \A i \in 1 .. n : f[i] \in Blocks
    BY DEF Path, TypeOK
  <1>2. \A i, j \in 1 .. n : f[i] = f[j] => i = j
    BY DEF Path
  <1>3. g \in Injection(1 .. n, Blocks)
    BY <1>1, <1>2 DEF Injection, IsInjective
  <1>4. IsFiniteSet(Blocks) /\ Cardinality(Blocks) = NBlocks
    BY FS_Interval, SizeAssumption DEF Blocks
  <1>5. Cardinality(1 .. n) = n
    BY FS_Interval
  <1>6. Cardinality(1 .. n) <= Cardinality(Blocks)
    <2> HIDE DEF g
    <2> QED
      BY <1>3, <1>4, FS_Injection
  <1> QED
    BY <1>4, <1>5, <1>6

Turns == 0 .. NBlocks + 1

\* The table as the walk takes it up.
TableHop == [state |-> "walk", n |-> nfree, free |-> sfree]

\* What the walk should hold after k turns when f is the path of the index blocks.
Visit(n, f, k) ==
    IF k = 0 THEN TableHop
    ELSE [state |-> "walk", n |-> disk[f[n + 1 - k]].n, free |-> disk[f[n + 1 - k]].free]

Course(n, f) ==
    [k \in Turns |-> IF k <= n THEN Visit(n, f, k) ELSE Stopped(Visit(n, f, n), "end")]

Quiet == \A p \in Procs : pc[p] = "idle"

\* In a quiet state the table is not empty, and names the first index block.
LEMMA QuietTable ==
    ASSUME TypeOK, Risen, TableHeight, Quiet,
           NEW n \in Nat, NEW f \in [0 .. n -> Blocks \cup {NoBlock}], TableEnd(n, f)
    PROVE  nfree \in 1 .. StackSize /\ sfree[0] = f[n]
  <1>1. nfree >= 1
    BY DEF Risen, Quiet
  <1>2. nfree \in Int /\ nfree <= StackSize
    BY SizeAssumption DEF TypeOK, TableHeight
  <1>3. sfree[0] = f[n]
    BY <1>1 DEF TableEnd
  <1> QED
    BY <1>1, <1>2, <1>3, SizeAssumption

\* What each turn finds: a group of a legal height whose entry 0 is the next stop.
LEMMA VisitIs ==
    ASSUME TypeOK, Risen, TableHeight, GroupsInChain, Quiet,
           NEW n \in Nat, NEW f \in [0 .. n -> Blocks \cup {NoBlock}],
           Path(n, f), TableEnd(n, f), NEW k \in 0 .. n
    PROVE  /\ Visit(n, f, k).state = "walk"
           /\ Visit(n, f, k).n \in 1 .. StackSize
           /\ Visit(n, f, k).free[0] = f[n - k]
  <1>1. CASE k = 0
    <2>1. nfree \in 1 .. StackSize /\ sfree[0] = f[n]
      BY QuietTable
    <2>2. 0 \in Entries /\ n - k = n
      BY <1>1, SizeAssumption DEF Entries
    <2> QED
      BY <1>1, <2>1, <2>2 DEF Visit, TableHop
  <1>2. CASE k # 0
    <2>1. PICK i \in 1 .. n : i = n + 1 - k
      BY <1>2
    <2>2. f[i] \in chain /\ disk[f[i]].free[0] = f[i - 1]
      BY DEF Path
    <2>3. i - 1 = n - k
      BY <2>1
    <2>4. disk[f[i]] \in Group
      BY <2>2 DEF TypeOK, GroupsInChain
    <2>5. disk[f[i]].n = StackSize
      BY <2>4 DEF Group
    <2>6. Visit(n, f, k) = [state |-> "walk", n |-> disk[f[i]].n, free |-> disk[f[i]].free]
      BY <1>2, <2>1 DEF Visit
    <2> QED
      BY <2>2, <2>3, <2>5, <2>6, SizeAssumption
  <1> QED
    BY <1>1, <1>2

LEMMA CourseStep ==
    ASSUME TypeOK, Risen, TableHeight, GroupsInChain, Quiet,
           NEW n \in Nat, NEW f \in [0 .. n -> Blocks \cup {NoBlock}],
           Path(n, f), TableEnd(n, f), NEW k \in Turns
    PROVE  Course(n, f)[k] = IF k = 0 THEN TableHop ELSE NextHop(Course(n, f)[k - 1])
  <1>1. CASE k = 0
    BY <1>1 DEF Course, Visit
  <1>2. CASE k # 0 /\ k <= n
    <2>1. PICK j \in 0 .. n : j = k - 1 /\ k = j + 1 /\ j \in Turns
      BY <1>2, SizeAssumption DEF Turns
    <2>2. /\ Visit(n, f, j).state = "walk" /\ Visit(n, f, j).n \in 1 .. StackSize
          /\ Visit(n, f, j).free[0] = f[n - j]
      BY VisitIs
    <2>3. PICK i \in 1 .. n : i = n - j /\ i = n + 1 - k
      BY <1>2, <2>1 DEF Turns
    <2>4. f[i] \in chain /\ f[i] \in Blocks /\ f[i] # NoBlock
      <3>1. f[i] \in chain /\ chain \subseteq Blocks
        BY DEF Path, TypeOK
      <3> QED
        BY <3>1 DEF Blocks, NoBlock
    <2>5. disk[f[i]] # FileData
      BY <2>4 DEF GroupsInChain
    <2>6. NextHop(Visit(n, f, j))
            = [state |-> "walk", n |-> disk[f[i]].n, free |-> disk[f[i]].free]
      BY <2>2, <2>3, <2>4, <2>5 DEF NextHop, ReadStack
    <2>7. Course(n, f)[k] = Visit(n, f, k) /\ Course(n, f)[j] = Visit(n, f, j)
      BY <1>2, <2>1 DEF Course
    <2>8. Visit(n, f, k) = [state |-> "walk", n |-> disk[f[i]].n, free |-> disk[f[i]].free]
      BY <1>2, <2>3 DEF Visit
    <2> QED
      BY <1>2, <2>1, <2>6, <2>7, <2>8
  <1>3. CASE ~(k <= n)
    <2>1. PICK j \in Turns : j = k - 1 /\ k # 0 /\ j >= n
      <3>1. k \in Nat /\ k <= NBlocks + 1 /\ k > n
        BY <1>3, SizeAssumption DEF Turns
      <3>2. k - 1 \in Turns /\ k # 0 /\ k - 1 >= n
        BY <3>1, SizeAssumption DEF Turns
      <3> QED
        BY <3>2
    <2>2. /\ Visit(n, f, n).state = "walk" /\ Visit(n, f, n).n \in 1 .. StackSize
          /\ Visit(n, f, n).free[0] = f[n - n]
      BY VisitIs
    <2>3. Visit(n, f, n).free[0] = NoBlock
      <3>1. n - n = 0
        OBVIOUS
      <3> QED
        BY <2>2, <3>1 DEF Path
    <2>4. Course(n, f)[k] = Stopped(Visit(n, f, n), "end")
      BY <1>3 DEF Course
    <2>5. CASE j = n
      <3>1. Course(n, f)[j] = Visit(n, f, n)
        BY <2>5 DEF Course
      <3>2. NextHop(Visit(n, f, n)) = Stopped(Visit(n, f, n), "end")
        BY <2>2, <2>3 DEF NextHop
      <3> QED
        BY <2>1, <2>4, <3>1, <3>2
    <2>6. CASE j # n
      <3>1. Course(n, f)[j] = Stopped(Visit(n, f, n), "end")
        <4>1. ~(j <= n)
          BY <2>1, <2>6 DEF Turns
        <4> QED
          BY <4>1 DEF Course
      <3>2. Stopped(Visit(n, f, n), "end").state # "walk"
        BY DEF Stopped, Visit, TableHop
      <3>3. NextHop(Course(n, f)[j]) = Course(n, f)[j]
        BY <3>1, <3>2 DEF NextHop
      <3> QED
        BY <2>1, <2>4, <3>1, <3>3
    <2> QED
      BY <2>5, <2>6
  <1> QED
    BY <1>1, <1>2, <1>3

\* The equation that defines Walk has at most one solution, and Course solves it.
LEMMA WalkIs ==
    ASSUME TypeOK, Risen, TableHeight, GroupsInChain, Quiet,
           NEW n \in Nat, NEW f \in [0 .. n -> Blocks \cup {NoBlock}],
           Path(n, f), TableEnd(n, f), NEW k \in Turns
    PROVE  Walk[k] = Course(n, f)[k]
  <1> DEFINE c == Course(n, f)
             Turn(g, i) == IF i = 0 THEN TableHop ELSE NextHop(g[i - 1])
  <1>1. \A i \in Turns : c[i] = Turn(c, i)
    BY CourseStep
  <1>2. c = [i \in Turns |-> Turn(c, i)]
    <2>1. c = [i \in Turns |-> c[i]]
      BY DEF Course
    <2> HIDE DEF c
    <2> QED
      BY <1>1, <2>1
  <1>3. Walk = [i \in Turns |-> Turn(Walk, i)]
    <2> HIDE DEF c
    <2> QED
      BY <1>2 DEF Walk, Turns, TableHop
  <1> HIDE DEF c
  <1> DEFINE S == { i \in Turns : Walk[i] # c[i] }
  <1>4. S = {}
    <2>1. SUFFICES ASSUME S # {} PROVE FALSE
      OBVIOUS
    <2>2. PICK i \in S : \A m \in S : i <= m
      <3>1. S \in SUBSET Nat
        BY DEF Turns
      <3> HIDE DEF S
      <3> QED
        BY <2>1, <3>1, LeastNumber
    <2>3. Walk[i] = Turn(Walk, i) /\ c[i] = Turn(c, i)
      BY <1>1, <1>3
    <2>4. i # 0
      BY <2>3
    <2>5. i - 1 \in Turns /\ i - 1 \notin S
      <3>1. i \in Nat /\ i <= NBlocks + 1
        BY SizeAssumption DEF Turns
      <3>2. i - 1 \in Turns /\ ~(i <= i - 1)
        BY <2>4, <3>1, SizeAssumption DEF Turns
      <3> QED
        BY <2>2, <3>2
    <2> QED
      BY <2>3, <2>4, <2>5
  <1> QED
    BY <1>4 DEF c
\* Every turn shows the table or a group of an index block, and each of them is shown.
LEMMA Turned ==
    ASSUME TypeOK, Risen, TableHeight, GroupsInChain, Quiet,
           NEW n \in Nat, NEW f \in [0 .. n -> Blocks \cup {NoBlock}],
           Path(n, f), TableEnd(n, f)
    PROVE  /\ \A k \in Turns : \E i \in 0 .. n :
                 Walk[k].n = Visit(n, f, i).n /\ Walk[k].free = Visit(n, f, i).free
           /\ \A i \in 0 .. n : i \in Turns /\ Walk[i] = Visit(n, f, i)
           /\ Walk[NBlocks + 1].state = "end"
  <1>1. n <= NBlocks
    BY PathFits
  <1>2. ASSUME NEW k \in Turns
        PROVE  \E i \in 0 .. n :
                 Walk[k].n = Visit(n, f, i).n /\ Walk[k].free = Visit(n, f, i).free
    <2>1. Walk[k] = Course(n, f)[k]
      BY WalkIs
    <2>2. CASE k <= n
      <3>1. k \in 0 .. n /\ Walk[k] = Visit(n, f, k)
        BY <2>1, <2>2 DEF Course, Turns
      <3> QED
        BY <3>1
    <2>3. CASE ~(k <= n)
      <3>1. n \in 0 .. n /\ Walk[k] = Stopped(Visit(n, f, n), "end")
        BY <2>1, <2>3 DEF Course
      <3>2. /\ Stopped(Visit(n, f, n), "end").n = Visit(n, f, n).n
            /\ Stopped(Visit(n, f, n), "end").free = Visit(n, f, n).free
        BY DEF Stopped, Visit, TableHop
      <3> QED
        BY <3>1, <3>2
    <2> QED
      BY <2>2, <2>3
  <1>3. ASSUME NEW i \in 0 .. n PROVE i \in Turns /\ Walk[i] = Visit(n, f, i)
    <2>1. i \in Turns
      BY <1>1, SizeAssumption DEF Turns
    <2>2. Walk[i] = Course(n, f)[i]
      BY <2>1, WalkIs
    <2> QED
      BY <2>1, <2>2 DEF Course
  <1>4. Walk[NBlocks + 1].state = "end"
    <2>1. NBlocks + 1 \in Turns /\ ~(NBlocks + 1 <= n)
      BY <1>1, SizeAssumption DEF Turns
    <2>2. Walk[NBlocks + 1] = Stopped(Visit(n, f, n), "end")
      BY <2>1, WalkIs DEF Course
    <2> QED
      BY <2>2 DEF Stopped, Visit, TableHop
  <1> QED
    BY <1>2, <1>3, <1>4

\* In a quiet state the walk prints the entries of the list, no more and no less.
LEMMA PrintedIs ==
    ASSUME TypeOK, Risen, TableHeight, GroupsInChain, Quiet,
           NEW n \in Nat, NEW f \in [0 .. n -> Blocks \cup {NoBlock}],
           Path(n, f), TableEnd(n, f), NEW b \in Blocks
    PROVE  b \in Printed <=> \E h \in Heads : \E i \in Entries : Listed(h, i) /\ Entry(h, i) = b
  <1>1. nfree \in 1 .. StackSize
    BY QuietTable
  <1>2. b # NoBlock /\ NoBlock \notin chain
    BY DEF Blocks, NoBlock, TypeOK
  <1>3. b \in Printed <=>
          \E k \in Turns : \E i \in Entries : i < Walk[k].n /\ Walk[k].free[i] = b
    BY <1>2 DEF Printed, Turns
  <1>4. \A k \in 1 .. n : n + 1 - k \in 1 .. n /\ k # 0
    OBVIOUS
  <1>5. ASSUME NEW k \in Turns, NEW i \in Entries, i < Walk[k].n, Walk[k].free[i] = b
        PROVE  \E h \in Heads : \E j \in Entries : Listed(h, j) /\ Entry(h, j) = b
    <2>1. PICK t \in 0 .. n :
            Walk[k].n = Visit(n, f, t).n /\ Walk[k].free = Visit(n, f, t).free
      BY Turned
    <2>2. i \in Entries
      BY SizeAssumption DEF Entries
    <2>3. CASE t = 0
      <3>1. i < nfree /\ sfree[i] = b
        BY <1>5, <2>1, <2>3 DEF Visit, TableHop
      <3> QED
        BY <2>2, <3>1 DEF Heads, Listed, Live, Entry
    <2>4. CASE t # 0
      <3>1. PICK j \in 1 .. n : j = n + 1 - t
        BY <2>4
      <3>2. f[j] \in chain
        BY DEF Path
      <3>3. disk[f[j]].free[i] = b
        BY <1>5, <2>1, <2>4, <3>1 DEF Visit
      <3> QED
        BY <1>2, <2>2, <3>2, <3>3 DEF Heads, Listed, Entry
    <2> QED
      BY <2>3, <2>4
  <1>6. ASSUME NEW h \in Heads, NEW i \in Entries, Listed(h, i), Entry(h, i) = b
        PROVE  \E k \in Turns : \E j \in Entries : j < Walk[k].n /\ Walk[k].free[j] = b
    <2>1. CASE h = NoBlock
      <3>1. i < nfree /\ sfree[i] = b
        BY <1>6, <2>1 DEF Listed, Live, Quiet, Entry
      <3>2. i \in Entries
        BY <1>1, <3>1, SizeAssumption DEF Entries
      <3>3. 0 \in Turns /\ Walk[0] = TableHop
        <4>1. 0 \in 0 .. n
          OBVIOUS
        <4>2. 0 \in Turns /\ Walk[0] = Visit(n, f, 0)
          BY <4>1, Turned
        <4> QED
          BY <4>2 DEF Visit
      <3>4. Walk[0].n = nfree /\ Walk[0].free[i] = b
        BY <3>1, <3>2, <3>3 DEF TableHop
      <3> QED
        BY <3>1, <3>2, <3>3, <3>4
    <2>2. CASE h # NoBlock
      <3>1. h \in chain /\ i \in Entries
        BY <1>6, <2>2 DEF Listed
      <3>2. PICK j \in 1 .. n : f[j] = h
        BY <3>1 DEF Path
      <3>3. PICK t \in 0 .. n : t = n + 1 - j /\ t # 0 /\ j = n + 1 - t
        BY <1>4
      <3>4. t \in Turns /\ Walk[t] = Visit(n, f, t)
        BY Turned
      <3>5. Walk[t] = [state |-> "walk", n |-> disk[h].n, free |-> disk[h].free]
        BY <3>2, <3>3, <3>4 DEF Visit
      <3>6. disk[h] \in Group
        BY <3>1 DEF TypeOK, GroupsInChain
      <3>7. disk[h].n = StackSize
        BY <3>6 DEF Group
      <3>8. disk[h].free[i] = b
        BY <1>6, <2>2 DEF Entry
      <3> QED
        BY <3>1, <3>4, <3>5, <3>7, <3>8, SizeAssumption DEF Entries
    <2> QED
      BY <2>1, <2>2
  <1> QED
    BY <1>3, <1>5, <1>6

LEMMA QuietList ==
    ASSUME ListInv, Risen, Complete, Quiet
    PROVE  Walk[NBlocks + 1].state = "end" /\ Printed = Blocks \ used
  <1>1. TypeOK /\ TableHeight /\ GroupsInChain /\ OnePlace /\ Linked
    BY DEF ListInv, SoundInv
  <1>2. PICK n \in Nat :
          \E f \in [0 .. n -> Blocks \cup {NoBlock}] : Path(n, f) /\ TableEnd(n, f)
    BY <1>1 DEF Linked
  <1>3. PICK f \in [0 .. n -> Blocks \cup {NoBlock}] : Path(n, f) /\ TableEnd(n, f)
    BY <1>2
  <1>4. Walk[NBlocks + 1].state = "end"
    BY <1>1, <1>3, Turned
  <1>5. \A p \in Procs : ~Freeing(p) /\ ~Carrying(p)
    BY DEF Quiet, Freeing, Carrying, FreePcs
  <1>6. HeldBlocks = used
    BY <1>1, <1>5 DEF HeldBlocks, Owned, InHand, TypeOK
  <1>7. \A b \in Blocks : b \in Printed <=> b \in FreeBlocks
    <2>1. TAKE b \in Blocks
    <2>2. b \in Printed <=>
            \E h \in Heads : \E i \in Entries : Listed(h, i) /\ Entry(h, i) = b
      BY <1>1, <1>3, PrintedIs
    <2> QED
      BY <2>2 DEF FreeBlocks
  <1>8. Printed \subseteq Blocks
    <2>1. SUFFICES ASSUME NEW b \in Printed PROVE b \in Blocks
      OBVIOUS
    <2>2. PICK k \in Turns : \E i \in Entries :
            i < Walk[k].n /\ Walk[k].free[i] = b /\ b # NoBlock
      BY DEF Printed, Turns
    <2>3. PICK i \in Entries : i < Walk[k].n /\ Walk[k].free[i] = b /\ b # NoBlock
      BY <2>2
    <2>4. PICK t \in 0 .. n : Walk[k].free = Visit(n, f, t).free
      BY <1>1, <1>3, Turned
    <2>5. Visit(n, f, t).free \in [Entries -> Blocks \cup {NoBlock}]
      <3>1. CASE t = 0
        BY <1>1, <3>1, SizeAssumption DEF Visit, TableHop, TypeOK, Entries
      <3>2. CASE t # 0
        <4>1. PICK j \in 1 .. n : j = n + 1 - t
          BY <3>2
        <4>2. disk[f[j]] \in Group
          BY <1>1, <1>3 DEF Path, TypeOK, GroupsInChain
        <4>3. disk[f[j]].free \in [Entries -> Blocks \cup {NoBlock}]
          BY <4>2 DEF Group
        <4> QED
          BY <3>2, <4>1, <4>3 DEF Visit
      <3> QED
        BY <3>1, <3>2
    <2> QED
      BY <2>3, <2>4, <2>5
  <1>9. \A b \in FreeBlocks : b \notin used
    BY <1>1, <1>5 DEF FreeBlocks, OnePlace, Owned
  <1>10. Printed = Blocks \ used
    BY <1>6, <1>7, <1>8, <1>9 DEF Complete
  <1> QED
    BY <1>4, <1>10

\* While no call is in progress fsck finds nothing to complain about (fsck.c, the walk
\* at lines 229-271): every height is legal, the walk ends at the 0 that ends the list,
\* and what it prints is what no file owns.
THEOREM FsckAcceptsCorrect == NoFaults => (Spec => []FsckAccepts)
  <1>1. SUFFICES ASSUME NoFaults PROVE Spec => []FsckAccepts
    OBVIOUS
  <1>2. Init => ListInv /\ Risen /\ Complete
    BY ListInit, RisenInit, CompleteInit
  <1>3. ListInv /\ Risen /\ Complete /\ [Next]_vars => (ListInv /\ Risen /\ Complete)'
    <2>1. ListInv /\ Risen /\ [Next]_vars => ListInv' /\ Risen'
      BY <1>1, ListNext, RisenNext
    <2>2. ListInv /\ Complete /\ [Next]_vars => Complete'
      BY <1>1, StepRefines, CompleteNext
    <2> QED
      BY <2>1, <2>2
  <1>4. ListInv /\ Risen /\ Complete => FsckAccepts
    BY QuietList DEF FsckAccepts, Quiet
  <1> QED
    BY <1>2, <1>3, <1>4, PTL DEF Spec
=============================================================================
