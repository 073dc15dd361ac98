------------------------------ MODULE BlockMap ------------------------------
(***************************************************************************)
(* Which block of the volume holds which block of a file: i_addr and the   *)
(* index blocks, Inode::Bmap with its callers ReadI and WriteI, and        *)
(* Inode::ITrunc, run on several files at a time.  A file is used by one   *)
(* process at a time (inode_lock in file_read and file_write); what they   *)
(* share is the allocator, taken by its promise (BlockAllocator.tla), and  *)
(* the buffers.                                                            *)
(*                                                                         *)
(* A step is one Alloc or Free with the stores that follow it, or one look *)
(* at an index block.  A read or a write is of one block: the loops of     *)
(* ReadI and WriteI are sequences of calls, and may stop after any.        *)
(*                                                                         *)
(* mem is what Bread returns for a block, disk what it returns after an    *)
(* eviction: they differ while a block that Alloc has cleared has not been *)
(* marked for writing (Bdwrite).  A content is a table of blocks, or Data; *)
(* a cleared block is the empty table.  A block that is not in use counts  *)
(* as Data: what a stale table is followed to is left out.                 *)
(***************************************************************************)
EXTENDS Integers

CONSTANTS Files,     \* inodes
          Blocks,    \* data blocks of the volume
          NoBlock,   \* 0 in i_addr and in an index block
          Data,      \* content of a block that is no table
          Direct,    \* SMALL_FILE_BLOCK, entries of i_addr that name data blocks (6)
          Single,    \* ... that name an index block of data blocks (2)
          Double,    \* ... that name an index block of index blocks (2)
          PerIndex,  \* ADDRESS_PER_INDEX_BLOCK (128)
          Faults     \* TRUE: Alloc may fail at any time, Bread in ITrunc, too

ASSUME MapAssumption ==
    /\ NoBlock \notin Blocks
    /\ Direct \in Nat \ {0} /\ Single \in Nat \ {0} /\ Double \in Nat \ {0}
    /\ PerIndex \in Nat \ {0, 1}
    /\ Faults \in BOOLEAN

Slots  == 0 .. Direct + Single + Double - 1     \* of i_addr
Index  == 0 .. PerIndex - 1                     \* of an index block
Entry  == Blocks \cup {NoBlock}
Tables == [Index -> Entry]
Zero   == [x \in Index |-> NoBlock]             \* what ClrBuf leaves

ASSUME DataAssumption == Data \notin Tables

LargeFile == Direct + Single * PerIndex                       \* LARGE_FILE_BLOCK
HugeFile  == LargeFile + Double * PerIndex * PerIndex         \* HUGE_FILE_BLOCK
Lbns      == 0 .. HugeFile - 1

VARIABLES addr,       \* i_addr of every file
          size,       \* i_size, in blocks begun
          mem, disk,  \* content of every block
          free,       \* blocks that Alloc may hand out
          pc, op, lbn, \* per file: place, call, "lbn"
          first, got, \* per file: block of pFirstBuf, block found or allocated
          slot, i1, i2, \* per file in ITrunc: i; entries j, k below these are left
          written,    \* history: blocks of a file that have been written
          sound       \* history: no cleared index block has been lost, no number
                      \* has been read from a buffer that was somebody else's,
                      \* nothing that is no buffer has been released

file   == <<addr, size>>
block  == <<mem, disk, free>>
call   == <<op, lbn>>
bufs   == <<first, got>>
trunc  == <<slot, i1, i2>>
vars   == <<file, block, pc, call, bufs, trunc, written, sound>>

-----------------------------------------------------------------------------
(* The place of a block of the file in the tree below i_addr.               *)

SlotOf(l) ==
    CASE l < Direct    -> l
      [] l \in Direct .. LargeFile - 1 -> (l - Direct) \div PerIndex + Direct
      [] l >= LargeFile -> (l - LargeFile) \div (PerIndex * PerIndex) + Direct + Single

MidOf(l) == ((l - LargeFile) \div PerIndex) % PerIndex

LeafOf(l) == IF l < LargeFile THEN (l - Direct) % PerIndex ELSE (l - LargeFile) % PerIndex

IsDirect(i) == i < Direct
IsDouble(i) == i >= Direct + Single

\* Entry x of the table in block b; a block that is no table has none.
At(b, x) == IF b # NoBlock /\ mem[b] # Data THEN mem[b][x] ELSE NoBlock

\* The block of the volume that holds block l of file f.
Lookup(f, l) ==
    LET top == addr[f][SlotOf(l)] IN
    IF IsDirect(SlotOf(l)) THEN top
    ELSE IF IsDouble(SlotOf(l)) THEN At(At(top, MidOf(l)), LeafOf(l))
    ELSE At(top, LeafOf(l))

-----------------------------------------------------------------------------
Init ==
    /\ addr = [f \in Files |-> [i \in Slots |-> NoBlock]]
    /\ size = [f \in Files |-> 0]
    /\ mem = [b \in Blocks |-> Data] /\ disk = mem
    /\ free = Blocks
    /\ pc = [f \in Files |-> "idle"]
    /\ op = [f \in Files |-> "none"]
    /\ lbn = [f \in Files |-> 0]
    /\ first = [f \in Files |-> NoBlock] /\ got = first
    /\ slot = [f \in Files |-> 0] /\ i1 = [f \in Files |-> PerIndex] /\ i2 = i1
    /\ written = [f \in Files |-> {}]
    /\ sound = TRUE

Goto(f, l) == pc' = [pc EXCEPT ![f] = l]
Hold(f, b) == first' = [first EXCEPT ![f] = b]
Find(f, b) == got' = [got EXCEPT ![f] = b]

Return(f) ==
    /\ Goto(f, "idle")
    /\ op' = [op EXCEPT ![f] = "none"]
    /\ lbn' = [lbn EXCEPT ![f] = 0]
    /\ Hold(f, NoBlock) /\ Find(f, NoBlock)

\* Alloc hands out b.
Take(b) == b \in free /\ free' = free \ {b}

AllocFails == free = {} \/ Faults

-----------------------------------------------------------------------------
(* ReadI and WriteI                                                         *)

Ask(f, o, l) ==
    /\ pc[f] = "idle"
    /\ Goto(f, "map")
    /\ op' = [op EXCEPT ![f] = o]
    /\ lbn' = [lbn EXCEPT ![f] = l]
    /\ UNCHANGED <<file, block, bufs, trunc, written, sound>>

Read(f, l)  == l < size[f] /\ Ask(f, "read", l)
Write(f, l) == Ask(f, "write", l)

-----------------------------------------------------------------------------
(* Bmap                                                                     *)

DirectFound(f) ==
    /\ pc[f] = "map"
    /\ IsDirect(SlotOf(lbn[f])) /\ addr[f][SlotOf(lbn[f])] # NoBlock
    /\ Find(f, addr[f][SlotOf(lbn[f])])
    /\ Goto(f, "io")
    /\ UNCHANGED <<file, block, call, first, trunc, written, sound>>

\* The new block is released by Bdwrite ...
DirectAlloc(f) ==
    /\ pc[f] = "map"
    /\ IsDirect(SlotOf(lbn[f])) /\ addr[f][SlotOf(lbn[f])] = NoBlock
    /\ \E b \in Blocks :
          /\ Take(b)
          /\ mem' = [mem EXCEPT ![b] = Zero] /\ disk' = [disk EXCEPT ![b] = Zero]
          /\ Find(f, b)
    /\ Goto(f, "direct")
    /\ UNCHANGED <<file, call, first, trunc, written, sound>>

\* ... and its number is read from the buffer afterwards: somebody else may have put
\* another block into the buffer meanwhile.
DirectLink(f) ==
    /\ pc[f] = "direct"
    /\ \E n \in {got[f]} \cup { b \in Blocks : \E g \in Files \ {f} : pc[g] # "idle" } :
          /\ addr' = [addr EXCEPT ![f][lbn[f]] = n]
          /\ Find(f, n)
          /\ sound' = (sound /\ n = got[f])
    /\ Goto(f, "io")
    /\ UNCHANGED <<size, block, call, first, trunc, written>>

\* Below: where the walk goes from an index block of slot i.
Below(i) == IF IsDouble(i) THEN "mid" ELSE "leaf"

\* Bound: a failed Bread of an index block is not followed (its error is used as a
\* buffer).
TopFound(f) ==
    LET i == SlotOf(lbn[f]) IN
    /\ pc[f] = "map"
    /\ ~IsDirect(i) /\ addr[f][i] # NoBlock
    /\ Hold(f, addr[f][i])
    /\ Goto(f, Below(i))
    /\ UNCHANGED <<file, block, call, got, trunc, written, sound>>

\* The new index block is cleared, but not marked for writing.
TopAlloc(f) ==
    LET i == SlotOf(lbn[f]) IN
    /\ pc[f] = "map"
    /\ ~IsDirect(i) /\ addr[f][i] = NoBlock
    /\ \E b \in Blocks :
          /\ Take(b)
          /\ mem' = [mem EXCEPT ![b] = Zero]
          /\ addr' = [addr EXCEPT ![f][i] = b]
          /\ Hold(f, b)
    /\ Goto(f, Below(i))
    /\ UNCHANGED <<size, disk, call, got, trunc, written, sound>>

MidFound(f) ==
    LET b == mem[first[f]][MidOf(lbn[f])] IN
    /\ pc[f] = "mid"
    /\ b # NoBlock
    /\ Hold(f, b)
    /\ Goto(f, "leaf")
    /\ UNCHANGED <<file, block, call, got, trunc, written, sound>>

\* The entry is stored and its block marked; the new index block is not.
MidAlloc(f) ==
    /\ pc[f] = "mid"
    /\ mem[first[f]][MidOf(lbn[f])] = NoBlock
    /\ \E b \in Blocks :
          LET t == [mem[first[f]] EXCEPT ![MidOf(lbn[f])] = b] IN
          /\ Take(b)
          /\ mem' = [mem EXCEPT ![b] = Zero, ![first[f]] = t]
          /\ disk' = [disk EXCEPT ![first[f]] = t]
          /\ Hold(f, b)
    /\ Goto(f, "leaf")
    /\ UNCHANGED <<file, call, got, trunc, written, sound>>

LeafFound(f) ==
    LET b == mem[first[f]][LeafOf(lbn[f])] IN
    /\ pc[f] = "leaf"
    /\ b # NoBlock
    /\ Find(f, b) /\ Hold(f, NoBlock)
    /\ Goto(f, "io")
    /\ UNCHANGED <<file, block, call, trunc, written, sound>>

\* Mutant: an entry that is in use is replaced.
LeafAllocAlways(f) ==
    /\ pc[f] = "leaf"
    /\ \E b \in Blocks :
          LET t == [mem[first[f]] EXCEPT ![LeafOf(lbn[f])] = b] IN
          /\ Take(b)
          /\ mem' = [mem EXCEPT ![b] = Zero, ![first[f]] = t]
          /\ disk' = [disk EXCEPT ![b] = Zero, ![first[f]] = t]
          /\ Find(f, b)
    /\ Hold(f, NoBlock)
    /\ Goto(f, "io")
    /\ UNCHANGED <<file, call, trunc, written, sound>>

\* Mutant: the new block is released without a mark.
LeafAllocUnmarked(f) ==
    /\ pc[f] = "leaf"
    /\ mem[first[f]][LeafOf(lbn[f])] = NoBlock
    /\ \E b \in Blocks :
          LET t == [mem[first[f]] EXCEPT ![LeafOf(lbn[f])] = b] IN
          /\ Take(b)
          /\ mem' = [mem EXCEPT ![b] = Zero, ![first[f]] = t]
          /\ disk' = [disk EXCEPT ![first[f]] = t]
          /\ Find(f, b)
    /\ Hold(f, NoBlock)
    /\ Goto(f, "io")
    /\ UNCHANGED <<file, call, trunc, written, sound>>

\* Both the new block and the index block are marked.
LeafAlloc(f) ==
    /\ pc[f] = "leaf"
    /\ mem[first[f]][LeafOf(lbn[f])] = NoBlock
    /\ \E b \in Blocks :
          LET t == [mem[first[f]] EXCEPT ![LeafOf(lbn[f])] = b] IN
          /\ Take(b)
          /\ mem' = [mem EXCEPT ![b] = Zero, ![first[f]] = t]
          /\ disk' = [disk EXCEPT ![b] = Zero, ![first[f]] = t]
          /\ Find(f, b)
    /\ Hold(f, NoBlock)
    /\ Goto(f, "io")
    /\ UNCHANGED <<file, call, trunc, written, sound>>

\* Alloc failed: Bmap answers 0, the caller ENOSPC.  The index block in hand is
\* released as it is.
MapFails(f) ==
    LET l == lbn[f] IN
    /\ AllocFails
    /\ \/ pc[f] = "map" /\ addr[f][SlotOf(l)] = NoBlock
       \/ pc[f] = "mid" /\ mem[first[f]][MidOf(l)] = NoBlock
       \/ pc[f] = "leaf" /\ mem[first[f]][LeafOf(l)] = NoBlock
    /\ Return(f)
    /\ UNCHANGED <<file, block, trunc, written, sound>>

\* A buffer that was released unmarked is used for another block, or read again.
Drop(b) ==
    /\ mem[b] # disk[b]
    /\ \A f \in Files : first[f] # b
    /\ mem' = [mem EXCEPT ![b] = disk[b]]
    /\ sound' = FALSE
    /\ UNCHANGED <<file, disk, free, pc, call, bufs, trunc, written>>

-----------------------------------------------------------------------------
(* The block that Bmap found is read or written                             *)

Fetch(f) ==
    /\ pc[f] = "io" /\ op[f] = "read"
    /\ Return(f)
    /\ UNCHANGED <<file, block, trunc, written, sound>>

\* Mutant: the file grows by a block too many.
StoreBeyond(f) ==
    /\ pc[f] = "io" /\ op[f] = "write"
    /\ mem' = [mem EXCEPT ![got[f]] = Data] /\ disk' = [disk EXCEPT ![got[f]] = Data]
    /\ size' = [size EXCEPT ![f] = IF @ > lbn[f] THEN @ ELSE lbn[f] + 2]
    /\ written' = [written EXCEPT ![f] = @ \cup {lbn[f]}]
    /\ Return(f)
    /\ UNCHANGED <<addr, free, trunc, sound>>

Store(f) ==
    /\ pc[f] = "io" /\ op[f] = "write"
    /\ mem' = [mem EXCEPT ![got[f]] = Data] /\ disk' = [disk EXCEPT ![got[f]] = Data]
    /\ size' = [size EXCEPT ![f] = IF @ > lbn[f] THEN @ ELSE lbn[f] + 1]
    /\ written' = [written EXCEPT ![f] = @ \cup {lbn[f]}]
    /\ Return(f)
    /\ UNCHANGED <<addr, free, trunc, sound>>

\* Bread of the block fails, for a read or before a store into a part of it: ReadI and
\* WriteI give the error it returned to Brelse as if it were a buffer.
IoFails(f) ==
    /\ Faults
    /\ pc[f] = "io"
    /\ sound' = FALSE
    /\ UNCHANGED <<file, block, pc, call, bufs, trunc, written>>

-----------------------------------------------------------------------------
(* ITrunc, called when the last name of the file is gone                    *)

\* Free takes b back.
Give(b) ==
    /\ free' = free \cup {b}
    /\ mem' = [mem EXCEPT ![b] = Data] /\ disk' = [disk EXCEPT ![b] = Data]

Delete(f) ==
    /\ pc[f] = "idle"
    /\ Goto(f, "slots")
    /\ UNCHANGED <<file, block, call, bufs, trunc, written, sound>>

\* The loops go from the last entry to the first and pass over those that are 0.
NextSlot(f, i) == addr[f][i] # NoBlock /\ \A k \in Slots : k > i => addr[f][k] = NoBlock

NextEntry(t, x, j) == j < x /\ t[j] # NoBlock /\ \A k \in j + 1 .. x - 1 : t[k] = NoBlock

NoEntry(t, x) == \A k \in 0 .. x - 1 : t[k] = NoBlock

\* Mutant: i_addr keeps the number of the block that was freed.
DirectFreeKeeps(f) ==
    /\ pc[f] = "slots"
    /\ \E i \in Slots : IsDirect(i) /\ NextSlot(f, i) /\ Give(addr[f][i])
    /\ UNCHANGED <<file, pc, call, bufs, trunc, written, sound>>

DirectFree(f) ==
    /\ pc[f] = "slots"
    /\ \E i \in Slots :
          /\ IsDirect(i) /\ NextSlot(f, i)
          /\ Give(addr[f][i])
          /\ addr' = [addr EXCEPT ![f][i] = NoBlock]
    /\ UNCHANGED <<size, pc, call, bufs, trunc, written, sound>>

FirstOpen(f) ==
    /\ pc[f] = "slots"
    /\ \E i \in Slots :
          /\ ~IsDirect(i) /\ NextSlot(f, i)
          /\ Hold(f, addr[f][i])
          /\ slot' = [slot EXCEPT ![f] = i]
    /\ Goto(f, "first")
    /\ UNCHANGED <<file, block, call, got, i1, i2, written, sound>>

\* A data block of a single indirect table.
FirstFree(f) ==
    /\ pc[f] = "first"
    /\ ~IsDouble(slot[f])
    /\ \E j \in Index :
          /\ NextEntry(mem[first[f]], i1[f], j)
          /\ Give(mem[first[f]][j])
          /\ i1' = [i1 EXCEPT ![f] = j]
    /\ UNCHANGED <<file, pc, call, bufs, slot, i2, written, sound>>

SecondOpen(f) ==
    /\ pc[f] = "first"
    /\ IsDouble(slot[f])
    /\ \E j \in Index :
          /\ NextEntry(mem[first[f]], i1[f], j)
          /\ Find(f, mem[first[f]][j])
          /\ i1' = [i1 EXCEPT ![f] = j + 1]
    /\ Goto(f, "second")
    /\ UNCHANGED <<file, block, call, first, slot, i2, written, sound>>

SecondFree(f) ==
    /\ pc[f] = "second"
    /\ \E k \in Index :
          /\ NextEntry(mem[got[f]], i2[f], k)
          /\ Give(mem[got[f]][k])
          /\ i2' = [i2 EXCEPT ![f] = k]
    /\ UNCHANGED <<file, pc, call, bufs, slot, i1, written, sound>>

\* Mutant: the last entry of a second index block is not looked at (k >= 1).
SecondDoneEarly(f) ==
    /\ pc[f] = "second"
    /\ \A k \in 1 .. i2[f] - 1 : mem[got[f]][k] = NoBlock
    /\ Give(got[f])
    /\ Find(f, NoBlock)
    /\ i1' = [i1 EXCEPT ![f] = @ - 1]
    /\ i2' = [i2 EXCEPT ![f] = PerIndex]
    /\ Goto(f, "first")
    /\ UNCHANGED <<file, call, first, slot, written, sound>>

\* The second index block itself, when all its entries have been given back.
SecondDone(f) ==
    /\ pc[f] = "second"
    /\ NoEntry(mem[got[f]], i2[f])
    /\ Give(got[f])
    /\ Find(f, NoBlock)
    /\ i1' = [i1 EXCEPT ![f] = @ - 1]
    /\ i2' = [i2 EXCEPT ![f] = PerIndex]
    /\ Goto(f, "first")
    /\ UNCHANGED <<file, call, first, slot, written, sound>>

\* The first index block, likewise.
FirstDone(f) ==
    /\ pc[f] = "first"
    /\ NoEntry(mem[first[f]], i1[f])
    /\ Give(first[f])
    /\ addr' = [addr EXCEPT ![f][slot[f]] = NoBlock]
    /\ Hold(f, NoBlock)
    /\ slot' = [slot EXCEPT ![f] = 0]
    /\ i1' = [i1 EXCEPT ![f] = PerIndex]
    /\ Goto(f, "slots")
    /\ UNCHANGED <<size, call, got, i2, written, sound>>

TruncEnd(f) ==
    /\ pc[f] = "slots"
    /\ \A i \in Slots : addr[f][i] = NoBlock
    /\ size' = [size EXCEPT ![f] = 0]
    /\ written' = [written EXCEPT ![f] = {}]
    /\ Goto(f, "idle")
    /\ UNCHANGED <<addr, block, call, bufs, trunc, sound>>

\* Bread of an index block fails: ITrunc returns, evict_inode returns, and the inode
\* is gone with the blocks that were left.
TruncFails(f) ==
    /\ Faults
    /\ \/ pc[f] = "slots" /\ \E i \in Slots : ~IsDirect(i) /\ NextSlot(f, i)
       \/ pc[f] = "first" /\ IsDouble(slot[f]) /\ ~NoEntry(mem[first[f]], i1[f])
    /\ Goto(f, "lost")
    /\ Hold(f, NoBlock)
    /\ UNCHANGED <<file, block, call, got, trunc, written, sound>>

-----------------------------------------------------------------------------
Bmap(f) ==
    \/ DirectFound(f) \/ DirectAlloc(f) \/ DirectLink(f) \/ TopFound(f) \/ TopAlloc(f)
    \/ MidFound(f) \/ MidAlloc(f) \/ LeafFound(f) \/ LeafAlloc(f) \/ MapFails(f)

ITrunc(f) ==
    \/ Delete(f) \/ DirectFree(f) \/ FirstOpen(f) \/ FirstFree(f) \/ SecondOpen(f)
    \/ SecondFree(f) \/ SecondDone(f) \/ FirstDone(f) \/ TruncEnd(f) \/ TruncFails(f)

ReadWrite(f) ==
    \/ Fetch(f) \/ Store(f) \/ IoFails(f)
    \/ \E l \in Lbns : Read(f, l) \/ Write(f, l)

\* Bound: nothing is followed after a step that ends "sound": a file has a block that
\* is another's, or a stale table, or Brelse works on an error number.
Next ==
    /\ sound
    /\ \/ \E f \in Files : ReadWrite(f) \/ Bmap(f) \/ ITrunc(f)
       \/ \E b \in Blocks : Drop(b)

Spec == Init /\ [][Next]_vars
-----------------------------------------------------------------------------
(* Correctness                                                              *)

\* Type invariant.
TypeOK ==
    /\ addr \in [Files -> [Slots -> Entry]]
    /\ size \in [Files -> 0 .. HugeFile]
    /\ mem \in [Blocks -> Tables \cup {Data}] /\ disk \in [Blocks -> Tables \cup {Data}]
    /\ free \subseteq Blocks
    /\ pc \in [Files -> {"idle", "map", "direct", "mid", "leaf", "io",
                         "slots", "first", "second", "lost"}]
    /\ op \in [Files -> {"none", "read", "write"}]
    /\ lbn \in [Files -> Lbns]
    /\ first \in [Files -> Entry] /\ got \in [Files -> Entry]
    /\ slot \in [Files -> Slots]
    /\ i1 \in [Files -> 0 .. PerIndex] /\ i2 \in [Files -> 0 .. PerIndex]
    /\ written \in [Files -> SUBSET Lbns]
    /\ sound \in BOOLEAN

\* The places that name a block, in i_addr, in a first and in a second index block.
\* ITrunc gives blocks back from the end and does not clear the index blocks: what it
\* has passed does not count.
Tops(f) == { [of |-> <<f, i>>, b |-> addr[f][i]] : i \in { i \in Slots : addr[f][i] # NoBlock } }

FirstAt(f, i, j) ==
    IF IsDirect(i) \/ (i = slot[f] /\ j >= i1[f])
    THEN NoBlock
    ELSE At(addr[f][i], j)

SecondAt(f, i, j, k) ==
    IF ~IsDouble(i) \/ (i = slot[f] /\ j = i1[f] - 1 /\ k >= i2[f])
    THEN NoBlock
    ELSE At(FirstAt(f, i, j), k)

Places(f) ==
    Tops(f)
    \cup { [of |-> <<f, x[1], x[2]>>, b |-> FirstAt(f, x[1], x[2])] :
              x \in { x \in Slots \X Index : FirstAt(f, x[1], x[2]) # NoBlock } }
    \cup { [of |-> <<f, x[1], x[2], x[3]>>, b |-> SecondAt(f, x[1], x[2], x[3])] :
              x \in { x \in Slots \X Index \X Index :
                        SecondAt(f, x[1], x[2], x[3]) # NoBlock } }

AllPlaces == UNION { Places(f) : f \in Files }

InHand == { got[f] : f \in { f \in Files : pc[f] = "direct" } }

\* A block has one place: it is not twice in a file, not in two files, and not free
\* while a file names it, in the middle of truncations and of failed writes, too.
MapsApart ==
    sound =>
        /\ \A r, s \in AllPlaces : r.b = s.b => r = s
        /\ \A r \in AllPlaces : r.b \notin free \cup InHand

\* No block is lost: what is not free is named by a file, in whatever stage a write
\* stopped for want of blocks; all blocks of a deleted file are given back, those of
\* index blocks and the index blocks themselves.  What a failed ITrunc leaves stays
\* named by its inode, which nothing reaches any more: no block of it is freed twice,
\* or used by another file, but none comes back either.
NothingLost == sound => Blocks = free \cup InHand \cup { r.b : r \in AllPlaces }

\* A block of the file that has not been written reads as zeros, on the disk, too,
\* whatever its block held before; one that has been written holds what was written
\* and not, say, the table of an index block.
FreshIsZero ==
    sound =>
        \A f \in Files : \A l \in Lbns :
            LET b == Lookup(f, l) IN
            pc[f] \in {"idle", "map", "mid", "leaf", "direct"} /\ b # NoBlock =>
                mem[b] = disk[b] /\ mem[b] = IF l \in written[f] THEN Data ELSE Zero

\* A block of the file stays where it is until the file is deleted: Bmap of one block
\* moves no other, and asked again answers the same.
MapStable ==
    [][ sound' => \A f \in Files : \A l \in Lbns :
          Lookup(f, l) # NoBlock /\ pc[f] # "idle" /\ op[f] # "none"
          => Lookup(f, l)' = Lookup(f, l) ]_vars
=============================================================================
