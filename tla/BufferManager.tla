---------------------------- MODULE BufferManager ----------------------------
(***************************************************************************)
(* The buffer cache of one mounted device: GetBlk, Brelse, Bread, Bwrite,  *)
(* Bdwrite and Bflush of BufferManager.cc, called by several processes.    *)
(*                                                                         *)
(* The free list is kept by its pointers av_forw and av_back, because the  *)
(* code can link a buffer into it twice.  The device queue is kept as a    *)
(* sequence: its only writer (GetBlk, under b_queue_lock) takes a buffer   *)
(* out of the queue it is in before it links it in front.                  *)
(*                                                                         *)
(* Callers may overlap in every way: nothing in the code orders them.      *)
(*                                                                         *)
(* A step is one critical section of b_queue_lock, one operation on a      *)
(* mutex or on the semaphore, or one unlocked look at a list; the walk of  *)
(* the device queue, which only reads, is one look.  A block's content is  *)
(* a value; a caller that changes a block changes all of it.               *)
(***************************************************************************)
EXTENDS Integers, Sequences

CONSTANTS NBuf,     \* buffers in the cache (SECONDFS_NBUF, 10)
          NBlocks,  \* blocks of the device that are used
          Values,   \* what a block may hold
          Zero,     \* the value every block has at first
          Procs,    \* processes that use the cache
          NoProc,   \* "nobody"
          Delayed,  \* TRUE: callers use Bdwrite and Bflush
          Faults    \* I/O that may fail: a subset of {"read", "write"}

ASSUME CacheAssumption ==
    /\ NBuf \in Nat \ {0} /\ NBlocks \in Nat \ {0}
    /\ Zero \in Values
    /\ NoProc \notin Procs
    /\ Delayed \in BOOLEAN
    /\ Faults \subseteq {"read", "write"}

Bufs    == 1 .. NBuf
FreeHead    == 0              \* bFreeList, the head of the free list
Links   == Bufs \cup {FreeHead}
Blocks  == 1 .. NBlocks
NoBlock == 0              \* b_dev is NULL: the buffer is in the NODEV queue

VARIABLES avForw, avBack,  \* the free list
          devq,            \* buffers of the device, the front of b_forw first
          blkno,           \* per buffer: the block it stands for
          delwri, done,    \* per buffer: B_DELWRI, B_DONE
          mem, disk,       \* content of every buffer, of every block
          modify, wait,    \* per buffer: holder of b_modify_lock; b_wait_free_lock
          sem,             \* b_bFreeList_lock
          pc, op, want, cur, \* per process: place, call, "blkno", "bp"
          cont,            \* per process: where it goes on after Brelse
          latest, spoiled, \* history: last content stored by a caller; failed blocks
          apart,           \* history: no buffer went to two, no block got two buffers
          twice            \* history: GetBlk has released a buffer a second time

list  == <<avForw, avBack>>
queue == <<devq, blkno>>
flags == <<delwri, done>>
data  == <<mem, disk>>
locks == <<modify, wait, sem>>
call  == <<op, want, cont>>
hist  == <<latest, spoiled, apart, twice>>
vars  == <<list, queue, flags, data, locks, pc, cur, call, hist>>

-----------------------------------------------------------------------------
\* Initialize: the buffers are released one by one into the list, on no device.
Init ==
    /\ avForw = [l \in Links |-> IF l = NBuf THEN FreeHead ELSE l + 1]
    /\ avBack = [l \in Links |-> IF l = FreeHead THEN NBuf ELSE l - 1]
    /\ devq = <<>>
    /\ blkno = [b \in Bufs |-> NoBlock]
    /\ delwri = [b \in Bufs |-> FALSE]
    /\ done = [b \in Bufs |-> FALSE]
    /\ mem = [b \in Bufs |-> Zero]
    /\ disk = [k \in Blocks |-> Zero]
    /\ modify = [b \in Bufs |-> NoProc]
    /\ wait = [b \in Bufs |-> FALSE]
    /\ sem = 1
    /\ pc = [p \in Procs |-> "idle"]
    /\ op = [p \in Procs |-> "none"]
    /\ want = [p \in Procs |-> NoBlock]
    /\ cur = [p \in Procs |-> FreeHead]
    /\ cont = [p \in Procs |-> "idle"]
    /\ latest = disk
    /\ spoiled = {}
    /\ apart = TRUE
    /\ twice = FALSE

Goto(p, l)  == pc' = [pc EXCEPT ![p] = l]
Point(p, l) == cur' = [cur EXCEPT ![p] = l]

\* Mutant: the buffer is taken out of the list in one direction only.
NotAvailForwardOnly(b) ==
    /\ avForw' = [avForw EXCEPT ![avBack[b]] = avForw[b]]
    /\ UNCHANGED avBack

\* The two stores of NotAvail: the neighbours of b are linked to each other.
NotAvail(b) ==
    /\ avForw' = [avForw EXCEPT ![avBack[b]] = avForw[b]]
    /\ avBack' = [avBack EXCEPT ![avForw[b]] = avBack[b]]

\* The stores of Brelse: b becomes the last of the list.
Linked(b) ==
    /\ avForw' = [avForw EXCEPT ![avBack[FreeHead]] = b, ![b] = FreeHead]
    /\ avBack' = [avBack EXCEPT ![b] = avBack[FreeHead], ![FreeHead] = b]

\* A walk along av_forw from the head, which ends there or at a member of S, comes to l.
Comes(l, S) ==
    \A C \in SUBSET Links :
        /\ avForw[FreeHead] \in C
        /\ \A c \in C \ (S \cup {FreeHead}) : avForw[c] \in C
        => l \in C

FreeBufs == { b \in Bufs : Comes(b, {}) }
Dirty    == { b \in Bufs : delwri[b] }

\* The device queue s with b in front, which leaves its old place.
ToFront(s, b) ==
    LET old == { i \in DOMAIN s : s[i] = b } \cup {Len(s) + 1}
        i   == CHOOSE i \in old : \A j \in old : i <= j
    IN  [j \in 1 .. (IF i > Len(s) THEN i ELSE Len(s)) |->
            IF j = 1 THEN b ELSE IF j <= i THEN s[j - 1] ELSE s[j]]

\* Mutant: the search begins behind the first buffer of the queue.
CachedBehindFirst(k) == { i \in DOMAIN devq : i > 1 /\ blkno[devq[i]] = k }

Cached(k) == { i \in DOMAIN devq : blkno[devq[i]] = k }

Start(p, l, o, k) ==
    /\ Goto(p, l)
    /\ op' = [op EXCEPT ![p] = o]
    /\ want' = [want EXCEPT ![p] = k]

\* A call is over and the process keeps no buffer.
Leave(p) ==
    /\ Start(p, "idle", "none", NoBlock)
    /\ Point(p, FreeHead)
    /\ cont' = [cont EXCEPT ![p] = "idle"]

Then(p, l) == cont' = [cont EXCEPT ![p] = l]

-----------------------------------------------------------------------------
(* Who has which buffer.  While a process has one, the buffer is out of the *)
(* free list, or should be.                                                 *)
Searching == {"search", "check", "pick", "free", "trydown", "down", "relink"}
Using     == {"bio_read", "hold", "bwrite", "bio_write", "brelse"}
Waking    == {"islocked", "unlock", "trydown_free", "up"}

\* The process has taken buffer b out of the free list and has not put it back.
Has(p, b) == cur[p] = b /\ pc[p] \in Using \cup {"relink"}

\* The buffer of b goes to p alone: nobody else has it.
Alone(p, b) == \A q \in Procs \ {p} : ~Has(q, b)

\* From here on two may use one buffer, or a block may have two.
StaysApart(good) == apart' = (apart /\ good)

-----------------------------------------------------------------------------
\* Bread ("read") or GetBlk for a block that is to be overwritten ("get").
Ask(p, o, k) ==
    /\ pc[p] = "idle"
    /\ Start(p, "search", o, k)
    /\ UNCHANGED <<list, queue, flags, data, locks, cur, cont, hist>>

-----------------------------------------------------------------------------
(* GetBlk: the block is in the device queue.                                *)

Hit(p) ==
    /\ pc[p] = "search"
    /\ \E i \in Cached(want[p]) :
          /\ \A j \in Cached(want[p]) : i <= j
          /\ Point(p, devq[i])
    /\ Goto(p, "modify")
    /\ UNCHANGED <<list, queue, flags, data, locks, call, hist>>

LockModify(p) ==
    /\ pc[p] = "modify"
    /\ modify[cur[p]] = NoProc
    /\ modify' = [modify EXCEPT ![cur[p]] = p]
    /\ Goto(p, "try")
    /\ UNCHANGED <<list, queue, flags, data, wait, sem, cur, call, hist>>

TryFree(p) ==
    /\ pc[p] = "try"
    /\ ~wait[cur[p]]
    /\ wait' = [wait EXCEPT ![cur[p]] = TRUE]
    /\ Goto(p, "take")
    /\ UNCHANGED <<list, queue, flags, data, modify, sem, cur, call, hist>>

TryBusy(p) ==
    /\ pc[p] = "try"
    /\ wait[cur[p]]
    /\ modify' = [modify EXCEPT ![cur[p]] = NoProc]
    /\ Goto(p, "wait")
    /\ UNCHANGED <<list, queue, flags, data, wait, sem, cur, call, hist>>

WaitFree(p) ==
    /\ pc[p] = "wait"
    /\ ~wait[cur[p]]
    /\ wait' = [wait EXCEPT ![cur[p]] = TRUE]
    /\ Goto(p, "recheck")
    /\ UNCHANGED <<list, queue, flags, data, modify, sem, cur, call, hist>>

RecheckSame(p) ==
    /\ pc[p] = "recheck"
    /\ blkno[cur[p]] = want[p]
    /\ Goto(p, "take")
    /\ UNCHANGED <<list, queue, flags, data, locks, cur, call, hist>>

\* Mutant: the search begins again with the lock of the buffer kept.
RecheckOtherKeepsLock(p) ==
    /\ pc[p] = "recheck"
    /\ blkno[cur[p]] # want[p]
    /\ Goto(p, "search")
    /\ UNCHANGED <<list, queue, flags, data, locks, cur, call, hist>>

\* The buffer stands for another block by now: the search begins again.
RecheckOther(p) ==
    /\ pc[p] = "recheck"
    /\ blkno[cur[p]] # want[p]
    /\ wait' = [wait EXCEPT ![cur[p]] = FALSE]
    /\ Goto(p, "search")
    /\ UNCHANGED <<list, queue, flags, data, modify, sem, cur, call, hist>>

\* Bread goes on to read the block unless B_DONE is set; GetBlk returns.
Found(p, isDone) ==
    Goto(p, IF op[p] = "read" /\ ~isDone THEN "bio_read" ELSE "hold")

\* b_modify_lock is unlocked whoever holds it: a process that has waited does not.
\* A miss may have taken the buffer since it was found, to keep it or for another block.
TakeHit(p) ==
    /\ pc[p] = "take"
    /\ NotAvail(cur[p])
    /\ modify' = [modify EXCEPT ![cur[p]] = NoProc]
    /\ Found(p, done[cur[p]])
    /\ StaysApart(Alone(p, cur[p]) /\ blkno[cur[p]] = want[p])
    /\ UNCHANGED <<queue, flags, data, wait, sem, cur, call, latest, spoiled, twice>>

-----------------------------------------------------------------------------
(* GetBlk: the block is not in the device queue.                            *)

Miss(p) ==
    /\ pc[p] = "search"
    /\ Cached(want[p]) = {}
    /\ Goto(p, "check")
    /\ UNCHANGED <<list, queue, flags, data, locks, cur, call, hist>>

CheckEmpty(p) ==
    /\ pc[p] = "check"
    /\ avForw[FreeHead] = FreeHead
    /\ Goto(p, "trydown")
    /\ UNCHANGED <<list, queue, flags, data, locks, cur, call, hist>>

\* down_trylock: the semaphore is lowered unless it is 0.
LoweredAlways == sem - 1 \* Mutant: a semaphore that is 0 is lowered, too.
Lowered == IF sem > 0 THEN sem - 1 ELSE 0

TryDown(p) ==
    /\ pc[p] = "trydown"
    /\ sem' = Lowered
    /\ Goto(p, "down")
    /\ UNCHANGED <<list, queue, flags, data, modify, wait, cur, call, hist>>

Down(p) ==
    /\ pc[p] = "down"
    /\ sem > 0
    /\ sem' = sem - 1
    /\ Goto(p, "search")
    /\ UNCHANGED <<list, queue, flags, data, modify, wait, cur, call, hist>>

CheckSome(p) ==
    /\ pc[p] = "check"
    /\ avForw[FreeHead] # FreeHead
    /\ Goto(p, "pick")
    /\ UNCHANGED <<list, queue, flags, data, locks, cur, call, hist>>

\* bp = av_forw, read again and still without b_queue_lock.
Pick(p) ==
    /\ pc[p] = "pick"
    /\ Point(p, avForw[FreeHead])
    /\ Goto(p, "free")
    /\ UNCHANGED <<list, queue, flags, data, locks, call, hist>>

TakeFree(p) ==
    /\ pc[p] = "free"
    /\ cur[p] # FreeHead
    /\ NotAvail(cur[p])
    /\ Goto(p, IF delwri[cur[p]] THEN "bwrite" ELSE "relink")
    /\ Then(p, IF delwri[cur[p]] THEN "again" ELSE cont[p])
    /\ StaysApart(Alone(p, cur[p]))
    /\ UNCHANGED <<queue, flags, data, locks, op, want, cur, latest, spoiled, twice>>

\* The last free buffer was taken between the look at the list and the Pick: bp is the
\* head of the list, which is no buffer and has no memory.  Nothing is followed.
TakeHead(p) ==
    /\ pc[p] = "free"
    /\ cur[p] = FreeHead
    /\ Goto(p, "lost")
    /\ UNCHANGED <<list, queue, flags, data, locks, cur, call, hist>>

\* The block has no buffer yet, but the one that p is about to give it.
Unnamed(p) == \A b \in Bufs \ {cur[p]} : blkno[b] # want[p]

\* Mutant: the buffer keeps the flags of the block it stood for.
RelinkKeepsFlags(p) ==
    /\ pc[p] = "relink"
    /\ devq' = ToFront(devq, cur[p])
    /\ blkno' = [blkno EXCEPT ![cur[p]] = want[p]]
    /\ Found(p, done[cur[p]])
    /\ StaysApart(Unnamed(p))
    /\ UNCHANGED <<list, flags, data, locks, cur, call, latest, spoiled, twice>>

\* The buffer goes to the front of the device queue, for the new block.
Relink(p) ==
    /\ pc[p] = "relink"
    /\ devq' = ToFront(devq, cur[p])
    /\ blkno' = [blkno EXCEPT ![cur[p]] = want[p]]
    /\ delwri' = [delwri EXCEPT ![cur[p]] = FALSE]
    /\ done' = [done EXCEPT ![cur[p]] = FALSE]
    /\ Found(p, FALSE)
    /\ StaysApart(Unnamed(p))
    /\ UNCHANGED <<list, data, locks, cur, call, latest, spoiled, twice>>

-----------------------------------------------------------------------------
(* Bread, Bwrite, Bdwrite and the use of a buffer.                          *)

BioRead(p) ==
    /\ pc[p] = "bio_read"
    /\ mem' = [mem EXCEPT ![cur[p]] = disk[blkno[cur[p]]]]
    /\ done' = [done EXCEPT ![cur[p]] = TRUE]
    /\ Goto(p, "hold")
    /\ UNCHANGED <<list, queue, delwri, disk, locks, cur, call, hist>>

\* IODone sets B_DONE before the result is looked at; the buffer is released.
BioReadFails(p) ==
    /\ pc[p] = "bio_read"
    /\ "read" \in Faults
    /\ \E v \in Values : mem' = [mem EXCEPT ![cur[p]] = v]
    /\ done' = [done EXCEPT ![cur[p]] = TRUE]
    /\ spoiled' = spoiled \cup {blkno[cur[p]]}
    /\ Goto(p, "brelse")
    /\ UNCHANGED <<list, queue, delwri, disk, locks, cur, call, latest, apart, twice>>

\* A caller that has only read the block releases it.
EndUse(p) ==
    /\ pc[p] = "hold"
    /\ op[p] = "read"
    /\ Goto(p, "brelse")
    /\ UNCHANGED <<list, queue, flags, data, locks, cur, call, hist>>

\* A caller changes the block, then calls Bwrite or Bdwrite.
Store(p, v) ==
    /\ pc[p] = "hold"
    /\ mem' = [mem EXCEPT ![cur[p]] = v]
    /\ latest' = [latest EXCEPT ![want[p]] = v]

StoreBwrite(p, v) ==
    /\ Store(p, v)
    /\ Goto(p, "bwrite")
    /\ UNCHANGED <<list, queue, flags, disk, locks, cur, call, spoiled, apart, twice>>

StoreBdwrite(p, v) ==
    /\ Delayed
    /\ Store(p, v)
    /\ delwri' = [delwri EXCEPT ![cur[p]] = TRUE]
    /\ done' = [done EXCEPT ![cur[p]] = TRUE]
    /\ Goto(p, "brelse")
    /\ UNCHANGED <<list, queue, disk, locks, cur, call, spoiled, apart, twice>>

Bwrite(p) ==
    /\ pc[p] = "bwrite"
    /\ delwri' = [delwri EXCEPT ![cur[p]] = FALSE]
    /\ done' = [done EXCEPT ![cur[p]] = FALSE]
    /\ Goto(p, "bio_write")
    /\ UNCHANGED <<list, queue, data, locks, cur, call, hist>>

\* Mutant: the block number of the call is written, not the buffer's own.
BioWriteWanted(p) ==
    /\ pc[p] = "bio_write"
    /\ LET b == IF want[p] = NoBlock THEN blkno[cur[p]] ELSE want[p]
       IN  disk' = [disk EXCEPT ![b] = mem[cur[p]]]
    /\ done' = [done EXCEPT ![cur[p]] = TRUE]
    /\ spoiled' = spoiled \ {blkno[cur[p]]}
    /\ Goto(p, "brelse")
    /\ UNCHANGED <<list, queue, delwri, mem, locks, cur, call, latest, apart, twice>>

BioWrite(p) ==
    /\ pc[p] = "bio_write"
    /\ disk' = [disk EXCEPT ![blkno[cur[p]]] = mem[cur[p]]]
    /\ done' = [done EXCEPT ![cur[p]] = TRUE]
    /\ spoiled' = spoiled \ {blkno[cur[p]]}
    /\ Goto(p, "brelse")
    /\ UNCHANGED <<list, queue, delwri, mem, locks, cur, call, latest, apart, twice>>

\* B_DELWRI has been cleared already: the block will not be written again.
BioWriteFails(p) ==
    /\ pc[p] = "bio_write"
    /\ "write" \in Faults
    /\ done' = [done EXCEPT ![cur[p]] = TRUE]
    /\ spoiled' = spoiled \cup {blkno[cur[p]]}
    /\ Goto(p, "brelse")
    /\ UNCHANGED <<list, queue, delwri, data, locks, cur, call, latest, apart, twice>>

-----------------------------------------------------------------------------
(* Brelse                                                                   *)

Resume(p) ==
    IF cont[p] = "idle" THEN Leave(p)
    ELSE Goto(p, cont[p]) /\ Then(p, "idle") /\ UNCHANGED <<cur, op, want>>

Release(p) ==
    /\ pc[p] = "brelse"
    /\ Linked(cur[p])
    /\ Goto(p, "islocked")
    /\ UNCHANGED <<queue, flags, data, locks, cur, call, hist>>

\* Bwrite has released the buffer that GetBlk evicts; GetBlk releases it once more,
\* then it searches.
ReleaseAgain(p) ==
    /\ pc[p] = "again"
    /\ Linked(cur[p])
    /\ Goto(p, "islocked")
    /\ Then(p, "search")
    /\ twice' = TRUE
    /\ UNCHANGED <<queue, flags, data, locks, op, want, cur, latest, spoiled, apart>>

\* mutex_is_locked: the answer may be out of date when mutex_unlock is called.
IsLocked(p) ==
    /\ pc[p] = "islocked"
    /\ Goto(p, IF wait[cur[p]] THEN "unlock" ELSE "trydown_free")
    /\ UNCHANGED <<list, queue, flags, data, locks, cur, call, hist>>

\* Mutant: those who wait for this buffer are not woken.
UnlockNobody(p) ==
    /\ pc[p] = "unlock"
    /\ Goto(p, "trydown_free")
    /\ UNCHANGED <<list, queue, flags, data, locks, cur, call, hist>>

Unlock(p) ==
    /\ pc[p] = "unlock"
    /\ wait' = [wait EXCEPT ![cur[p]] = FALSE]
    /\ Goto(p, "trydown_free")
    /\ UNCHANGED <<list, queue, flags, data, modify, sem, cur, call, hist>>

TryDownFree(p) ==
    /\ pc[p] = "trydown_free"
    /\ sem' = Lowered
    /\ Goto(p, "up")
    /\ UNCHANGED <<list, queue, flags, data, modify, wait, cur, call, hist>>

Up(p) ==
    /\ pc[p] = "up"
    /\ sem' = sem + 1
    /\ Resume(p)
    /\ UNCHANGED <<list, queue, flags, data, modify, wait, hist>>

-----------------------------------------------------------------------------
(* Bflush: the first delayed buffer of the free list is written, until the  *)
(* list has none.  In a list that goes round without its head and has no    *)
(* delayed buffer, the walk has no end: the process takes neither step.     *)

Flush(p) ==
    /\ Delayed
    /\ pc[p] = "idle"
    /\ Start(p, "flush", "flush", NoBlock)
    /\ UNCHANGED <<list, queue, flags, data, locks, cur, cont, hist>>

FlushOne(p) ==
    /\ pc[p] = "flush"
    /\ \E b \in Dirty :
          Comes(b, Dirty) /\ NotAvail(b) /\ Point(p, b) /\ StaysApart(Alone(p, b))
    /\ Then(p, "flush")
    /\ Goto(p, "bwrite")
    /\ UNCHANGED <<queue, flags, data, locks, op, want, latest, spoiled, twice>>

FlushEnd(p) ==
    /\ pc[p] = "flush"
    /\ Comes(FreeHead, Dirty)
    /\ Leave(p)
    /\ UNCHANGED <<list, queue, flags, data, locks, hist>>

-----------------------------------------------------------------------------
GetBlk(p) ==
    \/ Hit(p) \/ LockModify(p) \/ TryFree(p) \/ TryBusy(p) \/ WaitFree(p)
    \/ RecheckSame(p) \/ RecheckOther(p) \/ TakeHit(p)
    \/ Miss(p) \/ CheckEmpty(p) \/ TryDown(p) \/ Down(p) \/ CheckSome(p) \/ Pick(p)
    \/ TakeFree(p) \/ TakeHead(p) \/ Relink(p)

Bio(p) == BioRead(p) \/ BioReadFails(p) \/ Bwrite(p) \/ BioWrite(p) \/ BioWriteFails(p)

Brelse(p) ==
    \/ Release(p) \/ ReleaseAgain(p) \/ IsLocked(p) \/ Unlock(p)
    \/ TryDownFree(p) \/ Up(p)

Bflush(p) == FlushOne(p) \/ FlushEnd(p)

Use(p) == EndUse(p) \/ \E v \in Values : StoreBwrite(p, v) \/ StoreBdwrite(p, v)

Call(p) == Flush(p) \/ \E o \in {"read", "get"}, k \in Blocks : Ask(p, o, k)

\* Inside a call, a process goes on.
Proceed(p) == GetBlk(p) \/ Bio(p) \/ Use(p) \/ Brelse(p) \/ Bflush(p)

Lost == \E p \in Procs : pc[p] = "lost"

Next == ~Lost /\ \E p \in Procs : Call(p) \/ Proceed(p)

Spec == Init /\ [][Next]_vars

(* A running process keeps running, a caller that holds a buffer releases   *)
(* it, and a kernel mutex is granted in turn.  Nobody is obliged to call.   *)
Fairness ==
    \A p \in Procs :
        /\ WF_vars(~Lost /\ Proceed(p))
        /\ SF_vars(~Lost /\ LockModify(p))
        /\ SF_vars(~Lost /\ WaitFree(p))

FairSpec == Spec /\ Fairness
-----------------------------------------------------------------------------
(* Correctness                                                              *)

\* Type invariant.
TypeOK ==
    /\ avForw \in [Links -> Links] /\ avBack \in [Links -> Links]
    /\ devq \in Seq(Bufs)
    /\ blkno \in [Bufs -> Blocks \cup {NoBlock}]
    /\ delwri \in [Bufs -> BOOLEAN] /\ done \in [Bufs -> BOOLEAN]
    /\ mem \in [Bufs -> Values] /\ disk \in [Blocks -> Values]
    /\ modify \in [Bufs -> Procs \cup {NoProc}] /\ wait \in [Bufs -> BOOLEAN]
    /\ sem \in Nat
    /\ pc \in [Procs -> {"idle", "modify", "try", "wait", "recheck", "take", "flush",
                         "again", "lost"}
                        \cup Searching \cup Using \cup Waking]
    /\ op \in [Procs -> {"none", "read", "get", "flush"}]
    /\ want \in [Procs -> Blocks \cup {NoBlock}]
    /\ cur \in [Procs -> Links]
    /\ cont \in [Procs -> {"idle", "again", "search", "flush"}]
    /\ latest \in [Blocks -> Values] /\ spoiled \subseteq Blocks
    /\ apart \in BOOLEAN /\ twice \in BOOLEAN

\* Two processes never have the same buffer: "If the Buf is used for now, we must wait for
\* it be freed" (line 106).  Only a hit locks the buffer, so the code does not keep this.
Exclusive == \A p, q \in Procs : \A b \in Bufs : Has(p, b) /\ Has(q, b) => p = q

\* No lock is left behind, whatever overlaps: a locked b_wait_free_lock has a process
\* on its way to the Brelse that unlocks it, a b_modify_lock one about to unlock it.
Unlocks(p, b) ==
    cur[p] = b /\ pc[p] \in {"recheck", "take", "islocked", "unlock"} \cup Using

LocksHeld ==
    \A b \in Bufs :
        /\ wait[b] => \E p \in Procs : Unlocks(p, b)
        /\ \A p \in Procs : modify[b] = p => cur[p] = b /\ pc[p] \in {"try", "take"}

\* The free list is a proper doubly linked list, of the buffers that nobody has.
FreeListOK ==
    apart /\ ~twice =>
        /\ FreeBufs = { b \in Bufs : \A p \in Procs : ~Has(p, b) }
        /\ \A l \in FreeBufs \cup {FreeHead} : avBack[avForw[l]] = l /\ avForw[avBack[l]] = l

\* B_DONE: the buffer holds what callers last stored in its block, so that Bread
\* returns that; a failed transfer concerns no block but its own.
Coherent ==
    apart => \A b \in Bufs :
        done[b] /\ blkno[b] \notin spoiled => mem[b] = latest[blkno[b]]

\* What callers last stored in a block is on the disk, or in a buffer that is marked
\* for a delayed write or is being written: eviction and Bflush lose nothing.
NothingLost ==
    apart => \A k \in Blocks \ spoiled :
        \/ disk[k] = latest[k]
        \/ \E b \in Bufs :
              /\ blkno[b] = k /\ mem[b] = latest[k]
              /\ delwri[b] \/ \E p \in Procs : cur[p] = b /\ pc[p] \in {"bwrite", "bio_write"}

\* A single user of the cache never gets a buffer twice, nor a second buffer for a
\* block, although it leaves buffers in the free list that it has taken from there.
OneUserIsApart == (\A p, q \in Procs : p = q) => apart

\* A process that found the buffer of its block in use gets to run again, or the cache
\* has stopped altogether.
WaitersProceed == \A p \in Procs : pc[p] = "wait" ~> pc[p] # "wait" \/ Lost
=============================================================================
