------------------------- MODULE BufferManagerProofs -------------------------
(***************************************************************************)
(* Theorems about BufferManager, for every number of buffers, blocks and   *)
(* processes and every set of values, with or without failing transfers    *)
(* and delayed writes, and however calls overlap.                          *)
(***************************************************************************)
EXTENDS BufferManager, WellFoundedInduction, TLAPS

Hits   == {"modify", "try", "wait", "recheck", "take"}
Misses == {"check", "pick", "free", "trydown", "down", "relink"}
Holds  == {"bio_read", "hold"}
Writes == {"bwrite", "bio_write"}

Once(s) == \A i, j \in DOMAIN s : s[i] = s[j] => i = j

\* A buffer is in the device queue, and once, exactly when it stands for a block.
InQueue ==
    /\ Once(devq)
    /\ \A b \in Bufs : blkno[b] # NoBlock <=> \E i \in DOMAIN devq : devq[i] = b

\* What a process has at its place, whatever the others do.
Placed(p) ==
    /\ pc[p] \in {"search", "again"} \cup Hits \cup Misses \cup Holds => want[p] \in Blocks
    /\ cont[p] \in {"again", "search"} => want[p] \in Blocks
    /\ pc[p] = "idle" => cont[p] = "idle"
    /\ pc[p] \in {"relink", "again"} \cup Hits \cup Using \cup Waking => cur[p] \in Bufs
    /\ pc[p] \in Hits \cup Holds \cup Writes => blkno[cur[p]] # NoBlock

TypeInv ==
    /\ TypeOK
    /\ InQueue
    /\ \A b \in Bufs : delwri[b] => blkno[b] # NoBlock
    /\ \A p \in Procs : Placed(p)

-----------------------------------------------------------------------------
(* The device queue.                                                        *)

Front(s, b, o, n) ==
    [j \in 1 .. n |-> IF j = 1 THEN b ELSE IF j <= o THEN s[j - 1] ELSE s[j]]

\* Everything before o moves back by one; what was at o, if anything, was b.
LEMMA FrontIs ==
    ASSUME NEW s \in Seq(Bufs), NEW b \in Bufs, NEW o \in 1 .. Len(s) + 1, NEW n \in Nat,
           Once(s),
           o \in 1 .. Len(s) => s[o] = b,
           \A j \in 1 .. Len(s) : s[j] = b => j = o,
           n = Len(s) \/ (n = Len(s) + 1 /\ o = n), o <= n
    PROVE  /\ Front(s, b, o, n) \in Seq(Bufs)
           /\ Once(Front(s, b, o, n))
           /\ \A c \in Bufs : (\E i \in DOMAIN Front(s, b, o, n) : Front(s, b, o, n)[i] = c)
                              <=> c = b \/ \E i \in DOMAIN s : s[i] = c
  <1> DEFINE f == [j \in 1 .. n |-> IF j = 1 THEN b ELSE IF j <= o THEN s[j - 1] ELSE s[j]]
  <1>1. PICK m \in Nat : m = Len(s) /\ DOMAIN s = 1 .. m
    OBVIOUS
  <1>2. \A i \in 1 .. m : s[i] \in Bufs
    BY <1>1
  <1>3. o \in Nat /\ 1 <= o /\ o <= m + 1 /\ (n = m \/ (n = m + 1 /\ o = n)) /\ o <= n
    BY <1>1
  <1>4. ASSUME NEW j \in 1 .. n, j # 1, j <= o
        PROVE  f[j] = s[j - 1] /\ j - 1 \in 1 .. m /\ j - 1 < o /\ f[j] \in Bufs /\ f[j] # b
    <2>1. j - 1 \in 1 .. m /\ j - 1 # o
      BY <1>3, <1>4
    <2>2. s[j - 1] \in Bufs /\ s[j - 1] # b
      BY <1>1, <1>2, <2>1
    <2> QED
      BY <1>3, <1>4, <2>1, <2>2
  <1>5. ASSUME NEW j \in 1 .. n, ~(j <= o)
        PROVE  f[j] = s[j] /\ j \in 1 .. m /\ j # 1 /\ o < j /\ f[j] \in Bufs /\ f[j] # b
    <2>1. j \in 1 .. m /\ j # o /\ j # 1 /\ o < j
      BY <1>3, <1>5
    <2>2. s[j] \in Bufs /\ s[j] # b
      BY <1>1, <1>2, <2>1
    <2> QED
      BY <1>5, <2>1, <2>2
  <1>6. DOMAIN f = 1 .. n /\ 1 \in 1 .. n /\ f[1] = b
    BY <1>3
  <1>7. f \in Seq(Bufs)
    <2>1. \A j \in 1 .. n : f[j] \in Bufs
      BY <1>4, <1>5, <1>6
    <2>2. f = [j \in 1 .. n |-> f[j]]
      OBVIOUS
    <2> HIDE DEF f
    <2> QED
      BY <2>1, <2>2
  <1> HIDE DEF f
  <1>8. ASSUME NEW i \in 1 .. n, NEW j \in 1 .. n, f[i] = f[j] PROVE i = j
    <2>1. \A x, y \in 1 .. m : s[x] = s[y] => x = y
      BY <1>1 DEF Once
    <2>2. CASE i = 1 \/ j = 1
      BY <1>4, <1>5, <1>6, <1>8, <2>2
    <2>3. CASE i # 1 /\ j # 1 /\ i <= o /\ j <= o
      <3>1. i - 1 = j - 1
        BY <1>4, <1>8, <2>1, <2>3
      <3> QED
        BY <3>1
    <2>4. CASE i # 1 /\ j # 1 /\ i <= o /\ ~(j <= o)
      <3>1. i - 1 = j /\ i - 1 < o /\ o < j
        BY <1>4, <1>5, <1>8, <2>1, <2>4
      <3> QED
        BY <1>3, <3>1
    <2>5. CASE i # 1 /\ j # 1 /\ ~(i <= o) /\ j <= o
      <3>1. i = j - 1 /\ j - 1 < o /\ o < i
        BY <1>4, <1>5, <1>8, <2>1, <2>5
      <3> QED
        BY <1>3, <3>1
    <2>6. CASE ~(i <= o) /\ ~(j <= o)
      BY <1>5, <1>8, <2>1, <2>6
    <2> QED
      BY <1>5, <2>2, <2>3, <2>4, <2>5, <2>6
  <1>9. ASSUME NEW c \in Bufs
        PROVE  (\E i \in DOMAIN f : f[i] = c) <=> c = b \/ \E i \in DOMAIN s : s[i] = c
    <2>1. ASSUME NEW i \in 1 .. n, f[i] = c PROVE c = b \/ \E j \in 1 .. m : s[j] = c
      <3>1. CASE i = 1
        BY <1>6, <2>1, <3>1
      <3>2. CASE i # 1 /\ i <= o
        BY <1>4, <2>1, <3>2
      <3>3. CASE ~(i <= o)
        BY <1>5, <2>1, <3>3
      <3> QED
        BY <3>1, <3>2, <3>3
    <2>2. ASSUME c = b PROVE \E i \in 1 .. n : f[i] = c
      BY <1>6, <2>2
    <2>3. ASSUME NEW i \in 1 .. m, s[i] = c, c # b PROVE \E j \in 1 .. n : f[j] = c
      <3>1. CASE i < o
        <4>1. PICK j \in 1 .. n : j = i + 1
          BY <1>3, <3>1
        <4>2. j # 1 /\ j <= o /\ j - 1 = i
          BY <1>3, <3>1, <4>1
        <4> QED
          BY <1>4, <2>3, <4>2
      <3>2. CASE o < i
        <4>1. i \in 1 .. n /\ ~(i <= o)
          BY <1>3, <3>2
        <4> QED
          BY <1>5, <2>3, <4>1
      <3>3. i # o
        BY <1>1, <2>3
      <3> QED
        BY <1>3, <3>1, <3>2, <3>3
    <2> QED
      BY <1>1, <1>6, <2>1, <2>2, <2>3
  <1>10. DOMAIN f = 1 .. n
    BY <1>6
  <1>11. Once(f)
    BY <1>8, <1>10 DEF Once
  <1>12. f = Front(s, b, o, n)
    BY DEF f, Front
  <1> QED
    BY <1>7, <1>9, <1>11, <1>12

\* A buffer that comes to the front of a queue without duplicates leaves its old
\* place: the queue has the same buffers and that one, each once.
LEMMA ToFrontIs ==
    ASSUME NEW s \in Seq(Bufs), NEW b \in Bufs, Once(s)
    PROVE  /\ ToFront(s, b) \in Seq(Bufs)
           /\ Once(ToFront(s, b))
           /\ \A c \in Bufs : (\E i \in DOMAIN ToFront(s, b) : ToFront(s, b)[i] = c)
                              <=> c = b \/ \E i \in DOMAIN s : s[i] = c
  <1> DEFINE old == { i \in DOMAIN s : s[i] = b } \cup {Len(s) + 1}
             o == CHOOSE i \in old : \A j \in old : i <= j
             n == IF o > Len(s) THEN o ELSE Len(s)
  <1>1. Len(s) \in Nat /\ DOMAIN s = 1 .. Len(s) /\ \A i \in DOMAIN s : s[i] \in Bufs
    OBVIOUS
  <1>2. ToFront(s, b) = Front(s, b, o, n)
    BY DEF ToFront, Front
  <1>3. \E i \in old : \A j \in old : i <= j
    <2> USE DEF Once
    <2>1. CASE \E i \in DOMAIN s : s[i] = b
      <3>1. PICK i \in DOMAIN s : s[i] = b
        BY <2>1
      <3>2. old = {i, Len(s) + 1}
        BY <3>1
      <3> QED
        BY <1>1, <3>1, <3>2
    <2>2. CASE ~ \E i \in DOMAIN s : s[i] = b
      <3>1. old = {Len(s) + 1}
        BY <2>2
      <3> QED
        BY <1>1, <3>1
    <2> QED
      BY <2>1, <2>2
  <1>4. o \in old /\ \A j \in old : o <= j
    <2> HIDE DEF old
    <2> QED
      BY <1>3
  <1>5. /\ o \in 1 .. Len(s) + 1
        /\ o \in 1 .. Len(s) => s[o] = b
        /\ \A j \in 1 .. Len(s) : s[j] = b => j = o
    <2>1. Len(s) + 1 \in old /\ \A j \in DOMAIN s : s[j] = b => j \in old
      OBVIOUS
    <2>2. (o \in DOMAIN s /\ s[o] = b) \/ o = Len(s) + 1
      BY <1>4
    <2> HIDE DEF old, o
    <2>3. o \in 1 .. Len(s) + 1 /\ (o \in 1 .. Len(s) => s[o] = b)
      BY <1>1, <2>2
    <2>4. ASSUME NEW j \in 1 .. Len(s), s[j] = b PROVE j = o
      <3>1. o <= j
        BY <1>1, <1>4, <2>1, <2>4
      <3>2. o \in DOMAIN s
        BY <1>1, <2>3, <3>1
      <3> QED
        BY <1>1, <2>3, <2>4, <3>2 DEF Once
    <2> QED
      BY <2>3, <2>4
  <1> HIDE DEF o
  <1>6. n \in Nat /\ (n = Len(s) \/ (n = Len(s) + 1 /\ o = n)) /\ o <= n
    <2>1. n = IF o > Len(s) THEN o ELSE Len(s)
      OBVIOUS
    <2> HIDE DEF n, old
    <2>2. PICK m \in Nat : m = Len(s)
      BY <1>1
    <2>3. o \in Nat /\ o <= m + 1
      BY <1>5, <2>2
    <2>4. CASE o > m
      BY <2>1, <2>2, <2>3, <2>4
    <2>5. CASE ~(o > m)
      BY <2>1, <2>2, <2>3, <2>5
    <2> QED
      BY <2>4, <2>5
  <1> HIDE DEF n
  <1> HIDE DEF old
  <1>7. o \in 1 .. Len(s) => s[o] = b
    BY <1>5
  <1>8. \A j \in 1 .. Len(s) : s[j] = b => j = o
    BY <1>5
  <1>9. o \in 1 .. Len(s) + 1 /\ n \in Nat /\ o <= n /\ (n = Len(s) \/ (n = Len(s) + 1 /\ o = n))
    BY <1>5, <1>6
  <1> QED
    BY <1>2, <1>7, <1>8, <1>9, FrontIs

-----------------------------------------------------------------------------
(* Type correctness.                                                        *)

LEMMA TypeInit == Init => TypeInv
  <1> SUFFICES ASSUME Init PROVE TypeInv
    OBVIOUS
  <1> USE CacheAssumption DEF Init, Bufs, Links, Blocks, NoBlock, FreeHead
  <1>1. avForw \in [Links -> Links] /\ avBack \in [Links -> Links]
    OBVIOUS
  <1>2. devq \in Seq(Bufs) /\ DOMAIN devq = {}
    OBVIOUS
  <1>3. TypeOK
    BY <1>1, <1>2 DEF TypeOK, Searching, Using
  <1>4. InQueue
    BY <1>2 DEF InQueue, Once
  <1>5. \A p \in Procs : Placed(p)
    BY DEF Placed, Hits, Misses, Holds, Writes, Using, Waking
  <1> QED
    BY <1>3, <1>4, <1>5 DEF TypeInv

LEMMA TypeStep ==
    ASSUME TypeInv, NEW p \in Procs, Call(p) \/ Proceed(p)
    PROVE  TypeInv'
  <1> USE CacheAssumption DEF TypeInv, TypeOK, Placed, list, queue, flags, data, locks, call, hist,
          Goto, Point, Start, Then, StaysApart, Searching, Using, Waking, Hits, Misses, Holds,
          Writes, NoBlock
  <1>1. NoBlock \notin Blocks /\ FreeHead \notin Bufs /\ FreeHead \in Links /\ Bufs \subseteq Links
    BY DEF Blocks, Bufs, Links, FreeHead
  <1>2. CASE Flush(p)
    BY <1>1, <1>2 DEF Flush, InQueue
  <1>3. ASSUME NEW o \in {"read", "get"}, NEW k \in Blocks, Ask(p, o, k) PROVE TypeInv'
    BY <1>1, <1>3 DEF Ask, InQueue
  <1>4. CASE Hit(p)
    BY <1>1, <1>4 DEF Hit, Cached, InQueue
  <1>5. CASE LockModify(p)
    BY <1>1, <1>5 DEF LockModify, InQueue
  <1>6. CASE TryFree(p)
    BY <1>1, <1>6 DEF TryFree, InQueue
  <1>7. CASE TryBusy(p)
    BY <1>1, <1>7 DEF TryBusy, InQueue
  <1>8. CASE WaitFree(p)
    BY <1>1, <1>8 DEF WaitFree, InQueue
  <1>9. CASE RecheckSame(p)
    BY <1>1, <1>9 DEF RecheckSame, InQueue
  <1>10. CASE RecheckOther(p)
    BY <1>1, <1>10 DEF RecheckOther, InQueue
  <1>11. CASE TakeHit(p)
    BY <1>1, <1>11 DEF TakeHit, NotAvail, Found, InQueue
  <1>12. CASE Miss(p)
    BY <1>1, <1>12 DEF Miss, InQueue
  <1>13. CASE CheckEmpty(p)
    BY <1>1, <1>13 DEF CheckEmpty, InQueue
  <1>14. CASE TryDown(p)
    BY <1>1, <1>14 DEF TryDown, Lowered, InQueue
  <1>15. CASE Down(p)
    BY <1>1, <1>15 DEF Down, InQueue
  <1>16. CASE CheckSome(p)
    BY <1>1, <1>16 DEF CheckSome, InQueue
  <1>17. CASE Pick(p)
    BY <1>1, <1>17 DEF Pick, InQueue
  <1>18. CASE TakeFree(p)
    <2>0. cur[p] \in Bufs
      BY <1>1, <1>18 DEF TakeFree, Links
    <2>1. CASE delwri[cur[p]]
      BY <1>1, <1>18, <2>0, <2>1 DEF TakeFree, NotAvail, InQueue
    <2>2. CASE ~delwri[cur[p]]
      BY <1>1, <1>18, <2>0, <2>2 DEF TakeFree, NotAvail, InQueue
    <2> QED
      BY <2>1, <2>2
  <1>19. CASE TakeHead(p)
    BY <1>1, <1>19 DEF TakeHead, InQueue
  <1>20. CASE Relink(p)
    <2>1. cur[p] \in Bufs /\ want[p] \in Blocks
      BY <1>1, <1>20 DEF Relink
    <2>2. /\ devq' \in Seq(Bufs)
          /\ Once(devq')
          /\ \A c \in Bufs : (\E i \in DOMAIN devq' : devq'[i] = c)
                             <=> c = cur[p] \/ \E i \in DOMAIN devq : devq[i] = c
      <3>1. devq \in Seq(Bufs)
        OBVIOUS
      <3>2. Once(devq)
        BY DEF InQueue
      <3>3. devq' = ToFront(devq, cur[p])
        BY <1>20 DEF Relink
      <3> HIDE DEF TypeInv, TypeOK, Placed
      <3> DEFINE q == ToFront(devq, cur[p])
      <3>4. q \in Seq(Bufs) /\ Once(q)
        BY <2>1, <3>1, <3>2, ToFrontIs
      <3>5. \A c \in Bufs : (\E i \in DOMAIN q : q[i] = c)
                            <=> c = cur[p] \/ \E i \in DOMAIN devq : devq[i] = c
        BY <2>1, <3>1, <3>2, ToFrontIs
      <3> HIDE DEF q
      <3>6. devq' = q
        BY <3>3 DEF q
      <3> QED
        BY <3>4, <3>5, <3>6
    <2>3. blkno' = [blkno EXCEPT ![cur[p]] = want[p]]
      BY <1>20 DEF Relink
    <2>4. InQueue'
      BY <1>1, <2>1, <2>2, <2>3 DEF InQueue
    <2> QED
      BY <1>1, <1>20, <2>1, <2>2, <2>4 DEF Relink, Found
  <1>21. CASE BioRead(p)
    BY <1>1, <1>21 DEF BioRead, InQueue
  <1>22. CASE BioReadFails(p)
    BY <1>1, <1>22 DEF BioReadFails, InQueue
  <1>23. CASE Bwrite(p)
    BY <1>1, <1>23 DEF Bwrite, InQueue
  <1>24. CASE BioWrite(p)
    BY <1>1, <1>24 DEF BioWrite, InQueue
  <1>25. CASE BioWriteFails(p)
    BY <1>1, <1>25 DEF BioWriteFails, InQueue
  <1>26. CASE EndUse(p)
    BY <1>1, <1>26 DEF EndUse, InQueue
  <1>27. ASSUME NEW v \in Values, StoreBwrite(p, v) PROVE TypeInv'
    BY <1>1, <1>27 DEF StoreBwrite, Store, InQueue
  <1>28. ASSUME NEW v \in Values, StoreBdwrite(p, v) PROVE TypeInv'
    BY <1>1, <1>28 DEF StoreBdwrite, Store, InQueue
  <1>29. CASE Release(p)
    <2>1. cur[p] \in Bufs
      BY <1>29 DEF Release
    <2>2. avForw' \in [Links -> Links] /\ avBack' \in [Links -> Links]
      BY <1>1, <1>29, <2>1 DEF Release, Linked
    <2>3. InQueue'
      BY <1>29 DEF Release, InQueue
    <2>4. TypeOK'
      BY <1>29, <2>2 DEF Release
    <2>5. \A q \in Procs : Placed(q)'
      BY <1>29, <2>1 DEF Release
    <2>6. \A b \in Bufs : delwri'[b] => blkno'[b] # NoBlock
      BY <1>29 DEF Release
    <2> QED
      BY <2>3, <2>4, <2>5, <2>6
  <1>30. CASE ReleaseAgain(p)
    <2>1. cur[p] \in Bufs
      BY <1>30 DEF ReleaseAgain
    <2>2. avForw' \in [Links -> Links] /\ avBack' \in [Links -> Links]
      BY <1>1, <1>30, <2>1 DEF ReleaseAgain, Linked
    <2>3. InQueue'
      BY <1>30 DEF ReleaseAgain, InQueue
    <2>4. TypeOK'
      BY <1>30, <2>2 DEF ReleaseAgain
    <2>5. \A q \in Procs : Placed(q)'
      BY <1>30, <2>1 DEF ReleaseAgain
    <2>6. \A b \in Bufs : delwri'[b] => blkno'[b] # NoBlock
      BY <1>30 DEF ReleaseAgain
    <2> QED
      BY <2>3, <2>4, <2>5, <2>6
  <1>31. CASE IsLocked(p)
    BY <1>1, <1>31 DEF IsLocked, InQueue
  <1>32. CASE Unlock(p)
    BY <1>1, <1>32 DEF Unlock, InQueue
  <1>33. CASE TryDownFree(p)
    BY <1>1, <1>33 DEF TryDownFree, Lowered, InQueue
  <1>34. CASE Up(p)
    <2>0. sem + 1 \in Nat /\ cont[p] \in {"idle", "again", "search", "flush"}
      OBVIOUS
    <2>1. CASE cont[p] = "idle"
      BY SMTT(30), <1>1, <1>34, <2>1 DEF Up, Resume, Leave, InQueue
    <2>2. CASE cont[p] # "idle"
      <3>1. /\ pc[p] = "up" /\ pc' = [pc EXCEPT ![p] = cont[p]]
            /\ cont' = [cont EXCEPT ![p] = "idle"] /\ sem' = sem + 1
            /\ UNCHANGED <<list, queue, flags, data, modify, wait, cur, op, want, hist>>
        BY <1>34, <2>2 DEF Up, Resume
      <3>2. TypeOK' /\ InQueue' /\ \A b \in Bufs : delwri'[b] => blkno'[b] # NoBlock
        BY <2>0, <3>1 DEF InQueue
      <3>3. cur[p] \in Bufs /\ (cont[p] \in {"again", "search"} => want[p] \in Blocks)
        BY <3>1
      <3>4. \A q \in Procs : Placed(q)'
        BY <2>0, <2>2, <3>1, <3>3
      <3> QED
        BY <3>2, <3>4
    <2> QED
      BY <2>1, <2>2
  <1>35. CASE FlushOne(p)
    BY <1>1, <1>35 DEF FlushOne, NotAvail, Dirty, InQueue
  <1>36. CASE FlushEnd(p)
    BY <1>1, <1>36 DEF FlushEnd, Leave, InQueue
  <1> QED
    BY <1>2, <1>3, <1>4, <1>5, <1>6, <1>7, <1>8, <1>9, <1>10, <1>11, <1>12, <1>13, <1>14,
       <1>15, <1>16, <1>17, <1>18, <1>19, <1>20, <1>21, <1>22, <1>23, <1>24, <1>25, <1>26,
       <1>27, <1>28, <1>29, <1>30, <1>31, <1>32, <1>33, <1>34, <1>35, <1>36
       DEF Call, Proceed, GetBlk, Bio, Use, Brelse, Bflush

LEMMA TypeNext == TypeInv /\ [Next]_vars => TypeInv'
  <1> SUFFICES ASSUME TypeInv, [Next]_vars PROVE TypeInv'
    OBVIOUS
  <1>1. CASE Next
    BY <1>1, TypeStep DEF Next
  <1>2. CASE UNCHANGED vars
    BY <1>2 DEF vars, list, queue, flags, data, locks, call, hist, TypeInv, TypeOK, InQueue, Placed
  <1> QED
    BY <1>1, <1>2

LEMMA TypeInvCorrect == Spec => []TypeInv
  BY TypeInit, TypeNext, PTL DEF Spec

\* The pointers of the free list are buffers or the head, a process in a call with a
\* buffer has one of the cache that stands for a block, and the semaphore is never below
\* 0, whoever calls.
THEOREM TypeCorrect == Spec => []TypeOK
  <1>1. TypeInv => TypeOK
    BY DEF TypeInv
  <1> QED
    BY <1>1, TypeInvCorrect, PTL

-----------------------------------------------------------------------------
(* The locks of the buffers.                                                *)

LEMMA LocksStep ==
    ASSUME TypeInv, LocksHeld, NEW p \in Procs, Call(p) \/ Proceed(p)
    PROVE  LocksHeld'
  <1> DEFINE Ready(b) == /\ wait[b] => \E r \in Procs : Unlocks(r, b)
                         /\ \A r \in Procs : modify[b] = r => cur[r] = b /\ pc[r] \in {"try", "take"}
             G == \A b \in Bufs : Ready(b)'
  <1> SUFFICES G
    BY DEF LocksHeld
  <1>1. \A b \in Bufs : Ready(b)
    BY DEF LocksHeld
  <1>2. /\ pc \in [Procs -> {"idle", "modify", "try", "wait", "recheck", "take", "flush",
                             "again", "lost"} \cup Searching \cup Using \cup Waking]
        /\ cur \in [Procs -> Links]
        /\ modify \in [Bufs -> Procs \cup {NoProc}] /\ wait \in [Bufs -> BOOLEAN]
        /\ NoProc \notin Procs
    BY CacheAssumption DEF TypeInv, TypeOK
  <1>3. pc[p] \in Hits \cup Using \cup Waking => cur[p] \in Bufs
    BY DEF TypeInv, Placed
  <1>4. FreeHead \notin Bufs
    BY DEF Bufs, FreeHead
  <1> USE DEF Goto, Point, Start, Then, Searching, Using, Waking, Hits, Unlocks,
              list, queue, flags, data, locks, call, hist
  <1>5. CASE Flush(p)
    BY <1>1, <1>2, <1>3, <1>4, <1>5 DEF Flush
  <1>6. ASSUME NEW o \in {"read", "get"}, NEW k \in Blocks, Ask(p, o, k) PROVE G
    BY <1>1, <1>2, <1>3, <1>4, <1>6 DEF Ask
  <1>7. CASE Hit(p)
    BY <1>1, <1>2, <1>3, <1>4, <1>7 DEF Hit
  <1>8. CASE LockModify(p)
    BY <1>1, <1>2, <1>3, <1>4, <1>8 DEF LockModify
  <1>9. CASE TryFree(p)
    BY <1>1, <1>2, <1>3, <1>4, <1>9 DEF TryFree
  <1>10. CASE TryBusy(p)
    BY <1>1, <1>2, <1>3, <1>4, <1>10 DEF TryBusy
  <1>11. CASE WaitFree(p)
    BY <1>1, <1>2, <1>3, <1>4, <1>11 DEF WaitFree
  <1>12. CASE RecheckSame(p)
    BY <1>1, <1>2, <1>3, <1>4, <1>12 DEF RecheckSame
  <1>13. CASE RecheckOther(p)
    BY <1>1, <1>2, <1>3, <1>4, <1>13 DEF RecheckOther
  <1>14. CASE TakeHit(p)
    BY <1>1, <1>2, <1>3, <1>4, <1>14 DEF TakeHit, Found
  <1>15. CASE Miss(p)
    BY <1>1, <1>2, <1>3, <1>4, <1>15 DEF Miss
  <1>16. CASE CheckEmpty(p)
    BY <1>1, <1>2, <1>3, <1>4, <1>16 DEF CheckEmpty
  <1>17. CASE TryDown(p)
    BY <1>1, <1>2, <1>3, <1>4, <1>17 DEF TryDown
  <1>18. CASE Down(p)
    BY <1>1, <1>2, <1>3, <1>4, <1>18 DEF Down
  <1>19. CASE CheckSome(p)
    BY <1>1, <1>2, <1>3, <1>4, <1>19 DEF CheckSome
  <1>20. CASE Pick(p)
    BY <1>1, <1>2, <1>3, <1>4, <1>20 DEF Pick
  <1>21. CASE TakeFree(p)
    BY <1>1, <1>2, <1>3, <1>4, <1>21 DEF TakeFree
  <1>22. CASE TakeHead(p)
    BY <1>1, <1>2, <1>3, <1>4, <1>22 DEF TakeHead
  <1>23. CASE Relink(p)
    BY <1>1, <1>2, <1>3, <1>4, <1>23 DEF Relink, Found
  <1>24. CASE BioRead(p)
    BY <1>1, <1>2, <1>3, <1>4, <1>24 DEF BioRead
  <1>25. CASE BioReadFails(p)
    BY <1>1, <1>2, <1>3, <1>4, <1>25 DEF BioReadFails
  <1>26. CASE Bwrite(p)
    BY <1>1, <1>2, <1>3, <1>4, <1>26 DEF Bwrite
  <1>27. CASE BioWrite(p)
    BY <1>1, <1>2, <1>3, <1>4, <1>27 DEF BioWrite
  <1>28. CASE BioWriteFails(p)
    BY <1>1, <1>2, <1>3, <1>4, <1>28 DEF BioWriteFails
  <1>29. CASE EndUse(p)
    BY <1>1, <1>2, <1>3, <1>4, <1>29 DEF EndUse
  <1>30. ASSUME NEW v \in Values, StoreBwrite(p, v) PROVE G
    BY <1>1, <1>2, <1>3, <1>4, <1>30 DEF StoreBwrite, Store
  <1>31. ASSUME NEW v \in Values, StoreBdwrite(p, v) PROVE G
    BY <1>1, <1>2, <1>3, <1>4, <1>31 DEF StoreBdwrite, Store
  <1>32. CASE Release(p)
    BY <1>1, <1>2, <1>3, <1>4, <1>32 DEF Release
  <1>33. CASE ReleaseAgain(p)
    BY <1>1, <1>2, <1>3, <1>4, <1>33 DEF ReleaseAgain
  <1>34. CASE IsLocked(p)
    BY <1>1, <1>2, <1>3, <1>4, <1>34 DEF IsLocked
  <1>35. CASE Unlock(p)
    BY <1>1, <1>2, <1>3, <1>4, <1>35 DEF Unlock
  <1>36. CASE TryDownFree(p)
    BY <1>1, <1>2, <1>3, <1>4, <1>36 DEF TryDownFree
  <1>37. CASE Up(p)
    BY <1>1, <1>2, <1>3, <1>4, <1>37 DEF Up, Resume, Leave
  <1>38. CASE FlushOne(p)
    BY <1>1, <1>2, <1>3, <1>4, <1>38 DEF FlushOne
  <1>39. CASE FlushEnd(p)
    BY <1>1, <1>2, <1>3, <1>4, <1>39 DEF FlushEnd, Leave
  <1> QED
    BY <1>5, <1>6, <1>7, <1>8, <1>9, <1>10, <1>11, <1>12, <1>13, <1>14, <1>15, <1>16, <1>17,
       <1>18, <1>19, <1>20, <1>21, <1>22, <1>23, <1>24, <1>25, <1>26, <1>27, <1>28, <1>29,
       <1>30, <1>31, <1>32, <1>33, <1>34, <1>35, <1>36, <1>37, <1>38, <1>39
       DEF Call, Proceed, GetBlk, Bio, Use, Brelse, Bflush

LEMMA LocksNext == TypeInv /\ LocksHeld /\ [Next]_vars => LocksHeld'
  <1> SUFFICES ASSUME TypeInv, LocksHeld, [Next]_vars PROVE LocksHeld'
    OBVIOUS
  <1>1. CASE Next
    BY <1>1, LocksStep DEF Next
  <1>2. CASE UNCHANGED vars
    BY <1>2 DEF vars, locks, LocksHeld, Unlocks
  <1> QED
    BY <1>1, <1>2

\* A lock that is left behind would stop every later search for the buffer: there is
\* always a process that will unlock it, however hits, misses and releases overlap.
THEOREM LocksCorrect == Spec => []LocksHeld
  <1>1. Init => LocksHeld
    BY CacheAssumption DEF Init, LocksHeld
  <1> QED
    BY <1>1, TypeInvCorrect, LocksNext, PTL DEF Spec

-----------------------------------------------------------------------------
(* As long as apart holds: who has which buffer, and for which block.       *)

\* What has ended does not come back.
LEMMA Ends ==
    ASSUME NEW p \in Procs, Call(p) \/ Proceed(p)
    PROVE  (apart' => apart) /\ (twice => twice')
  <1> USE DEF Call, Proceed, GetBlk, Bio, Use, Brelse, Bflush, hist, Flush, Ask, Hit, LockModify,
           TryFree, TryBusy, WaitFree, RecheckSame, RecheckOther, TakeHit, Miss, CheckEmpty,
           TryDown, Down, CheckSome, Pick, TakeFree, TakeHead, Relink, BioRead, BioReadFails,
           Bwrite, BioWrite, BioWriteFails, EndUse, StoreBwrite, StoreBdwrite, Release,
           ReleaseAgain, IsLocked, Unlock, TryDownFree, Up, FlushOne, FlushEnd, StaysApart
  <1>1. apart' => apart
    OBVIOUS
  <1>2. twice => twice'
    OBVIOUS
  <1> QED
    BY <1>1, <1>2

OneBuf == \A b, c \in Bufs : blkno[b] = blkno[c] /\ blkno[b] # NoBlock => b = c

\* The buffer a caller uses stands for the block it has asked for.
OwnBlock(p) == pc[p] \in Holds => blkno[cur[p]] = want[p]

UseInv == apart => Exclusive /\ OneBuf /\ \A p \in Procs : OwnBlock(p)

LEMMA UseStep ==
    ASSUME TypeInv, UseInv, NEW p \in Procs, Call(p) \/ Proceed(p)
    PROVE  UseInv'
  <1> DEFINE G == /\ \A r, s \in Procs : \A b \in Bufs : Has(r, b)' /\ Has(s, b)' => r = s
                  /\ OneBuf'
                  /\ \A r \in Procs : OwnBlock(r)'
  <1> SUFFICES ASSUME apart' PROVE G
    BY DEF UseInv, Exclusive
  <1>1. apart
    BY Ends
  <1>2. /\ \A r, s \in Procs : \A b \in Bufs : Has(r, b) /\ Has(s, b) => r = s
        /\ OneBuf
        /\ \A r \in Procs : OwnBlock(r)
    BY <1>1 DEF UseInv, Exclusive
  <1>3. /\ pc \in [Procs -> {"idle", "modify", "try", "wait", "recheck", "take", "flush",
                             "again", "lost"} \cup Searching \cup Using \cup Waking]
        /\ cur \in [Procs -> Links] /\ want \in [Procs -> Blocks \cup {NoBlock}]
        /\ cont \in [Procs -> {"idle", "again", "search", "flush"}]
        /\ blkno \in [Bufs -> Blocks \cup {NoBlock}]
    BY DEF TypeInv, TypeOK
  <1>4. /\ pc[p] \in {"relink"} \cup Hits \cup Using \cup Waking => cur[p] \in Bufs
        /\ pc[p] = "relink" => want[p] \in Blocks
        /\ \A r \in Procs : pc[r] \in Holds => cur[r] \in Bufs
    BY DEF TypeInv, Placed, Misses, Holds, Using
  <1>5. FreeHead \notin Bufs /\ NoBlock \notin Blocks
    BY DEF Bufs, FreeHead, Blocks, NoBlock
  <1> USE DEF Goto, Point, Start, Then, Searching, Using, Waking, Hits, Holds, Has, OwnBlock,
              list, queue, flags, data, locks, call, hist
  <1> HIDE DEF G
  <1>6. CASE Flush(p)
    BY <1>2, <1>3, <1>4, <1>5, <1>6 DEF G, OneBuf, Flush
  <1>7. ASSUME NEW o \in {"read", "get"}, NEW k \in Blocks, Ask(p, o, k) PROVE G
    BY <1>2, <1>3, <1>4, <1>5, <1>7 DEF G, OneBuf, Ask
  <1>8. CASE Hit(p)
    BY <1>2, <1>3, <1>4, <1>5, <1>8 DEF G, OneBuf, Hit
  <1>9. CASE LockModify(p)
    BY <1>2, <1>3, <1>4, <1>5, <1>9 DEF G, OneBuf, LockModify
  <1>10. CASE TryFree(p)
    BY <1>2, <1>3, <1>4, <1>5, <1>10 DEF G, OneBuf, TryFree
  <1>11. CASE TryBusy(p)
    BY <1>2, <1>3, <1>4, <1>5, <1>11 DEF G, OneBuf, TryBusy
  <1>12. CASE WaitFree(p)
    BY <1>2, <1>3, <1>4, <1>5, <1>12 DEF G, OneBuf, WaitFree
  <1>13. CASE RecheckSame(p)
    BY <1>2, <1>3, <1>4, <1>5, <1>13 DEF G, OneBuf, RecheckSame
  <1>14. CASE RecheckOther(p)
    BY <1>2, <1>3, <1>4, <1>5, <1>14 DEF G, OneBuf, RecheckOther
  <1>15. CASE TakeHit(p)
    BY <1>2, <1>3, <1>4, <1>5, <1>15 DEF G, OneBuf, TakeHit, Found, StaysApart, Alone
  <1>16. CASE Miss(p)
    BY <1>2, <1>3, <1>4, <1>5, <1>16 DEF G, OneBuf, Miss
  <1>17. CASE CheckEmpty(p)
    BY <1>2, <1>3, <1>4, <1>5, <1>17 DEF G, OneBuf, CheckEmpty
  <1>18. CASE TryDown(p)
    BY <1>2, <1>3, <1>4, <1>5, <1>18 DEF G, OneBuf, TryDown
  <1>19. CASE Down(p)
    BY <1>2, <1>3, <1>4, <1>5, <1>19 DEF G, OneBuf, Down
  <1>20. CASE CheckSome(p)
    BY <1>2, <1>3, <1>4, <1>5, <1>20 DEF G, OneBuf, CheckSome
  <1>21. CASE Pick(p)
    BY <1>2, <1>3, <1>4, <1>5, <1>21 DEF G, OneBuf, Pick
  <1>22. CASE TakeFree(p)
    BY <1>2, <1>3, <1>4, <1>5, <1>22 DEF G, OneBuf, TakeFree, StaysApart, Alone
  <1>23. CASE TakeHead(p)
    BY <1>2, <1>3, <1>4, <1>5, <1>23 DEF G, OneBuf, TakeHead
  <1>24. CASE Relink(p)
    <2>1. /\ pc[p] = "relink" /\ blkno' = [blkno EXCEPT ![cur[p]] = want[p]]
          /\ \A b \in Bufs \ {cur[p]} : blkno[b] # want[p]
          /\ UNCHANGED <<cur, want>>
          /\ pc'[p] \in Holds /\ \A r \in Procs \ {p} : pc'[r] = pc[r]
      BY <1>3, <1>24 DEF Relink, Found, StaysApart, Unnamed
    <2>2. OneBuf'
      BY <1>2, <1>3, <1>4, <2>1 DEF OneBuf
    <2>3. \A r, s \in Procs : \A b \in Bufs : Has(r, b)' /\ Has(s, b)' => r = s
      BY <1>2, <2>1
    <2>4. \A r \in Procs : OwnBlock(r)'
      BY <1>2, <1>3, <1>4, <2>1
    <2> QED
      BY <2>2, <2>3, <2>4 DEF G
  <1>25. CASE BioRead(p)
    BY <1>2, <1>3, <1>4, <1>5, <1>25 DEF G, OneBuf, BioRead
  <1>26. CASE BioReadFails(p)
    BY <1>2, <1>3, <1>4, <1>5, <1>26 DEF G, OneBuf, BioReadFails
  <1>27. CASE Bwrite(p)
    BY <1>2, <1>3, <1>4, <1>5, <1>27 DEF G, OneBuf, Bwrite
  <1>28. CASE BioWrite(p)
    BY <1>2, <1>3, <1>4, <1>5, <1>28 DEF G, OneBuf, BioWrite
  <1>29. CASE BioWriteFails(p)
    BY <1>2, <1>3, <1>4, <1>5, <1>29 DEF G, OneBuf, BioWriteFails
  <1>30. CASE EndUse(p)
    BY <1>2, <1>3, <1>4, <1>5, <1>30 DEF G, OneBuf, EndUse
  <1>31. ASSUME NEW v \in Values, StoreBwrite(p, v) PROVE G
    BY <1>2, <1>3, <1>4, <1>5, <1>31 DEF G, OneBuf, StoreBwrite, Store
  <1>32. ASSUME NEW v \in Values, StoreBdwrite(p, v) PROVE G
    BY <1>2, <1>3, <1>4, <1>5, <1>32 DEF G, OneBuf, StoreBdwrite, Store
  <1>33. CASE Release(p)
    BY <1>2, <1>3, <1>4, <1>5, <1>33 DEF G, OneBuf, Release
  <1>34. CASE ReleaseAgain(p)
    BY <1>2, <1>3, <1>4, <1>5, <1>34 DEF G, OneBuf, ReleaseAgain
  <1>35. CASE IsLocked(p)
    BY <1>2, <1>3, <1>4, <1>5, <1>35 DEF G, OneBuf, IsLocked
  <1>36. CASE Unlock(p)
    BY <1>2, <1>3, <1>4, <1>5, <1>36 DEF G, OneBuf, Unlock
  <1>37. CASE TryDownFree(p)
    BY <1>2, <1>3, <1>4, <1>5, <1>37 DEF G, OneBuf, TryDownFree
  <1>38. CASE Up(p)
    BY <1>2, <1>3, <1>4, <1>5, <1>38 DEF G, OneBuf, Up, Resume, Leave
  <1>39. CASE FlushOne(p)
    <2>1. PICK b \in Bufs : cur' = [cur EXCEPT ![p] = b] /\ StaysApart(Alone(p, b))
      BY <1>39 DEF FlushOne, Dirty
    <2>2. \A r \in Procs \ {p} : ~Has(r, b)
      BY <2>1 DEF StaysApart, Alone
    <2>3. pc' = [pc EXCEPT ![p] = "bwrite"] /\ UNCHANGED <<blkno, want>>
      BY <1>39 DEF FlushOne
    <2>4. \A r, s \in Procs : \A c \in Bufs : Has(r, c)' /\ Has(s, c)' => r = s
      BY <1>2, <1>3, <2>1, <2>2, <2>3
    <2>5. OneBuf' /\ \A r \in Procs : OwnBlock(r)'
      BY <1>2, <1>3, <2>1, <2>3 DEF OneBuf
    <2> QED
      BY <2>4, <2>5 DEF G
  <1>40. CASE FlushEnd(p)
    BY <1>2, <1>3, <1>4, <1>5, <1>40 DEF G, OneBuf, FlushEnd, Leave
  <1> QED
    BY <1>6, <1>7, <1>8, <1>9, <1>10, <1>11, <1>12, <1>13, <1>14, <1>15, <1>16, <1>17, <1>18,
       <1>19, <1>20, <1>21, <1>22, <1>23, <1>24, <1>25, <1>26, <1>27, <1>28, <1>29, <1>30,
       <1>31, <1>32, <1>33, <1>34, <1>35, <1>36, <1>37, <1>38, <1>39, <1>40
       DEF Call, Proceed, GetBlk, Bio, Use, Brelse, Bflush

LEMMA UseNext == TypeInv /\ UseInv /\ [Next]_vars => UseInv'
  <1> SUFFICES ASSUME TypeInv, UseInv, [Next]_vars PROVE UseInv'
    OBVIOUS
  <1>1. CASE Next
    BY <1>1, UseStep DEF Next
  <1>2. CASE UNCHANGED vars
    BY <1>2 DEF vars, queue, call, hist, UseInv, Exclusive, OneBuf, OwnBlock, Has
  <1> QED
    BY <1>1, <1>2

LEMMA UseInvCorrect == Spec => []UseInv
  <1>1. Init => UseInv
    BY DEF Init, UseInv, Exclusive, OneBuf, OwnBlock, Has, Holds, Using
  <1> QED
    BY <1>1, TypeInvCorrect, UseNext, PTL DEF Spec

-----------------------------------------------------------------------------
(* A single user of the cache.                                              *)

Single == \A p, q \in Procs : p = q

\* Nobody else changes what a search has found, or has not found.
OneUserInv ==
    Single => /\ apart
              /\ \A p \in Procs :
                   /\ pc[p] \in Hits => blkno[cur[p]] = want[p]
                   /\ pc[p] \in Misses => \A b \in Bufs : blkno[b] # want[p]

LEMMA OneUserStep ==
    ASSUME TypeInv, OneUserInv, NEW p \in Procs, Call(p) \/ Proceed(p)
    PROVE  OneUserInv'
  <1> DEFINE G == /\ apart'
                  /\ pc'[p] \in Hits => blkno'[cur'[p]] = want'[p]
                  /\ pc'[p] \in Misses => \A b \in Bufs : blkno'[b] # want'[p]
  <1> SUFFICES ASSUME Single PROVE G
    BY DEF OneUserInv, Single
  <1>1. /\ apart
        /\ pc[p] \in Hits => blkno[cur[p]] = want[p]
        /\ pc[p] \in Misses => \A b \in Bufs : blkno[b] # want[p]
        /\ Procs \ {p} = {}
    BY DEF OneUserInv, Single
  <1>2. /\ pc \in [Procs -> {"idle", "modify", "try", "wait", "recheck", "take", "flush",
                             "again", "lost"} \cup Searching \cup Using \cup Waking]
        /\ cur \in [Procs -> Links] /\ want \in [Procs -> Blocks \cup {NoBlock}]
        /\ cont \in [Procs -> {"idle", "again", "search", "flush"}]
        /\ blkno \in [Bufs -> Blocks \cup {NoBlock}]
    BY DEF TypeInv, TypeOK
  <1>3. ASSUME pc[p] = "search", Cached(want[p]) = {} PROVE \A b \in Bufs : blkno[b] # want[p]
    <2>1. want[p] \in Blocks /\ want[p] # NoBlock
      BY <1>3 DEF TypeInv, Placed, Blocks, NoBlock
    <2>2. \A b \in Bufs : blkno[b] # NoBlock => \E i \in DOMAIN devq : devq[i] = b
      BY DEF TypeInv, InQueue
    <2> QED
      BY <1>3, <2>1, <2>2 DEF Cached
  <1> USE DEF Goto, Point, Start, Then, Searching, Using, Waking, Hits, Misses,
              list, queue, flags, data, locks, call, hist
  <1>4. CASE Flush(p)
    BY <1>1, <1>2, <1>4 DEF Flush
  <1>5. ASSUME NEW o \in {"read", "get"}, NEW k \in Blocks, Ask(p, o, k) PROVE G
    BY <1>1, <1>2, <1>5 DEF Ask
  <1>6. CASE Hit(p)
    BY <1>1, <1>2, <1>6 DEF Hit, Cached
  <1>7. CASE LockModify(p)
    BY <1>1, <1>2, <1>7 DEF LockModify
  <1>8. CASE TryFree(p)
    BY <1>1, <1>2, <1>8 DEF TryFree
  <1>9. CASE TryBusy(p)
    BY <1>1, <1>2, <1>9 DEF TryBusy
  <1>10. CASE WaitFree(p)
    BY <1>1, <1>2, <1>10 DEF WaitFree
  <1>11. CASE RecheckSame(p)
    BY <1>1, <1>2, <1>11 DEF RecheckSame
  <1>12. CASE RecheckOther(p)
    BY <1>1, <1>2, <1>12 DEF RecheckOther
  <1>13. CASE TakeHit(p)
    BY <1>1, <1>2, <1>13 DEF TakeHit, Found, StaysApart, Alone
  <1>14. CASE Miss(p)
    BY <1>1, <1>2, <1>3, <1>14 DEF Miss
  <1>15. CASE CheckEmpty(p)
    BY <1>1, <1>2, <1>15 DEF CheckEmpty
  <1>16. CASE TryDown(p)
    BY <1>1, <1>2, <1>16 DEF TryDown
  <1>17. CASE Down(p)
    BY <1>1, <1>2, <1>17 DEF Down
  <1>18. CASE CheckSome(p)
    BY <1>1, <1>2, <1>18 DEF CheckSome
  <1>19. CASE Pick(p)
    BY <1>1, <1>2, <1>19 DEF Pick
  <1>20. CASE TakeFree(p)
    BY <1>1, <1>2, <1>20 DEF TakeFree, StaysApart, Alone
  <1>21. CASE TakeHead(p)
    BY <1>1, <1>2, <1>21 DEF TakeHead
  <1>22. CASE Relink(p)
    BY <1>1, <1>2, <1>22 DEF Relink, Found, StaysApart, Unnamed
  <1>23. CASE BioRead(p)
    BY <1>1, <1>2, <1>23 DEF BioRead
  <1>24. CASE BioReadFails(p)
    BY <1>1, <1>2, <1>24 DEF BioReadFails
  <1>25. CASE Bwrite(p)
    BY <1>1, <1>2, <1>25 DEF Bwrite
  <1>26. CASE BioWrite(p)
    BY <1>1, <1>2, <1>26 DEF BioWrite
  <1>27. CASE BioWriteFails(p)
    BY <1>1, <1>2, <1>27 DEF BioWriteFails
  <1>28. CASE EndUse(p)
    BY <1>1, <1>2, <1>28 DEF EndUse
  <1>29. ASSUME NEW v \in Values, StoreBwrite(p, v) PROVE G
    BY <1>1, <1>2, <1>29 DEF StoreBwrite, Store
  <1>30. ASSUME NEW v \in Values, StoreBdwrite(p, v) PROVE G
    BY <1>1, <1>2, <1>30 DEF StoreBdwrite, Store
  <1>31. CASE Release(p)
    BY <1>1, <1>2, <1>31 DEF Release
  <1>32. CASE ReleaseAgain(p)
    BY <1>1, <1>2, <1>32 DEF ReleaseAgain
  <1>33. CASE IsLocked(p)
    BY <1>1, <1>2, <1>33 DEF IsLocked
  <1>34. CASE Unlock(p)
    BY <1>1, <1>2, <1>34 DEF Unlock
  <1>35. CASE TryDownFree(p)
    BY <1>1, <1>2, <1>35 DEF TryDownFree
  <1>36. CASE Up(p)
    BY <1>1, <1>2, <1>36 DEF Up, Resume, Leave
  <1>37. CASE FlushOne(p)
    BY <1>1, <1>2, <1>37 DEF FlushOne, StaysApart, Alone
  <1>38. CASE FlushEnd(p)
    BY <1>1, <1>2, <1>38 DEF FlushEnd, Leave
  <1> QED
    BY <1>4, <1>5, <1>6, <1>7, <1>8, <1>9, <1>10, <1>11, <1>12, <1>13, <1>14, <1>15, <1>16,
       <1>17, <1>18, <1>19, <1>20, <1>21, <1>22, <1>23, <1>24, <1>25, <1>26, <1>27, <1>28,
       <1>29, <1>30, <1>31, <1>32, <1>33, <1>34, <1>35, <1>36, <1>37, <1>38
       DEF Call, Proceed, GetBlk, Bio, Use, Brelse, Bflush

LEMMA OneUserNext == TypeInv /\ OneUserInv /\ [Next]_vars => OneUserInv'
  <1> SUFFICES ASSUME TypeInv, OneUserInv, [Next]_vars PROVE OneUserInv'
    OBVIOUS
  <1>1. CASE Next
    BY <1>1, OneUserStep DEF Next
  <1>2. CASE UNCHANGED vars
    BY <1>2 DEF vars, queue, call, hist, OneUserInv
  <1> QED
    BY <1>1, <1>2

\* What the overlap of calls can do to a buffer, a single user never does to itself, not
\* even with the buffers that an eviction leaves in the free list and in use at once.
THEOREM OneUserCorrect == Spec => []OneUserIsApart
  <1>1. Init => OneUserInv
    BY DEF Init, OneUserInv, Hits, Misses
  <1>2. OneUserInv => OneUserIsApart
    BY DEF OneUserInv, OneUserIsApart, Single
  <1> QED
    BY <1>1, <1>2, TypeInvCorrect, OneUserNext, PTL DEF Spec

-----------------------------------------------------------------------------
(* The free list.                                                           *)

Closed(f, D) == FreeHead \in D /\ \A l \in D : f[l] \in D

\* The members of C, and no others, are linked into one ring that has the head of the
\* list in it: f leads forward, g back.
Ring(f, g, C) ==
    /\ C \subseteq Links /\ FreeHead \in C
    /\ \A l \in C : f[l] \in C /\ g[l] \in C /\ g[f[l]] = l /\ f[g[l]] = l
    /\ \A D \in SUBSET Links : Closed(f, D) => C \subseteq D

\* A walk from the head of a ring comes to every buffer of the ring and to no other.
LEMMA RingWalk ==
    ASSUME NEW C, Ring(avForw, avBack, C)
    PROVE  /\ FreeBufs = C \ {FreeHead}
           /\ \A l \in FreeBufs \cup {FreeHead} : avBack[avForw[l]] = l /\ avForw[avBack[l]] = l
  <1>1. /\ C \subseteq Links /\ FreeHead \in C
        /\ \A l \in C : avForw[l] \in C /\ avBack[avForw[l]] = l /\ avForw[avBack[l]] = l
    BY DEF Ring
  <1>2. ASSUME NEW b \in Bufs, Comes(b, {}) PROVE b \in C
    BY <1>1, <1>2 DEF Comes
  <1>3. ASSUME NEW b \in C \ {FreeHead} PROVE b \in Bufs /\ Comes(b, {})
    <2>1. b \in Bufs
      BY <1>1 DEF Links
    <2>2. ASSUME NEW D \in SUBSET Links, avForw[FreeHead] \in D,
                 \A c \in D \ ({} \cup {FreeHead}) : avForw[c] \in D
          PROVE  b \in D
      <3>1. D \cup {FreeHead} \in SUBSET Links
        BY DEF Links
      <3>2. Closed(avForw, D \cup {FreeHead})
        BY <2>2 DEF Closed
      <3>3. C \subseteq D \cup {FreeHead}
        BY <3>1, <3>2 DEF Ring
      <3> QED
        BY <1>3, <3>3
    <2>3. Comes(b, {})
      BY <2>2 DEF Comes
    <2> QED
      BY <2>1, <2>3
  <1>4. FreeHead \notin Bufs
    BY DEF FreeHead, Bufs
  <1>5. FreeBufs = C \ {FreeHead}
    BY <1>2, <1>3, <1>4 DEF FreeBufs
  <1> QED
    BY <1>1, <1>5

\* NotAvail takes b out of the ring and nothing else.
LEMMA RingWithout ==
    ASSUME NEW C, NEW b \in C, b # FreeHead,
           avForw \in [Links -> Links], avBack \in [Links -> Links],
           Ring(avForw, avBack, C), NotAvail(b)
    PROVE  Ring(avForw', avBack', C \ {b})
  <1> DEFINE f == avForw
             g == avBack
             E == C \ {b}
  <1>1. /\ C \subseteq Links /\ FreeHead \in C
        /\ \A l \in C : f[l] \in C /\ g[l] \in C /\ g[f[l]] = l /\ f[g[l]] = l
    BY DEF Ring
  <1>2. ASSUME NEW D \in SUBSET Links, Closed(f, D) PROVE C \subseteq D
    BY <1>2 DEF Ring
  <1>3. \A l \in Links : /\ avForw'[l] = IF l = g[b] THEN f[b] ELSE f[l]
                         /\ avBack'[l] = IF l = f[b] THEN g[b] ELSE g[l]
    BY <1>1 DEF NotAvail
  <1>4. f[b] # b /\ g[b] # b
    <2>1. SUFFICES ASSUME f[b] = b PROVE FALSE
      BY <1>1
    <2>2. Closed(f, E)
      BY <1>1, <2>1 DEF Closed
    <2>3. C \subseteq E
      BY <1>1, <1>2, <2>2
    <2> QED
      BY <2>3
  <1>5. ASSUME NEW l \in E
        PROVE  /\ avForw'[l] \in E /\ avBack'[l] \in E
               /\ avBack'[avForw'[l]] = l /\ avForw'[avBack'[l]] = l
    BY <1>1, <1>3, <1>4
  <1>6. ASSUME NEW D \in SUBSET Links, Closed(avForw', D) PROVE E \subseteq D
    <2>1. CASE g[b] \in D
      <3>1. D \cup {b} \in SUBSET Links /\ Closed(f, D \cup {b})
        BY <1>1, <1>3, <1>6, <2>1 DEF Closed
      <3>2. C \subseteq D \cup {b}
        BY <1>2, <3>1
      <3> QED
        BY <3>2
    <2>2. CASE g[b] \notin D
      <3>1. Closed(f, D)
        BY <1>3, <1>6, <2>2 DEF Closed
      <3> QED
        BY <1>1, <1>2, <2>2, <3>1
    <2> QED
      BY <2>1, <2>2
  <1>7. E \subseteq Links /\ FreeHead \in E
    BY <1>1
  <1> QED
    BY <1>5, <1>6, <1>7 DEF Ring

\* Brelse links b into the ring and nothing else.
LEMMA RingWith ==
    ASSUME NEW C, NEW b \in Links \ C,
           avForw \in [Links -> Links], avBack \in [Links -> Links],
           Ring(avForw, avBack, C), Linked(b)
    PROVE  Ring(avForw', avBack', C \cup {b})
  <1> DEFINE f == avForw
             g == avBack
             E == C \cup {b}
  <1>1. /\ C \subseteq Links /\ FreeHead \in C
        /\ \A l \in C : f[l] \in C /\ g[l] \in C /\ g[f[l]] = l /\ f[g[l]] = l
    BY DEF Ring
  <1>2. ASSUME NEW D \in SUBSET Links, Closed(f, D) PROVE C \subseteq D
    BY <1>2 DEF Ring
  <1>3. FreeHead \in Links /\ b # FreeHead /\ b # g[FreeHead] /\ g[FreeHead] \in C
    BY <1>1
  <1>4. \A l \in Links :
          /\ avForw'[l] = IF l = b THEN FreeHead ELSE IF l = g[FreeHead] THEN b ELSE f[l]
          /\ avBack'[l] = IF l = FreeHead THEN b ELSE IF l = b THEN g[FreeHead] ELSE g[l]
    BY <1>1, <1>3 DEF Linked
  <1>5. ASSUME NEW l \in E
        PROVE  /\ avForw'[l] \in E /\ avBack'[l] \in E
               /\ avBack'[avForw'[l]] = l /\ avForw'[avBack'[l]] = l
    BY <1>1, <1>3, <1>4
  <1>6. ASSUME NEW D \in SUBSET Links, Closed(avForw', D) PROVE E \subseteq D
    <2>1. Closed(f, D \cap C)
      BY <1>1, <1>3, <1>4, <1>6 DEF Closed
    <2>2. C \subseteq D
      BY <1>2, <2>1
    <2>3. b \in D
      BY <1>1, <1>3, <1>4, <1>6, <2>2 DEF Closed
    <2> QED
      BY <2>2, <2>3
  <1>7. E \subseteq Links /\ FreeHead \in E
    BY <1>1
  <1> QED
    BY <1>5, <1>6, <1>7 DEF Ring

\* A set of numbers that is not empty has a least one.
LEMMA LeastOf ==
    ASSUME NEW S \in SUBSET Nat, S # {}
    PROVE  \E n \in S : \A m \in S : n <= m
  <1> DEFINE R == { ss \in Nat \X Nat : ss[1] < ss[2] }
  <1>1. IsWellFoundedOn(R, Nat)
    BY NatLessThanWellFounded DEF OpToRel
  <1>2. PICK x \in S : \A y \in S : ~ (<<y, x>> \in R)
    <2> HIDE DEF R
    <2> QED
      BY <1>1, WFMin
  <1>3. ASSUME NEW y \in S PROVE x <= y
    <2>1. x \in Nat /\ y \in Nat
      OBVIOUS
    <2>2. ~(y < x)
      <3>1. <<y, x>> \in Nat \X Nat /\ <<y, x>>[1] = y /\ <<y, x>>[2] = x
        BY <2>1
      <3> QED
        BY <1>2, <3>1
    <2> QED
      BY <2>1, <2>2
  <1> QED
    BY <1>3

\* Initialize leaves every buffer in the ring.
LEMMA RingInit == Init => Ring(avForw, avBack, Links)
  <1> SUFFICES ASSUME Init PROVE Ring(avForw, avBack, Links)
    OBVIOUS
  <1> USE CacheAssumption DEF Bufs, Links, FreeHead
  <1>1. \A l \in Links : /\ avForw[l] = IF l = NBuf THEN 0 ELSE l + 1
                         /\ avBack[l] = IF l = 0 THEN NBuf ELSE l - 1
    BY DEF Init
  <1>2. \A l \in Links : /\ avForw[l] \in Links /\ avBack[l] \in Links
                         /\ avBack[avForw[l]] = l /\ avForw[avBack[l]] = l
    BY <1>1
  <1>3. ASSUME NEW D \in SUBSET Links, Closed(avForw, D) PROVE Links \subseteq D
    <2>1. SUFFICES ASSUME Links \ D # {} PROVE FALSE
      OBVIOUS
    <2>2. PICK n \in Links \ D : \A m \in Links \ D : n <= m
      <3>1. Links \ D \in SUBSET Nat
        OBVIOUS
      <3> QED
        BY <2>1, <3>1, LeastOf
    <2>3. n # 0 /\ n - 1 \in Links
      BY <1>3, <2>2 DEF Closed
    <2>4. n - 1 \in D
      BY <2>2, <2>3
    <2>5. avForw[n - 1] = n
      BY <1>1, <2>3
    <2> QED
      BY <1>3, <2>2, <2>4, <2>5 DEF Closed
  <1> QED
    BY <1>2, <1>3 DEF Ring

Listed == { l \in Links : \A p \in Procs : ~Has(p, l) }

\* The buffers nobody has are in the ring.
FreeInv == apart /\ ~twice => Ring(avForw, avBack, Listed)

LEMMA FreeStep ==
    ASSUME TypeInv, UseInv, FreeInv, NEW p \in Procs, Call(p) \/ Proceed(p)
    PROVE  FreeInv'
  <1> DEFINE Same == \A s \in Procs, l \in Links : Has(s, l)' <=> Has(s, l)
             G == Ring(avForw', avBack', Listed')
  <1> SUFFICES ASSUME apart', ~twice' PROVE G
    BY DEF FreeInv
  <1>1. FreeHead \notin Bufs /\ FreeHead \in Links /\ Bufs \subseteq Links
    BY DEF Bufs, Links, FreeHead
  <1>2. apart /\ ~twice
    BY Ends
  <1>3. Ring(avForw, avBack, Listed)
    BY <1>2 DEF FreeInv
  <1>4. \A r, s \in Procs : \A b \in Bufs : Has(r, b) /\ Has(s, b) => r = s
    BY <1>2 DEF UseInv, Exclusive
  <1>5. ASSUME Same, UNCHANGED list PROVE G
    <2>1. Listed' = Listed
      BY <1>5 DEF Listed
    <2> QED
      BY <1>3, <1>5, <2>1 DEF list
  <1>6. /\ pc \in [Procs -> {"idle", "modify", "try", "wait", "recheck", "take", "flush",
                             "again", "lost"} \cup Searching \cup Using \cup Waking]
        /\ cur \in [Procs -> Links]
        /\ avForw \in [Links -> Links] /\ avBack \in [Links -> Links]
        /\ cont \in [Procs -> {"idle", "again", "search", "flush"}]
    BY DEF TypeInv, TypeOK
  <1>7. pc[p] \in {"relink"} \cup Hits \cup Using => cur[p] \in Bufs
    BY DEF TypeInv, Placed
  <1> USE DEF Goto, Point, Start, Then, Searching, Using, Waking, Hits,
              list, queue, flags, data, locks, call, hist
  <1> HIDE DEF G
  <1>8. ASSUME NEW b \in Bufs, \A s \in Procs : ~Has(s, b), NotAvail(b), Has(p, b)',
               \A s \in Procs, l \in Links \ {b} : Has(s, l)' <=> Has(s, l)
        PROVE  G
    <2>1. Listed' = Listed \ {b} /\ b \in Listed /\ b # FreeHead
      BY <1>1, <1>8 DEF Listed
    <2> QED
      BY <1>3, <1>6, <1>8, <2>1, RingWithout DEF G
  <1>9. CASE Flush(p)
    <2>1. Same /\ UNCHANGED list
      BY <1>6, <1>9 DEF Flush, Has
    <2> QED
      BY <1>5, <2>1
  <1>10. ASSUME NEW o \in {"read", "get"}, NEW k \in Blocks, Ask(p, o, k) PROVE G
    <2>1. Same /\ UNCHANGED list
      BY <1>6, <1>10 DEF Ask, Has
    <2> QED
      BY <1>5, <2>1
  <1>11. CASE Hit(p)
    <2>1. Same /\ UNCHANGED list
      BY <1>6, <1>11 DEF Hit, Has
    <2> QED
      BY <1>5, <2>1
  <1>12. CASE LockModify(p)
    <2>1. Same /\ UNCHANGED list
      BY <1>6, <1>12 DEF LockModify, Has
    <2> QED
      BY <1>5, <2>1
  <1>13. CASE TryFree(p)
    <2>1. Same /\ UNCHANGED list
      BY <1>6, <1>13 DEF TryFree, Has
    <2> QED
      BY <1>5, <2>1
  <1>14. CASE TryBusy(p)
    <2>1. Same /\ UNCHANGED list
      BY <1>6, <1>14 DEF TryBusy, Has
    <2> QED
      BY <1>5, <2>1
  <1>15. CASE WaitFree(p)
    <2>1. Same /\ UNCHANGED list
      BY <1>6, <1>15 DEF WaitFree, Has
    <2> QED
      BY <1>5, <2>1
  <1>16. CASE RecheckSame(p)
    <2>1. Same /\ UNCHANGED list
      BY <1>6, <1>16 DEF RecheckSame, Has
    <2> QED
      BY <1>5, <2>1
  <1>17. CASE RecheckOther(p)
    <2>1. Same /\ UNCHANGED list
      BY <1>6, <1>17 DEF RecheckOther, Has
    <2> QED
      BY <1>5, <2>1
  <1>18. CASE TakeHit(p)
    <2>1. /\ pc[p] = "take" /\ cur[p] \in Bufs /\ NotAvail(cur[p]) /\ UNCHANGED cur
          /\ \E l \in {"bio_read", "hold"} : pc' = [pc EXCEPT ![p] = l]
          /\ Alone(p, cur[p])
      BY <1>7, <1>18 DEF TakeHit, Found, StaysApart
    <2>2. \A s \in Procs : ~Has(s, cur[p])
      BY <2>1 DEF Alone, Has
    <2>3. Has(p, cur[p])' /\ \A s \in Procs, l \in Links \ {cur[p]} : Has(s, l)' <=> Has(s, l)
      BY <1>6, <2>1 DEF Has
    <2> QED
      BY <1>8, <2>1, <2>2, <2>3
  <1>19. CASE Miss(p)
    <2>1. Same /\ UNCHANGED list
      BY <1>6, <1>19 DEF Miss, Has
    <2> QED
      BY <1>5, <2>1
  <1>20. CASE CheckEmpty(p)
    <2>1. Same /\ UNCHANGED list
      BY <1>6, <1>20 DEF CheckEmpty, Has
    <2> QED
      BY <1>5, <2>1
  <1>21. CASE TryDown(p)
    <2>1. Same /\ UNCHANGED list
      BY <1>6, <1>21 DEF TryDown, Has
    <2> QED
      BY <1>5, <2>1
  <1>22. CASE Down(p)
    <2>1. Same /\ UNCHANGED list
      BY <1>6, <1>22 DEF Down, Has
    <2> QED
      BY <1>5, <2>1
  <1>23. CASE CheckSome(p)
    <2>1. Same /\ UNCHANGED list
      BY <1>6, <1>23 DEF CheckSome, Has
    <2> QED
      BY <1>5, <2>1
  <1>24. CASE Pick(p)
    <2>1. Same /\ UNCHANGED list
      BY <1>6, <1>24 DEF Pick, Has
    <2> QED
      BY <1>5, <2>1
  <1>25. CASE TakeFree(p)
    <2>1. /\ pc[p] = "free" /\ cur[p] \in Bufs /\ NotAvail(cur[p]) /\ UNCHANGED cur
          /\ \E l \in {"bwrite", "relink"} : pc' = [pc EXCEPT ![p] = l]
          /\ Alone(p, cur[p])
      BY <1>6, <1>25 DEF TakeFree, Links, StaysApart
    <2>2. \A s \in Procs : ~Has(s, cur[p])
      BY <2>1 DEF Alone, Has
    <2>3. Has(p, cur[p])' /\ \A s \in Procs, l \in Links \ {cur[p]} : Has(s, l)' <=> Has(s, l)
      BY <1>6, <2>1 DEF Has
    <2> QED
      BY <1>8, <2>1, <2>2, <2>3
  <1>26. CASE TakeHead(p)
    <2>1. Same /\ UNCHANGED list
      BY <1>6, <1>26 DEF TakeHead, Has
    <2> QED
      BY <1>5, <2>1
  <1>27. CASE Relink(p)
    <2>1. Same /\ UNCHANGED list
      BY <1>6, <1>27 DEF Relink, Found, Has
    <2> QED
      BY <1>5, <2>1
  <1>28. CASE BioRead(p)
    <2>1. Same /\ UNCHANGED list
      BY <1>6, <1>28 DEF BioRead, Has
    <2> QED
      BY <1>5, <2>1
  <1>29. CASE BioReadFails(p)
    <2>1. Same /\ UNCHANGED list
      BY <1>6, <1>29 DEF BioReadFails, Has
    <2> QED
      BY <1>5, <2>1
  <1>30. CASE Bwrite(p)
    <2>1. Same /\ UNCHANGED list
      BY <1>6, <1>30 DEF Bwrite, Has
    <2> QED
      BY <1>5, <2>1
  <1>31. CASE BioWrite(p)
    <2>1. Same /\ UNCHANGED list
      BY <1>6, <1>31 DEF BioWrite, Has
    <2> QED
      BY <1>5, <2>1
  <1>32. CASE BioWriteFails(p)
    <2>1. Same /\ UNCHANGED list
      BY <1>6, <1>32 DEF BioWriteFails, Has
    <2> QED
      BY <1>5, <2>1
  <1>33. CASE EndUse(p)
    <2>1. Same /\ UNCHANGED list
      BY <1>6, <1>33 DEF EndUse, Has
    <2> QED
      BY <1>5, <2>1
  <1>34. ASSUME NEW v \in Values, StoreBwrite(p, v) PROVE G
    <2>1. Same /\ UNCHANGED list
      BY <1>6, <1>34 DEF StoreBwrite, Store, Has
    <2> QED
      BY <1>5, <2>1
  <1>35. ASSUME NEW v \in Values, StoreBdwrite(p, v) PROVE G
    <2>1. Same /\ UNCHANGED list
      BY <1>6, <1>35 DEF StoreBdwrite, Store, Has
    <2> QED
      BY <1>5, <2>1
  <1>36. CASE Release(p)
    <2>1. /\ pc[p] = "brelse" /\ cur[p] \in Bufs /\ Linked(cur[p]) /\ UNCHANGED cur
          /\ pc' = [pc EXCEPT ![p] = "islocked"]
      BY <1>7, <1>36 DEF Release
    <2>2. Has(p, cur[p]) /\ \A s \in Procs \ {p} : ~Has(s, cur[p])
      BY <1>4, <2>1 DEF Has
    <2>3. Listed' = Listed \cup {cur[p]} /\ cur[p] \in Links \ Listed
      BY <1>1, <1>6, <2>1, <2>2 DEF Listed, Has
    <2> QED
      BY <1>3, <1>6, <2>1, <2>3, RingWith DEF G
  <1>37. CASE ReleaseAgain(p)
    BY <1>37 DEF ReleaseAgain
  <1>38. CASE IsLocked(p)
    <2>1. Same /\ UNCHANGED list
      BY <1>6, <1>38 DEF IsLocked, Has
    <2> QED
      BY <1>5, <2>1
  <1>39. CASE Unlock(p)
    <2>1. Same /\ UNCHANGED list
      BY <1>6, <1>39 DEF Unlock, Has
    <2> QED
      BY <1>5, <2>1
  <1>40. CASE TryDownFree(p)
    <2>1. Same /\ UNCHANGED list
      BY <1>6, <1>40 DEF TryDownFree, Has
    <2> QED
      BY <1>5, <2>1
  <1>41. CASE Up(p)
    <2>1. Same /\ UNCHANGED list
      BY <1>6, <1>41 DEF Up, Resume, Leave, Has
    <2> QED
      BY <1>5, <2>1
  <1>42. CASE FlushOne(p)
    <2>1. PICK b \in Bufs : /\ cur' = [cur EXCEPT ![p] = b] /\ NotAvail(b)
                           /\ StaysApart(Alone(p, b))
      BY <1>42 DEF FlushOne, Dirty
    <2>2. pc[p] = "flush" /\ pc' = [pc EXCEPT ![p] = "bwrite"]
      BY <1>42 DEF FlushOne
    <2>3. \A s \in Procs : ~Has(s, b)
      BY <2>1, <2>2 DEF Alone, Has, StaysApart
    <2>4. Has(p, b)' /\ \A s \in Procs, l \in Links \ {b} : Has(s, l)' <=> Has(s, l)
      BY <1>6, <2>1, <2>2 DEF Has
    <2> QED
      BY <1>8, <2>1, <2>3, <2>4
  <1>43. CASE FlushEnd(p)
    <2>1. Same /\ UNCHANGED list
      BY <1>6, <1>43 DEF FlushEnd, Leave, Has
    <2> QED
      BY <1>5, <2>1
  <1> QED
    BY <1>9, <1>10, <1>11, <1>12, <1>13, <1>14, <1>15, <1>16, <1>17, <1>18, <1>19, <1>20,
       <1>21, <1>22, <1>23, <1>24, <1>25, <1>26, <1>27, <1>28, <1>29, <1>30, <1>31, <1>32,
       <1>33, <1>34, <1>35, <1>36, <1>37, <1>38, <1>39, <1>40, <1>41, <1>42, <1>43
       DEF Call, Proceed, GetBlk, Bio, Use, Brelse, Bflush

LEMMA FreeNext == TypeInv /\ UseInv /\ FreeInv /\ [Next]_vars => FreeInv'
  <1> SUFFICES ASSUME TypeInv, UseInv, FreeInv, [Next]_vars PROVE FreeInv'
    OBVIOUS
  <1>1. CASE Next
    BY <1>1, FreeStep DEF Next
  <1>2. CASE UNCHANGED vars
    BY <1>2 DEF vars, list, hist, FreeInv, Listed, Has
  <1> QED
    BY <1>1, <1>2

\* Until a buffer has gone to two, or has been released twice, the list is a proper ring
\* of exactly the buffers that nobody has, with delayed writes and whoever calls.
THEOREM FreeListCorrect == Spec => []FreeListOK
  <1>1. Init => FreeInv
    <2> SUFFICES ASSUME Init PROVE FreeInv
      OBVIOUS
    <2>1. Listed = Links
      BY DEF Init, Listed, Has, Using
    <2> QED
      BY <2>1, RingInit DEF FreeInv
  <1>2. FreeInv => FreeListOK
    <2> SUFFICES ASSUME FreeInv, apart, ~twice
                 PROVE  /\ FreeBufs = { b \in Bufs : \A p \in Procs : ~Has(p, b) }
                        /\ \A l \in FreeBufs \cup {FreeHead} :
                              avBack[avForw[l]] = l /\ avForw[avBack[l]] = l
      BY DEF FreeListOK
    <2>1. Ring(avForw, avBack, Listed)
      BY DEF FreeInv
    <2>2. Listed \ {FreeHead} = { b \in Bufs : \A p \in Procs : ~Has(p, b) }
      BY DEF Listed, Links, FreeHead, Bufs
    <2> QED
      BY <2>1, <2>2, RingWalk
  <1> QED
    BY <1>1, <1>2, TypeInvCorrect, UseInvCorrect, FreeNext, PTL DEF Spec

-----------------------------------------------------------------------------
(* What the buffers hold.                                                   *)

\* A buffer that waits to be written, or is being written, holds what callers last
\* stored; one that is to be read holds nothing that counts.
DataInv ==
    apart =>
        /\ \A b \in Bufs : /\ done[b] /\ blkno[b] \notin spoiled => mem[b] = latest[blkno[b]]
                           /\ done[b] => blkno[b] # NoBlock
                           /\ delwri[b] => done[b] /\ mem[b] = latest[blkno[b]]
        /\ \A p \in Procs : /\ pc[p] \in Writes => mem[cur[p]] = latest[blkno[cur[p]]]
                            /\ pc[p] = "bio_read" => ~done[cur[p]]
                            /\ pc[p] = "relink" => ~delwri[cur[p]]
        /\ \A k \in Blocks \ spoiled :
              \/ disk[k] = latest[k]
              \/ \E b \in Bufs :
                    /\ blkno[b] = k /\ mem[b] = latest[k]
                    /\ delwri[b] \/ \E p \in Procs : cur[p] = b /\ pc[p] \in Writes

LEMMA DataStep ==
    ASSUME TypeInv, UseInv, DataInv, NEW p \in Procs, Call(p) \/ Proceed(p)
    PROVE  DataInv'
  <1> DEFINE Buf(b) == /\ done[b] /\ blkno[b] \notin spoiled => mem[b] = latest[blkno[b]]
                       /\ done[b] => blkno[b] # NoBlock
                       /\ delwri[b] => done[b] /\ mem[b] = latest[blkno[b]]
             Doing(r) == /\ pc[r] \in Writes => mem[cur[r]] = latest[blkno[cur[r]]]
                         /\ pc[r] = "bio_read" => ~done[cur[r]]
                         /\ pc[r] = "relink" => ~delwri[cur[r]]
             Safe(b) == delwri[b] \/ \E r \in Procs : cur[r] = b /\ pc[r] \in Writes
             Block(k) == \/ disk[k] = latest[k]
                         \/ \E b \in Bufs : blkno[b] = k /\ mem[b] = latest[k] /\ Safe(b)
             G == /\ \A b \in Bufs : Buf(b)'
                  /\ \A r \in Procs : Doing(r)'
                  /\ \A k \in Blocks \ spoiled' : Block(k)'
  <1> SUFFICES ASSUME apart' PROVE G
    BY DEF DataInv
  <1>0. apart
    BY Ends
  <1>1. NoBlock \notin Blocks /\ FreeHead \notin Bufs
    BY CacheAssumption DEF Blocks, Bufs, FreeHead, NoBlock
  <1>2. \A b \in Bufs : Buf(b)
    BY <1>0 DEF DataInv
  <1>3. \A r \in Procs : Doing(r)
    BY <1>0 DEF DataInv
  <1>4. \A k \in Blocks \ spoiled : Block(k)
    BY <1>0 DEF DataInv
  <1>5. /\ pc \in [Procs -> {"idle", "modify", "try", "wait", "recheck", "take", "flush",
                             "again", "lost"} \cup Searching \cup Using \cup Waking]
        /\ cur \in [Procs -> Links] /\ want \in [Procs -> Blocks \cup {NoBlock}]
        /\ cont \in [Procs -> {"idle", "again", "search", "flush"}]
        /\ blkno \in [Bufs -> Blocks \cup {NoBlock}]
        /\ delwri \in [Bufs -> BOOLEAN] /\ done \in [Bufs -> BOOLEAN]
        /\ mem \in [Bufs -> Values] /\ disk \in [Blocks -> Values]
        /\ latest \in [Blocks -> Values] /\ spoiled \subseteq Blocks
    BY DEF TypeInv, TypeOK
  <1>6. /\ \A r \in Procs : /\ pc[r] \in {"relink"} \cup Hits \cup Using => cur[r] \in Bufs
                            /\ pc[r] \in Hits \cup Holds \cup Writes => blkno[cur[r]] # NoBlock
                            /\ pc[r] \in Holds \cup Misses => want[r] \in Blocks
                            /\ pc[r] \in Holds => blkno[cur[r]] = want[r]
        /\ OneBuf
    BY <1>0 DEF TypeInv, UseInv, Placed, OwnBlock
  <1>7. \A r \in Procs \ {p} :
           pc[p] \in Using \cup {"relink"} /\ pc[r] \in Using \cup {"relink"} => cur[r] # cur[p]
    BY <1>6, <1>0 DEF UseInv, Exclusive, Has
  <1> USE DEF Goto, Point, Start, Then, Searching, Using, Waking, Hits, Misses, Holds, Writes,
              list, queue, flags, data, locks, call, hist
  <1> HIDE DEF G
  <1> DEFINE Kept == UNCHANGED <<blkno, delwri, done, mem, disk, latest, spoiled>>
             Going == \A r \in Procs : pc[r] \in Writes => pc'[r] \in Writes /\ cur'[r] = cur[r]
  <1>8. ASSUME Kept, Going, \A r \in Procs : Doing(r)' PROVE G
    <2>1. \A b \in Bufs : Buf(b)'
      BY <1>2, <1>8
    <2>2. \A k \in Blocks \ spoiled' : Block(k)'
      BY <1>4, <1>8
    <2> QED
      BY <1>8, <2>1, <2>2 DEF G
  <1>9. CASE Flush(p)
    <2>1. Kept /\ Going
      BY <1>5, <1>9 DEF Flush
    <2>2. \A r \in Procs : Doing(r)'
      BY <1>2, <1>3, <1>5, <1>6, <1>9 DEF Flush
    <2> QED
      BY <1>8, <2>1, <2>2
  <1>10. ASSUME NEW o \in {"read", "get"}, NEW k \in Blocks, Ask(p, o, k) PROVE G
    <2>1. Kept /\ Going
      BY <1>5, <1>10 DEF Ask
    <2>2. \A r \in Procs : Doing(r)'
      BY <1>2, <1>3, <1>5, <1>6, <1>10 DEF Ask
    <2> QED
      BY <1>8, <2>1, <2>2
  <1>11. CASE Hit(p)
    <2>1. Kept /\ Going
      BY <1>5, <1>11 DEF Hit
    <2>2. \A r \in Procs : Doing(r)'
      BY <1>2, <1>3, <1>5, <1>6, <1>11 DEF Hit
    <2> QED
      BY <1>8, <2>1, <2>2
  <1>12. CASE LockModify(p)
    <2>1. Kept /\ Going
      BY <1>5, <1>12 DEF LockModify
    <2>2. \A r \in Procs : Doing(r)'
      BY <1>2, <1>3, <1>5, <1>6, <1>12 DEF LockModify
    <2> QED
      BY <1>8, <2>1, <2>2
  <1>13. CASE TryFree(p)
    <2>1. Kept /\ Going
      BY <1>5, <1>13 DEF TryFree
    <2>2. \A r \in Procs : Doing(r)'
      BY <1>2, <1>3, <1>5, <1>6, <1>13 DEF TryFree
    <2> QED
      BY <1>8, <2>1, <2>2
  <1>14. CASE TryBusy(p)
    <2>1. Kept /\ Going
      BY <1>5, <1>14 DEF TryBusy
    <2>2. \A r \in Procs : Doing(r)'
      BY <1>2, <1>3, <1>5, <1>6, <1>14 DEF TryBusy
    <2> QED
      BY <1>8, <2>1, <2>2
  <1>15. CASE WaitFree(p)
    <2>1. Kept /\ Going
      BY <1>5, <1>15 DEF WaitFree
    <2>2. \A r \in Procs : Doing(r)'
      BY <1>2, <1>3, <1>5, <1>6, <1>15 DEF WaitFree
    <2> QED
      BY <1>8, <2>1, <2>2
  <1>16. CASE RecheckSame(p)
    <2>1. Kept /\ Going
      BY <1>5, <1>16 DEF RecheckSame
    <2>2. \A r \in Procs : Doing(r)'
      BY <1>2, <1>3, <1>5, <1>6, <1>16 DEF RecheckSame
    <2> QED
      BY <1>8, <2>1, <2>2
  <1>17. CASE RecheckOther(p)
    <2>1. Kept /\ Going
      BY <1>5, <1>17 DEF RecheckOther
    <2>2. \A r \in Procs : Doing(r)'
      BY <1>2, <1>3, <1>5, <1>6, <1>17 DEF RecheckOther
    <2> QED
      BY <1>8, <2>1, <2>2
  <1>18. CASE TakeHit(p)
    <2>1. Kept /\ Going
      BY <1>5, <1>18 DEF TakeHit, Found
    <2>2. \A r \in Procs : Doing(r)'
      BY <1>2, <1>3, <1>5, <1>6, <1>18 DEF TakeHit, Found
    <2> QED
      BY <1>8, <2>1, <2>2
  <1>19. CASE Miss(p)
    <2>1. Kept /\ Going
      BY <1>5, <1>19 DEF Miss
    <2>2. \A r \in Procs : Doing(r)'
      BY <1>2, <1>3, <1>5, <1>6, <1>19 DEF Miss
    <2> QED
      BY <1>8, <2>1, <2>2
  <1>20. CASE CheckEmpty(p)
    <2>1. Kept /\ Going
      BY <1>5, <1>20 DEF CheckEmpty
    <2>2. \A r \in Procs : Doing(r)'
      BY <1>2, <1>3, <1>5, <1>6, <1>20 DEF CheckEmpty
    <2> QED
      BY <1>8, <2>1, <2>2
  <1>21. CASE TryDown(p)
    <2>1. Kept /\ Going
      BY <1>5, <1>21 DEF TryDown
    <2>2. \A r \in Procs : Doing(r)'
      BY <1>2, <1>3, <1>5, <1>6, <1>21 DEF TryDown
    <2> QED
      BY <1>8, <2>1, <2>2
  <1>22. CASE Down(p)
    <2>1. Kept /\ Going
      BY <1>5, <1>22 DEF Down
    <2>2. \A r \in Procs : Doing(r)'
      BY <1>2, <1>3, <1>5, <1>6, <1>22 DEF Down
    <2> QED
      BY <1>8, <2>1, <2>2
  <1>23. CASE CheckSome(p)
    <2>1. Kept /\ Going
      BY <1>5, <1>23 DEF CheckSome
    <2>2. \A r \in Procs : Doing(r)'
      BY <1>2, <1>3, <1>5, <1>6, <1>23 DEF CheckSome
    <2> QED
      BY <1>8, <2>1, <2>2
  <1>24. CASE Pick(p)
    <2>1. Kept /\ Going
      BY <1>5, <1>24 DEF Pick
    <2>2. \A r \in Procs : Doing(r)'
      BY <1>2, <1>3, <1>5, <1>6, <1>24 DEF Pick
    <2> QED
      BY <1>8, <2>1, <2>2
  <1>25. CASE TakeFree(p)
    <2>1. Kept /\ Going
      BY <1>5, <1>25 DEF TakeFree
    <2>2. cur[p] \in Bufs
      BY <1>5, <1>25 DEF TakeFree, Links
    <2>3. /\ \A r \in Procs \ {p} : pc'[r] = pc[r]
          /\ pc'[p] = IF delwri[cur[p]] THEN "bwrite" ELSE "relink"
          /\ UNCHANGED cur
      BY <1>5, <1>25 DEF TakeFree
    <2>4. Doing(p)'
      BY <1>2, <2>1, <2>2, <2>3
    <2>5. \A r \in Procs \ {p} : Doing(r)'
      BY <1>3, <2>1, <2>3
    <2> QED
      BY <1>8, <2>1, <2>4, <2>5
  <1>26. CASE TakeHead(p)
    <2>1. Kept /\ Going
      BY <1>5, <1>26 DEF TakeHead
    <2>2. \A r \in Procs : Doing(r)'
      BY <1>2, <1>3, <1>5, <1>6, <1>26 DEF TakeHead
    <2> QED
      BY <1>8, <2>1, <2>2
  <1>27. CASE Relink(p)
    <2>1. \A b \in Bufs : Buf(b)'
      BY <1>1, <1>2, <1>3, <1>4, <1>5, <1>6, <1>7, <1>27 DEF Relink, Found, StaysApart, Unnamed, OneBuf
    <2>2. \A r \in Procs : Doing(r)'
      BY <1>1, <1>2, <1>3, <1>4, <1>5, <1>6, <1>7, <1>27 DEF Relink, Found, StaysApart, Unnamed, OneBuf
    <2>3. \A j \in Blocks \ spoiled' : Block(j)'
      BY <1>1, <1>2, <1>3, <1>4, <1>5, <1>6, <1>7, <1>27 DEF Relink, Found, StaysApart, Unnamed, OneBuf
    <2> QED
      BY <2>1, <2>2, <2>3 DEF G
  <1>28. CASE BioRead(p)
    <2>1. \A b \in Bufs : Buf(b)'
      BY <1>1, <1>2, <1>3, <1>4, <1>5, <1>6, <1>7, <1>28 DEF BioRead, OneBuf
    <2>2. \A r \in Procs : Doing(r)'
      BY <1>1, <1>2, <1>3, <1>4, <1>5, <1>6, <1>7, <1>28 DEF BioRead, OneBuf
    <2>3. \A j \in Blocks \ spoiled' : Block(j)'
      BY <1>1, <1>2, <1>3, <1>4, <1>5, <1>6, <1>7, <1>28 DEF BioRead, OneBuf
    <2> QED
      BY <2>1, <2>2, <2>3 DEF G
  <1>29. CASE BioReadFails(p)
    <2>1. \A b \in Bufs : Buf(b)'
      BY <1>1, <1>2, <1>3, <1>4, <1>5, <1>6, <1>7, <1>29 DEF BioReadFails, OneBuf
    <2>2. \A r \in Procs : Doing(r)'
      BY <1>1, <1>2, <1>3, <1>4, <1>5, <1>6, <1>7, <1>29 DEF BioReadFails, OneBuf
    <2>3. \A j \in Blocks \ spoiled' : Block(j)'
      BY <1>1, <1>2, <1>3, <1>4, <1>5, <1>6, <1>7, <1>29 DEF BioReadFails, OneBuf
    <2> QED
      BY <2>1, <2>2, <2>3 DEF G
  <1>30. CASE Bwrite(p)
    <2>1. \A b \in Bufs : Buf(b)'
      BY <1>1, <1>2, <1>3, <1>4, <1>5, <1>6, <1>7, <1>30 DEF Bwrite, OneBuf
    <2>2. \A r \in Procs : Doing(r)'
      BY <1>1, <1>2, <1>3, <1>4, <1>5, <1>6, <1>7, <1>30 DEF Bwrite, OneBuf
    <2>3. \A j \in Blocks \ spoiled' : Block(j)'
      BY <1>1, <1>2, <1>3, <1>4, <1>5, <1>6, <1>7, <1>30 DEF Bwrite, OneBuf
    <2> QED
      BY <2>1, <2>2, <2>3 DEF G
  <1>31. CASE BioWrite(p)
    <2>1. \A b \in Bufs : Buf(b)'
      BY <1>1, <1>2, <1>3, <1>4, <1>5, <1>6, <1>7, <1>31 DEF BioWrite, OneBuf
    <2>2. \A r \in Procs : Doing(r)'
      BY <1>1, <1>2, <1>3, <1>4, <1>5, <1>6, <1>7, <1>31 DEF BioWrite, OneBuf
    <2>3. \A j \in Blocks \ spoiled' : Block(j)'
      BY <1>1, <1>2, <1>3, <1>4, <1>5, <1>6, <1>7, <1>31 DEF BioWrite, OneBuf
    <2> QED
      BY <2>1, <2>2, <2>3 DEF G
  <1>32. CASE BioWriteFails(p)
    <2>1. \A b \in Bufs : Buf(b)'
      BY <1>1, <1>2, <1>3, <1>4, <1>5, <1>6, <1>7, <1>32 DEF BioWriteFails, OneBuf
    <2>2. \A r \in Procs : Doing(r)'
      BY <1>1, <1>2, <1>3, <1>4, <1>5, <1>6, <1>7, <1>32 DEF BioWriteFails, OneBuf
    <2>3. \A j \in Blocks \ spoiled' : Block(j)'
      BY <1>1, <1>2, <1>3, <1>4, <1>5, <1>6, <1>7, <1>32 DEF BioWriteFails, OneBuf
    <2> QED
      BY <2>1, <2>2, <2>3 DEF G
  <1>33. CASE EndUse(p)
    <2>1. Kept /\ Going
      BY <1>5, <1>33 DEF EndUse
    <2>2. \A r \in Procs : Doing(r)'
      BY <1>2, <1>3, <1>5, <1>6, <1>33 DEF EndUse
    <2> QED
      BY <1>8, <2>1, <2>2
  <1>34. ASSUME NEW v \in Values, StoreBwrite(p, v) PROVE G
    <2>1. \A b \in Bufs : Buf(b)'
      BY <1>1, <1>2, <1>3, <1>4, <1>5, <1>6, <1>7, <1>34 DEF StoreBwrite, Store, OneBuf
    <2>2. \A r \in Procs : Doing(r)'
      BY <1>1, <1>2, <1>3, <1>4, <1>5, <1>6, <1>7, <1>34 DEF StoreBwrite, Store, OneBuf
    <2>3. \A j \in Blocks \ spoiled' : Block(j)'
      BY <1>1, <1>2, <1>3, <1>4, <1>5, <1>6, <1>7, <1>34 DEF StoreBwrite, Store, OneBuf
    <2> QED
      BY <2>1, <2>2, <2>3 DEF G
  <1>35. ASSUME NEW v \in Values, StoreBdwrite(p, v) PROVE G
    <2>1. \A b \in Bufs : Buf(b)'
      BY <1>1, <1>2, <1>3, <1>4, <1>5, <1>6, <1>7, <1>35 DEF StoreBdwrite, Store, OneBuf
    <2>2. \A r \in Procs : Doing(r)'
      BY <1>1, <1>2, <1>3, <1>4, <1>5, <1>6, <1>7, <1>35 DEF StoreBdwrite, Store, OneBuf
    <2>3. \A j \in Blocks \ spoiled' : Block(j)'
      BY <1>1, <1>2, <1>3, <1>4, <1>5, <1>6, <1>7, <1>35 DEF StoreBdwrite, Store, OneBuf
    <2> QED
      BY <2>1, <2>2, <2>3 DEF G
  <1>36. CASE Release(p)
    <2>1. Kept /\ Going
      BY <1>5, <1>36 DEF Release
    <2>2. \A r \in Procs : Doing(r)'
      BY <1>2, <1>3, <1>5, <1>6, <1>36 DEF Release
    <2> QED
      BY <1>8, <2>1, <2>2
  <1>37. CASE ReleaseAgain(p)
    <2>1. Kept /\ Going
      BY <1>5, <1>37 DEF ReleaseAgain
    <2>2. \A r \in Procs : Doing(r)'
      BY <1>2, <1>3, <1>5, <1>6, <1>37 DEF ReleaseAgain
    <2> QED
      BY <1>8, <2>1, <2>2
  <1>38. CASE IsLocked(p)
    <2>1. Kept /\ Going
      BY <1>5, <1>38 DEF IsLocked
    <2>2. \A r \in Procs : Doing(r)'
      BY <1>2, <1>3, <1>5, <1>6, <1>38 DEF IsLocked
    <2> QED
      BY <1>8, <2>1, <2>2
  <1>39. CASE Unlock(p)
    <2>1. Kept /\ Going
      BY <1>5, <1>39 DEF Unlock
    <2>2. \A r \in Procs : Doing(r)'
      BY <1>2, <1>3, <1>5, <1>6, <1>39 DEF Unlock
    <2> QED
      BY <1>8, <2>1, <2>2
  <1>40. CASE TryDownFree(p)
    <2>1. Kept /\ Going
      BY <1>5, <1>40 DEF TryDownFree
    <2>2. \A r \in Procs : Doing(r)'
      BY <1>2, <1>3, <1>5, <1>6, <1>40 DEF TryDownFree
    <2> QED
      BY <1>8, <2>1, <2>2
  <1>41. CASE Up(p)
    <2>1. Kept /\ Going
      BY <1>5, <1>41 DEF Up, Resume, Leave
    <2>2. \A r \in Procs : Doing(r)'
      BY <1>2, <1>3, <1>5, <1>6, <1>41 DEF Up, Resume, Leave
    <2> QED
      BY <1>8, <2>1, <2>2
  <1>42. CASE FlushOne(p)
    <2>1. Kept /\ Going
      BY <1>5, <1>42 DEF FlushOne
    <2>2. PICK b \in Dirty : cur' = [cur EXCEPT ![p] = b]
      BY <1>42 DEF FlushOne
    <2>3. b \in Bufs /\ delwri[b]
      BY <2>2 DEF Dirty
    <2>4. pc' = [pc EXCEPT ![p] = "bwrite"]
      BY <1>42 DEF FlushOne
    <2>5. Doing(p)'
      BY <1>2, <1>5, <2>1, <2>2, <2>3, <2>4
    <2>6. \A r \in Procs \ {p} : Doing(r)'
      BY <1>3, <1>5, <2>1, <2>2, <2>4
    <2> QED
      BY <1>8, <2>1, <2>5, <2>6
  <1>43. CASE FlushEnd(p)
    <2>1. Kept /\ Going
      BY <1>5, <1>43 DEF FlushEnd, Leave
    <2>2. \A r \in Procs : Doing(r)'
      BY <1>2, <1>3, <1>5, <1>6, <1>43 DEF FlushEnd, Leave
    <2> QED
      BY <1>8, <2>1, <2>2
  <1> QED
    BY <1>9, <1>10, <1>11, <1>12, <1>13, <1>14, <1>15, <1>16, <1>17, <1>18, <1>19, <1>20,
       <1>21, <1>22, <1>23, <1>24, <1>25, <1>26, <1>27, <1>28, <1>29, <1>30, <1>31, <1>32,
       <1>33, <1>34, <1>35, <1>36, <1>37, <1>38, <1>39, <1>40, <1>41, <1>42, <1>43
       DEF Call, Proceed, GetBlk, Bio, Use, Brelse, Bflush

LEMMA DataNext == TypeInv /\ UseInv /\ DataInv /\ [Next]_vars => DataInv'
  <1> SUFFICES ASSUME TypeInv, UseInv, DataInv, [Next]_vars PROVE DataInv'
    OBVIOUS
  <1>1. CASE Next
    BY <1>1, DataStep DEF Next
  <1>2. CASE UNCHANGED vars
    BY <1>2 DEF vars, queue, flags, data, hist, DataInv
  <1> QED
    BY <1>1, <1>2

LEMMA DataInvCorrect == Spec => []DataInv
  <1>1. Init => DataInv
    BY CacheAssumption DEF Init, DataInv, Writes, NoBlock
  <1> QED
    BY <1>1, TypeInvCorrect, UseInvCorrect, DataNext, PTL DEF Spec

\* B_DONE means what Bread takes it for, as long as no buffer goes to two: the buffer
\* holds what callers last stored in its block, unless a transfer of it has failed.
THEOREM CoherentCorrect == Spec => []Coherent
  <1>1. DataInv => Coherent
    BY DEF DataInv, Coherent
  <1> QED
    BY <1>1, DataInvCorrect, PTL

\* Eviction, Bwrite and Bflush lose nothing, on the same terms: what callers last stored
\* in a block is on the disk or in a buffer that will be written.
THEOREM NothingLostCorrect == Spec => []NothingLost
  <1>1. DataInv => NothingLost
    BY DEF DataInv, NothingLost, Writes
  <1> QED
    BY <1>1, DataInvCorrect, PTL
=============================================================================
