--------------------------- MODULE BlockMapProofs ---------------------------
(***************************************************************************)
(* Theorems about BlockMap, for every number of files and blocks, every    *)
(* shape of i_addr and size of an index block, with or without failures.   *)
(***************************************************************************)
EXTENDS BlockMap, TLAPS

\* The places that may name a block, as records: an entry of i_addr, one of the index
\* block there, one of an index block that this names.
Top   == -1
Depth == Index \cup {Top}
Spots == [f : Files, i : Slots, j : Depth, k : Depth]

Spot(f, i, j, k) == [f |-> f, i |-> i, j |-> j, k |-> k]

\* The block that a place names.
Ref(s) ==
    IF s.j = Top THEN IF s.k = Top THEN addr[s.f][s.i] ELSE NoBlock
    ELSE IF s.k = Top THEN FirstAt(s.f, s.i, s.j)
    ELSE SecondAt(s.f, s.i, s.j, s.k)

\* Places that name index blocks.
OfIndex(s) ==
    \/ s.j = Top /\ s.k = Top /\ ~IsDirect(s.i)
    \/ s.j # Top /\ s.k = Top /\ IsDouble(s.i)

\* The place of a block of the file.
LeafSpot(f, l) ==
    LET i == SlotOf(l) IN
    IF IsDirect(i) THEN Spot(f, i, Top, Top)
    ELSE IF IsDouble(i) THEN Spot(f, i, MidOf(l), LeafOf(l))
    ELSE Spot(f, i, LeafOf(l), Top)

-----------------------------------------------------------------------------
(* The inductive invariant                                                  *)

\* A process between Alloc and the store of the number has the block in its hands.
Holds(f, b) == pc[f] = "direct" /\ got[f] = b

\* A block is free, or in one process's hands, or in one place.
RefOnce   == \A s, t \in Spots : Ref(s) # NoBlock /\ Ref(s) = Ref(t) => s = t
RefUsed   == \A s \in Spots : Ref(s) \notin free /\ \A f \in Files : ~Holds(f, Ref(s))
HandOnce  == \A f, g \in Files : \A b \in Blocks : Holds(f, b) /\ Holds(g, b) => f = g
HandUsed  == \A f \in Files : \A b \in free : ~Holds(f, b)
Accounted ==
    \A b \in Blocks : \/ b \in free
                      \/ \E f \in Files : Holds(f, b)
                      \/ \E s \in Spots : Ref(s) = b

Apart == RefOnce /\ RefUsed /\ HandOnce /\ HandUsed /\ Accounted

\* What is followed as an index block is one.
TablesOK(f) ==
    \A s \in Spots : s.f = f /\ OfIndex(s) /\ Ref(s) # NoBlock => mem[Ref(s)] \in Tables

\* What a process has in its variables is what the maps say.
StageOK(f) ==
    /\ pc[f] \notin {"first", "second", "lost"} =>
          slot[f] = 0 /\ i1[f] = PerIndex /\ i2[f] = PerIndex
    /\ pc[f] = "first" =>
          /\ ~IsDirect(slot[f]) /\ i2[f] = PerIndex
          /\ first[f] # NoBlock /\ first[f] = Ref(Spot(f, slot[f], Top, Top))
    /\ pc[f] = "second" =>
          /\ IsDouble(slot[f]) /\ i1[f] >= 1
          /\ first[f] # NoBlock /\ first[f] = Ref(Spot(f, slot[f], Top, Top))
          /\ got[f] # NoBlock /\ got[f] = Ref(Spot(f, slot[f], i1[f] - 1, Top))
    /\ pc[f] = "mid" =>
          /\ IsDouble(SlotOf(lbn[f]))
          /\ first[f] # NoBlock /\ first[f] = Ref(Spot(f, SlotOf(lbn[f]), Top, Top))
    /\ pc[f] = "leaf" =>
          /\ ~IsDirect(SlotOf(lbn[f])) /\ first[f] # NoBlock
          /\ first[f] = Ref(Spot(f, SlotOf(lbn[f]),
                                 IF IsDouble(SlotOf(lbn[f])) THEN MidOf(lbn[f]) ELSE Top, Top))
    /\ pc[f] = "direct" =>
          /\ IsDirect(SlotOf(lbn[f])) /\ got[f] \in Blocks
          /\ Ref(LeafSpot(f, lbn[f])) = NoBlock
    /\ pc[f] = "io" =>
          got[f] # NoBlock /\ got[f] = Ref(LeafSpot(f, lbn[f]))
    /\ op[f] # "none" => pc[f] \in {"map", "direct", "mid", "leaf", "io"}

\* Until the file is deleted, its blocks hold what has been written, or zeros, on the
\* disk, too; and a block that has been written has a place.
Live == {"idle", "map", "mid", "leaf", "direct", "io"}

FreshAt(f, l, b) ==
    IF b = NoBlock THEN l \notin written[f]
    ELSE mem[b] = disk[b] /\ mem[b] = IF l \in written[f] THEN Data ELSE Zero

FreshOK(f) ==
    pc[f] \in Live =>
        /\ \A l \in Lbns : FreshAt(f, l, Ref(LeafSpot(f, l)))
        /\ pc[f] = "direct" => mem[got[f]] = Zero /\ disk[got[f]] = Zero

FileOK(f) == TablesOK(f) /\ StageOK(f) /\ FreshOK(f)

MapInv == Apart /\ \A f \in Files : FileOK(f)

BlocksInv == TypeOK /\ (sound => MapInv)

-----------------------------------------------------------------------------
(* Arithmetic                                                               *)

LEMMA DivMod ==
    ASSUME NEW a \in Nat, NEW d \in Nat \ {0}
    PROVE  /\ a \div d \in Nat /\ a % d \in 0 .. d - 1
           /\ a = d * (a \div d) + (a % d)
  <1>1. a = d * (a \div d) + (a % d) /\ a % d \in 0 .. d - 1
    OBVIOUS
  <1>2. a \div d \in Nat
    OBVIOUS
  <1> QED
    BY <1>1, <1>2

LEMMA TimesMono ==
    ASSUME NEW d \in Nat, NEW p \in Int, NEW q \in Int, p <= q
    PROVE  d * p <= d * q
  OBVIOUS

LEMMA TimesMonoLess ==
    ASSUME NEW d \in Nat, NEW p \in Int, NEW q \in Int, p <= q - 1
    PROVE  d * p <= d * q - d /\ d * p \in Int /\ d * q \in Int
  <1>1. d * p <= d * (q - 1)
    BY TimesMono
  <1>2. d * (q - 1) = d * q - d /\ d * p \in Int /\ d * q \in Int
    OBVIOUS
  <1> QED
    BY <1>1, <1>2

LEMMA DivUnique ==
    ASSUME NEW a \in Nat, NEW d \in Nat \ {0}, NEW p \in Int, NEW q \in Int,
           NEW r \in 0 .. d - 1, NEW m \in 0 .. d - 1,
           a = d * p + r, a = d * q + m
    PROVE  p = q /\ r = m
  <1> DEFINE x == d * p
             y == d * q
  <1>1. x \in Int /\ y \in Int /\ a = x + r /\ a = y + m
    OBVIOUS
  <1>2. (p <= q - 1 => x <= y - d) /\ (q <= p - 1 => y <= x - d)
    BY TimesMonoLess
  <1>3. p = q => x = y
    OBVIOUS
  <1> HIDE DEF x, y
  <1>4. p = q
    BY <1>1, <1>2
  <1> QED
    BY <1>1, <1>3, <1>4

LEMMA DivBelow ==
    ASSUME NEW a \in Nat, NEW d \in Nat \ {0}, NEW s \in Nat, a < s * d
    PROVE  a \div d \in 0 .. s - 1
  <1> DEFINE q == a \div d
             x == d * q
             y == d * s
  <1>1. q \in Nat /\ a % d \in 0 .. d - 1 /\ a = x + (a % d)
    BY DivMod
  <1> HIDE DEF q
  <1>2. s <= q => y <= x
    BY <1>1, TimesMono
  <1>3. x \in Int /\ y \in Int /\ a < y
    BY <1>1
  <1> HIDE DEF x, y
  <1>4. q \in 0 .. s - 1
    BY <1>1, <1>2, <1>3
  <1> QED
    BY <1>4 DEF q

\* The two digits of a number below d * d.
LEMMA DivTwice ==
    ASSUME NEW a \in Nat, NEW d \in Nat \ {0}
    PROVE  /\ d * d \in Nat \ {0}
           /\ (a \div d) \div d = a \div (d * d)
  <1> DEFINE q == a \div d
             m == a % d
             p == q \div d
             n == q % d
             u == d * n
             D == d * d
             v == d * (d * p)
  <1>1. q \in Nat /\ m \in 0 .. d - 1 /\ a = d * q + m
    BY DivMod
  <1> HIDE DEF q, m
  <1>2. p \in Nat /\ n \in 0 .. d - 1 /\ q = d * p + n
    BY <1>1, DivMod
  <1> HIDE DEF p, n
  <1>3. D \in Nat \ {0}
    OBVIOUS
  <1>4. u \in Int /\ u <= D - d /\ 0 <= u
    BY <1>2, TimesMonoLess
  <1>5. v \in Int /\ d * q = v + u
    BY <1>2
  <1>6. v = D * p
    BY <1>2
  <1> HIDE DEF u, D, v
  <1>7. u + m \in 0 .. D - 1 /\ a = D * p + (u + m)
    BY <1>1, <1>3, <1>4, <1>5, <1>6
  <1>8. a \div D \in Nat /\ a % D \in 0 .. D - 1 /\ a = D * (a \div D) + (a % D)
    BY <1>3, DivMod
  <1>9. p = a \div D
    <2> DEFINE w == u + m
               z == a \div D
               y == a % D
    <2>1. w \in 0 .. D - 1 /\ y \in 0 .. D - 1 /\ z \in Int /\ p \in Int
      BY <1>2, <1>7, <1>8
    <2>2. a = D * p + w /\ a = D * z + y
      BY <1>7, <1>8
    <2> HIDE DEF w, z, y
    <2>3. p = z
      BY <1>3, <2>1, <2>2, DivUnique
    <2> QED
      BY <2>3 DEF z
  <1> QED
    BY <1>3, <1>9 DEF p, q, D

LEMMA PlusSame ==
    ASSUME NEW x \in Nat, NEW y \in Nat, NEW c \in Int, NEW e \in Int,
           x + c + e = y + c + e
    PROVE  x = y
  OBVIOUS

\* A number is what its digits say.
LEMMA DigitsSame ==
    ASSUME NEW a \in Nat, NEW b \in Nat, NEW d \in Nat \ {0},
           a \div d = b \div d, a % d = b % d
    PROVE  a = b
  <1> DEFINE q == a \div d
             r == b \div d
             m == a % d
             n == b % d
  <1>1. a = d * q + m /\ b = d * r + n
    BY DivMod
  <1>2. q = r /\ m = n
    OBVIOUS
  <1> HIDE DEF q, r, m, n
  <1> QED
    BY <1>1, <1>2

\* Where a block of the file is looked for.
LEMMA SlotArith ==
    ASSUME NEW l \in Lbns
    PROVE  /\ SlotOf(l) \in Slots
           /\ IsDirect(SlotOf(l)) => SlotOf(l) = l
           /\ ~IsDirect(SlotOf(l)) => LeafOf(l) \in Index
           /\ IsDouble(SlotOf(l)) => MidOf(l) \in Index
  <1> USE MapAssumption
  <1> DEFINE P == PerIndex
             D == P * P
             sp == Single * P
             dd == Double * D
             a == l - Direct
             b == l - LargeFile
  <1>1. P \in Nat \ {0} /\ D \in Nat \ {0} /\ sp \in Nat /\ dd \in Nat
    BY DivTwice
  <1>2. LargeFile = Direct + sp /\ HugeFile = LargeFile + dd
    <2>1. Double * PerIndex * PerIndex = dd
      OBVIOUS
    <2> QED
      BY <2>1 DEF LargeFile, HugeFile
  <1>3. l \in Nat /\ l < Direct + sp + dd
    BY <1>1, <1>2 DEF Lbns
  <1>4. CASE l < Direct
    <2>1. SlotOf(l) = l
      BY <1>1, <1>2, <1>3, <1>4 DEF SlotOf
    <2> QED
      BY <1>3, <1>4, <2>1 DEF Slots, IsDirect, IsDouble
  <1>5. CASE l \in Direct .. LargeFile - 1
    <2>1. SlotOf(l) = (a \div P) + Direct /\ LeafOf(l) = a % P
      BY <1>1, <1>2, <1>3, <1>5 DEF SlotOf, LeafOf
    <2>2. a \in Nat /\ a < sp
      BY <1>1, <1>2, <1>3, <1>5
    <2> HIDE DEF a
    <2>3. a \div P \in 0 .. Single - 1
      BY <1>1, <2>2, DivBelow
    <2>4. a % P \in 0 .. P - 1
      BY <1>1, <2>2, DivMod
    <2> QED
      BY <2>1, <2>3, <2>4 DEF Slots, IsDirect, IsDouble, Index
  <1>6. CASE l >= LargeFile
    <2>1. /\ SlotOf(l) = (b \div D) + Direct + Single /\ LeafOf(l) = b % P
          /\ MidOf(l) = (b \div P) % P
      BY <1>1, <1>2, <1>3, <1>6 DEF SlotOf, LeafOf, MidOf
    <2>2. b \in Nat /\ b < dd
      BY <1>1, <1>2, <1>3, <1>6
    <2> HIDE DEF b
    <2>3. b \div D \in 0 .. Double - 1
      BY <1>1, <2>2, DivBelow
    <2>4. b % P \in 0 .. P - 1 /\ b \div P \in Nat
      BY <1>1, <2>2, DivMod
    <2> DEFINE q == b \div P
    <2> HIDE DEF q
    <2>5. q % P \in 0 .. P - 1
      BY <1>1, <2>4, DivMod DEF q
    <2> QED
      BY <2>1, <2>3, <2>4, <2>5 DEF Slots, IsDirect, IsDouble, Index, q
  <1> QED
    BY <1>1, <1>2, <1>3, <1>4, <1>5, <1>6

\* Two blocks of a file have two places.
LEMMA LeafSpotOnce ==
    ASSUME NEW f \in Files, NEW l \in Lbns, NEW m \in Lbns,
           LeafSpot(f, l) = LeafSpot(f, m)
    PROVE  l = m
  <1> USE MapAssumption
  <1> DEFINE P == PerIndex
             D == P * P
  <1>1. P \in Nat \ {0} /\ D \in Nat \ {0} /\ LargeFile \in Nat /\ Direct < LargeFile
    <2>1. Single * P \in Nat \ {0}
      OBVIOUS
    <2> QED
      BY <2>1, DivTwice DEF LargeFile
  <1>2. SlotOf(l) = SlotOf(m) /\ l \in Nat /\ m \in Nat
    BY DEF LeafSpot, Spot, Lbns
  <1>3. CASE IsDirect(SlotOf(l))
    BY <1>2, <1>3, SlotArith
  <1>4. CASE ~IsDirect(SlotOf(l)) /\ ~IsDouble(SlotOf(l))
    <2> DEFINE a == l - Direct
               b == m - Direct
    <2>1. l \in Direct .. LargeFile - 1 /\ m \in Direct .. LargeFile - 1
      <3>1. \A x \in Lbns : x < Direct => IsDirect(SlotOf(x))
        BY <1>1 DEF SlotOf, IsDirect, Lbns
      <3>2. \A x \in Lbns : x >= LargeFile => IsDouble(SlotOf(x))
        <4> SUFFICES ASSUME NEW x \in Lbns, x >= LargeFile PROVE IsDouble(SlotOf(x))
          OBVIOUS
        <4>1. SlotOf(x) = ((x - LargeFile) \div D) + Direct + Single
          BY <1>1 DEF SlotOf, Lbns
        <4>2. (x - LargeFile) \div D \in Nat
          <5>1. x - LargeFile \in Nat
            BY <1>1 DEF Lbns
          <5> QED
            BY <1>1, <5>1, DivMod
        <4> QED
          BY <4>1, <4>2 DEF IsDouble
      <3> QED
        BY <1>1, <1>2, <1>4, <3>1, <3>2
    <2>2. a \div P = b \div P /\ a % P = b % P /\ a \in Nat /\ b \in Nat
      <3>1. LeafOf(l) = LeafOf(m)
        BY <1>2, <1>4 DEF LeafSpot, Spot
      <3>2. LeafOf(l) = a % P /\ LeafOf(m) = b % P
        BY <1>1, <2>1 DEF LeafOf
      <3>3. SlotOf(l) = (a \div P) + Direct /\ SlotOf(m) = (b \div P) + Direct
        BY <1>1, <2>1 DEF SlotOf
      <3>4. a \div P \in Int /\ b \div P \in Int
        BY <1>1, <2>1
      <3>5. a \in Nat /\ b \in Nat
        BY <2>1, MapAssumption
      <3> DEFINE x == a \div P
                 y == b \div P
      <3>6. x \in Int /\ y \in Int /\ x + Direct = y + Direct
        BY <1>2, <3>3, <3>4
      <3> HIDE DEF x, y
      <3>7. x = y
        BY <3>6
      <3> QED
        BY <3>1, <3>2, <3>5, <3>7 DEF x, y
    <2> HIDE DEF a, b
    <2>3. a = b
      BY <1>1, <2>2, DigitsSame
    <2> QED
      BY <1>2, <2>3 DEF a, b
  <1>5. CASE IsDouble(SlotOf(l)) /\ ~IsDirect(SlotOf(l))
    <2> DEFINE a == l - LargeFile
               b == m - LargeFile
               q == a \div P
               r == b \div P
    <2>1. l >= LargeFile /\ m >= LargeFile
      <3>1. \A x \in Lbns : x < LargeFile => ~IsDouble(SlotOf(x))
        <4> SUFFICES ASSUME NEW x \in Lbns, x < LargeFile PROVE ~IsDouble(SlotOf(x))
          OBVIOUS
        <4>1. CASE x < Direct
          BY <1>1, <4>1 DEF SlotOf, IsDouble, Lbns
        <4>2. CASE x \in Direct .. LargeFile - 1
          <5>1. SlotOf(x) = ((x - Direct) \div P) + Direct
            BY <1>1, <4>2 DEF SlotOf
          <5>2. x - Direct \in Nat /\ x - Direct < Single * P
            BY <4>2 DEF LargeFile
          <5>3. (x - Direct) \div P \in 0 .. Single - 1
            BY <1>1, <5>2, DivBelow
          <5> QED
            BY <5>1, <5>3 DEF IsDouble
        <4> QED
          BY <1>1, <4>1, <4>2 DEF Lbns
      <3> QED
        BY <1>1, <1>2, <1>5, <3>1
    <2>2. a \in Nat /\ b \in Nat
      BY <1>1, <1>2, <2>1
    <2>3. a % P = b % P /\ q % P = r % P
      <3>1. LeafOf(l) = LeafOf(m) /\ MidOf(l) = MidOf(m)
        BY <1>2, <1>5 DEF LeafSpot, Spot
      <3>2. LeafOf(l) = a % P /\ LeafOf(m) = b % P
        BY <1>1, <1>2, <2>1 DEF LeafOf
      <3>3. MidOf(l) = q % P /\ MidOf(m) = r % P
        BY DEF MidOf
      <3> QED
        BY <3>1, <3>2, <3>3
    <2>4. a \div D = b \div D
      <3>1. /\ SlotOf(l) = (a \div D) + Direct + Single
            /\ SlotOf(m) = (b \div D) + Direct + Single
        BY <1>1, <1>2, <2>1 DEF SlotOf
      <3>2. a \div D \in Nat /\ b \div D \in Nat
        BY <1>1, <2>2, DivMod
      <3> DEFINE x == a \div D
                 y == b \div D
      <3>3. /\ SlotOf(l) = x + Direct + Single /\ SlotOf(m) = y + Direct + Single
            /\ x \in Nat /\ y \in Nat
        BY <3>1, <3>2
      <3> HIDE DEF x, y, D
      <3>4. x + Direct + Single = y + Direct + Single
        BY <1>2, <3>3
      <3>5. Direct \in Int /\ Single \in Int
        OBVIOUS
      <3>6. x = y
        BY <3>3, <3>4, <3>5, PlusSame
      <3> QED
        BY <3>6 DEF x, y
    <2> HIDE DEF a, b
    <2>5. q \div P = r \div P /\ q \in Nat /\ r \in Nat
      BY <1>1, <2>2, <2>4, DivTwice, DivMod
    <2>6. a = P * q + (a % P) /\ b = P * r + (b % P)
      BY <1>1, <2>2, DivMod
    <2> HIDE DEF q, r
    <2>7. q = r
      BY <1>1, <2>3, <2>5, DigitsSame
    <2>8. a = b
      BY <2>3, <2>6, <2>7
    <2> QED
      BY <1>1, <1>2, <2>8 DEF a, b
  <1> QED
    BY <1>3, <1>4, <1>5

-----------------------------------------------------------------------------
(* Places                                                                   *)

LEMMA TopFacts == Top \notin Index /\ Top \in Depth /\ Index \subseteq Depth
  BY MapAssumption DEF Top, Index, Depth

LEMMA SpotIn ==
    ASSUME NEW f \in Files, NEW i \in Slots, NEW j \in Depth, NEW k \in Depth
    PROVE  /\ Spot(f, i, j, k) \in Spots
           /\ Spot(f, i, j, k).f = f /\ Spot(f, i, j, k).i = i
           /\ Spot(f, i, j, k).j = j /\ Spot(f, i, j, k).k = k
  BY DEF Spot, Spots

LEMMA SpotIs ==
    ASSUME NEW s \in Spots
    PROVE  /\ s = Spot(s.f, s.i, s.j, s.k)
           /\ s.f \in Files /\ s.i \in Slots /\ s.j \in Depth /\ s.k \in Depth
  BY DEF Spot, Spots

LEMMA LeafSpotIn ==
    ASSUME NEW f \in Files, NEW l \in Lbns
    PROVE  /\ LeafSpot(f, l) \in Spots /\ LeafSpot(f, l).f = f
           /\ ~OfIndex(LeafSpot(f, l))
  <1>1. SlotOf(l) \in Slots
    BY SlotArith
  <1>2. ~(IsDirect(SlotOf(l)) /\ IsDouble(SlotOf(l)))
    BY <1>1, MapAssumption DEF IsDirect, IsDouble, Slots
  <1>3. CASE IsDirect(SlotOf(l))
    BY <1>1, <1>3, SpotIn, TopFacts DEF LeafSpot, OfIndex
  <1>4. CASE ~IsDirect(SlotOf(l)) /\ IsDouble(SlotOf(l))
    BY <1>1, <1>4, SpotIn, TopFacts, SlotArith DEF LeafSpot, OfIndex
  <1>5. CASE ~IsDirect(SlotOf(l)) /\ ~IsDouble(SlotOf(l))
    BY <1>1, <1>5, SpotIn, TopFacts, SlotArith DEF LeafSpot, OfIndex
  <1> QED
    BY <1>3, <1>4, <1>5

LEMMA AtEntry ==
    ASSUME TypeOK, NEW b \in Entry, NEW x \in Index
    PROVE  At(b, x) \in Entry
  BY DEF TypeOK, At, Entry, Tables

LEMMA RefEntry ==
    ASSUME TypeOK, NEW s \in Spots
    PROVE  Ref(s) \in Entry
  <1>1. /\ s.f \in Files /\ s.i \in Slots
        /\ s.j # Top => s.j \in Index
        /\ s.k # Top => s.k \in Index
    BY SpotIs DEF Depth
  <1>2. addr[s.f][s.i] \in Entry /\ NoBlock \in Entry
    BY <1>1 DEF TypeOK, Entry
  <1>3. s.j # Top => FirstAt(s.f, s.i, s.j) \in Entry
    BY <1>1, <1>2, AtEntry DEF FirstAt
  <1>4. s.j # Top /\ s.k # Top => SecondAt(s.f, s.i, s.j, s.k) \in Entry
    BY <1>1, <1>2, <1>3, AtEntry DEF SecondAt
  <1> QED
    BY <1>2, <1>3, <1>4 DEF Ref

\* What a file's places name depends on i_addr, what ITrunc has passed, and the
\* contents of the file's own index blocks.
LEMMA FileFrame ==
    ASSUME TypeOK, NEW g \in Files,
           addr'[g] = addr[g], slot'[g] = slot[g], i1'[g] = i1[g], i2'[g] = i2[g],
           \A s \in Spots : s.f = g /\ OfIndex(s) /\ Ref(s) # NoBlock =>
                               mem'[Ref(s)] = mem[Ref(s)]
    PROVE  \A s \in Spots : s.f = g => Ref(s)' = Ref(s)
  <1>1. ASSUME NEW i \in Slots, NEW j \in Index
        PROVE  FirstAt(g, i, j)' = FirstAt(g, i, j)
    <2>1. CASE IsDirect(i) \/ (i = slot[g] /\ j >= i1[g])
      BY <2>1 DEF FirstAt, IsDirect
    <2>2. CASE ~(IsDirect(i) \/ (i = slot[g] /\ j >= i1[g]))
      <3> DEFINE t == Spot(g, i, Top, Top)
      <3>1. t \in Spots /\ t.f = g /\ OfIndex(t) /\ Ref(t) = addr[g][i]
        BY <2>2, SpotIn, TopFacts DEF OfIndex, Ref
      <3>2. addr[g][i] # NoBlock => mem'[addr[g][i]] = mem[addr[g][i]]
        BY <3>1
      <3>3. At(addr[g][i], j)' = At(addr[g][i], j)
        BY <3>2 DEF At
      <3> QED
        BY <2>2, <3>3 DEF FirstAt, IsDirect
    <2> QED
      BY <2>1, <2>2
  <1>2. ASSUME NEW i \in Slots, NEW j \in Index, NEW k \in Index
        PROVE  SecondAt(g, i, j, k)' = SecondAt(g, i, j, k)
    <2> DEFINE b == FirstAt(g, i, j)
               cut == ~IsDouble(i) \/ (i = slot[g] /\ j = i1[g] - 1 /\ k >= i2[g])
    <2>1. CASE cut
      BY <2>1 DEF SecondAt, IsDouble
    <2>2. CASE ~cut
      <3> DEFINE t == Spot(g, i, j, Top)
      <3>1. t \in Spots /\ t.f = g /\ OfIndex(t) /\ Ref(t) = b
        BY <2>2, SpotIn, TopFacts DEF OfIndex, Ref
      <3>2. b' = b /\ (b # NoBlock => mem'[b] = mem[b])
        BY <1>1, <3>1
      <3> HIDE DEF b
      <3>3. At(b, k)' = At(b, k)
        BY <3>2 DEF At
      <3> QED
        BY <2>2, <3>3 DEF SecondAt, IsDouble, b
    <2> QED
      BY <2>1, <2>2
  <1> SUFFICES ASSUME NEW s \in Spots, s.f = g PROVE Ref(s)' = Ref(s)
    OBVIOUS
  <1>3. /\ s.i \in Slots
        /\ s.j # Top => s.j \in Index
        /\ s.k # Top => s.k \in Index
    BY SpotIs DEF Depth
  <1> QED
    BY <1>1, <1>2, <1>3 DEF Ref, Top

-----------------------------------------------------------------------------
(* What one place more or less does to Apart                                *)

LEMMA ApartSame ==
    ASSUME Apart, free' = free,
           \A s \in Spots : Ref(s)' = Ref(s),
           \A f \in Files : \A b \in Entry : Holds(f, b)' <=> Holds(f, b),
           \A s \in Spots : Ref(s) \in Entry, free \subseteq Blocks
    PROVE  Apart'
  <1> USE DEF Apart, Entry
  <1>1. RefOnce' /\ RefUsed'
    BY DEF RefOnce, RefUsed
  <1>2. HandOnce' /\ HandUsed'
    BY DEF HandOnce, HandUsed
  <1>3. Accounted'
    BY DEF Accounted
  <1> QED
    BY <1>1, <1>2, <1>3

\* Alloc hands out b, which is kept in the process's hands ...
LEMMA ApartTake ==
    ASSUME Apart, NEW f \in Files, NEW c \in free, c \in Blocks, free' = free \ {c},
           \A s \in Spots : Ref(s)' = Ref(s),
           \A g \in Files \ {f} : \A b \in Entry : Holds(g, b)' <=> Holds(g, b),
           \A b \in Entry : ~Holds(f, b) /\ (Holds(f, b)' <=> b = c),
           \A s \in Spots : Ref(s) \in Entry, free \subseteq Blocks
    PROVE  Apart'
  <1> USE DEF Apart, Entry
  <1>1. RefOnce' /\ RefUsed'
    BY DEF RefOnce, RefUsed
  <1>2. HandUsed'
    BY DEF HandUsed
  <1>3. HandOnce'
    BY DEF HandUsed, HandOnce
  <1>4. Accounted'
    BY DEF Accounted
  <1> QED
    BY <1>1, <1>2, <1>3, <1>4

\* ... and gets its place.
LEMMA ApartLink ==
    ASSUME Apart, NEW f \in Files, NEW c \in Blocks, NEW t \in Spots, free' = free,
           \A s \in Spots \ {t} : Ref(s)' = Ref(s),
           Ref(t) = NoBlock, Ref(t)' = c,
           \A g \in Files \ {f} : \A b \in Entry : Holds(g, b)' <=> Holds(g, b),
           \A b \in Entry : ~Holds(f, b)' /\ (Holds(f, b) <=> b = c),
           \A s \in Spots : Ref(s) \in Entry,
           free \subseteq Blocks
    PROVE  Apart'
  <1> USE DEF Apart, Entry
  <1>1. c # NoBlock
    BY MapAssumption
  <1>2. c \notin free
    BY DEF HandUsed
  <1>3. \A s \in Spots : Ref(s) # c
    BY DEF RefUsed
  <1>4. RefOnce'
    BY <1>1, <1>3 DEF RefOnce
  <1>5. RefUsed'
    BY <1>1, <1>2, <1>3 DEF RefUsed, HandOnce
  <1>6. HandUsed' /\ HandOnce'
    BY DEF HandUsed, HandOnce
  <1>7. Accounted'
    <2> SUFFICES ASSUME NEW b \in Blocks
                 PROVE  \/ b \in free \/ (\E g \in Files : Holds(g, b)')
                        \/ \E s \in Spots : Ref(s)' = b
      BY DEF Accounted
    <2>1. CASE b = c
      BY <2>1
    <2>2. CASE b # c
      BY <1>1, <2>2, MapAssumption DEF Accounted
    <2> QED
      BY <2>1, <2>2
  <1> QED
    BY <1>4, <1>5, <1>6, <1>7

\* Alloc hands out c, which gets its place in the same step.
LEMMA ApartAdd ==
    ASSUME Apart, NEW c \in free, c \in Blocks, NEW t \in Spots, free' = free \ {c},
           \A s \in Spots \ {t} : Ref(s)' = Ref(s),
           Ref(t) = NoBlock, Ref(t)' = c,
           \A g \in Files : \A b \in Entry : Holds(g, b)' <=> Holds(g, b),
           \A s \in Spots : Ref(s) \in Entry, free \subseteq Blocks
    PROVE  Apart'
  <1> USE DEF Apart, Entry
  <1>1. c # NoBlock
    BY MapAssumption
  <1>2. \A g \in Files : ~Holds(g, c)
    BY DEF HandUsed
  <1>3. \A s \in Spots : Ref(s) # c
    BY DEF RefUsed
  <1>4. RefOnce'
    BY <1>1, <1>3 DEF RefOnce
  <1>5. RefUsed'
    BY <1>1, <1>2, <1>3 DEF RefUsed
  <1>6. HandUsed' /\ HandOnce'
    BY DEF HandUsed, HandOnce
  <1>7. Accounted'
    <2> SUFFICES ASSUME NEW b \in Blocks
                 PROVE  \/ b \in free' \/ (\E g \in Files : Holds(g, b)')
                        \/ \E s \in Spots : Ref(s)' = b
      BY DEF Accounted
    <2>1. CASE b = c
      BY <2>1
    <2>2. CASE b # c
      BY <1>1, <2>2, MapAssumption DEF Accounted
    <2> QED
      BY <2>1, <2>2
  <1> QED
    BY <1>4, <1>5, <1>6, <1>7

\* Free takes back the block of a place.
LEMMA ApartDrop ==
    ASSUME Apart, NEW c \in Blocks, NEW t \in Spots, free' = free \cup {c},
           \A s \in Spots \ {t} : Ref(s)' = Ref(s),
           Ref(t) = c, Ref(t)' = NoBlock,
           \A g \in Files : \A b \in Entry : Holds(g, b)' <=> Holds(g, b),
           \A s \in Spots : Ref(s) \in Entry,
           \A g \in Files : ~Holds(g, NoBlock), free \subseteq Blocks
    PROVE  Apart'
  <1> USE DEF Apart, Entry
  <1>1. c # NoBlock /\ NoBlock \notin free'
    BY MapAssumption
  <1>2. \A g \in Files : ~Holds(g, c)
    BY DEF RefUsed
  <1>3. \A s \in Spots \ {t} : Ref(s) # c
    BY <1>1 DEF RefOnce
  <1>4. RefOnce'
    BY <1>1, <1>3 DEF RefOnce
  <1>5. RefUsed'
    BY <1>1, <1>2, <1>3 DEF RefUsed
  <1>6. HandUsed' /\ HandOnce'
    BY <1>2 DEF HandUsed, HandOnce
  <1>7. Accounted'
    BY DEF Accounted
  <1> QED
    BY <1>4, <1>5, <1>6, <1>7

-----------------------------------------------------------------------------
(* A file that a step does not touch                                        *)

LEMMA StageSame ==
    ASSUME TypeOK, NEW g \in Files, StageOK(g),
           pc'[g] = pc[g], op'[g] = op[g], lbn'[g] = lbn[g],
           first'[g] = first[g], got'[g] = got[g],
           slot'[g] = slot[g], i1'[g] = i1[g], i2'[g] = i2[g],
           \A s \in Spots : s.f = g => Ref(s)' = Ref(s)
    PROVE  StageOK(g)'
  <1> DEFINE l == lbn[g]
  <1>1. l \in Lbns /\ SlotOf(l) \in Slots /\ slot[g] \in Slots /\ i1[g] \in 0 .. PerIndex
    BY SlotArith DEF TypeOK
  <1>2. Ref(LeafSpot(g, l))' = Ref(LeafSpot(g, l))
    <2>1. LeafSpot(g, l) \in Spots /\ LeafSpot(g, l).f = g
      BY <1>1, LeafSpotIn
    <2>2. LeafSpot(g, l)' = LeafSpot(g, l)
      BY DEF LeafSpot, Spot, SlotOf, MidOf, LeafOf, IsDirect, IsDouble
    <2> QED
      BY <2>1, <2>2
  <1>3. ASSUME NEW i \in Slots, NEW j \in Depth
        PROVE  Ref(Spot(g, i, j, Top))' = Ref(Spot(g, i, j, Top))
    BY SpotIn, TopFacts
  <1>4. i1[g] >= 1 => i1[g] - 1 \in Depth
    BY <1>1, MapAssumption DEF Depth, Index
  <1>5. IsDouble(SlotOf(l)) => MidOf(l) \in Depth
    BY <1>1, SlotArith DEF Depth
  <1>6. Ref(Spot(g, slot[g], Top, Top))' = Ref(Spot(g, slot[g], Top, Top))
    BY <1>1, <1>3, TopFacts
  <1>7. i1[g] >= 1 => Ref(Spot(g, slot[g], i1[g] - 1, Top))' = Ref(Spot(g, slot[g], i1[g] - 1, Top))
    BY <1>1, <1>3, <1>4
  <1> DEFINE j == IF IsDouble(SlotOf(l)) THEN MidOf(l) ELSE Top
  <1>8. /\ Ref(Spot(g, SlotOf(l), Top, Top))' = Ref(Spot(g, SlotOf(l), Top, Top))
        /\ Ref(Spot(g, SlotOf(l), j, Top))' = Ref(Spot(g, SlotOf(l), j, Top))
    BY <1>1, <1>3, <1>5, TopFacts
  <1> USE DEF StageOK
  <1>a. pc'[g] = "second" =>
          /\ IsDouble(slot'[g]) /\ i1'[g] >= 1
          /\ first'[g] # NoBlock /\ first'[g] = Ref(Spot(g, slot[g], Top, Top))'
          /\ got'[g] # NoBlock /\ got'[g] = Ref(Spot(g, slot[g], i1[g] - 1, Top))'
    BY <1>6, <1>7
  <1>b. pc'[g] = "leaf" =>
          /\ ~IsDirect(SlotOf(lbn'[g])) /\ first'[g] # NoBlock
          /\ first'[g] = Ref(Spot(g, SlotOf(l), j, Top))'
    BY <1>8
  <1> QED
    BY <1>2, <1>6, <1>8, <1>a, <1>b

\* A step of f changes no variable of another file, and no block that another names.
StepOf(f) ==
    /\ \A g \in Files \ {f} :
          /\ addr'[g] = addr[g] /\ written'[g] = written[g]
          /\ pc'[g] = pc[g] /\ op'[g] = op[g] /\ lbn'[g] = lbn[g]
          /\ first'[g] = first[g] /\ got'[g] = got[g]
          /\ slot'[g] = slot[g] /\ i1'[g] = i1[g] /\ i2'[g] = i2[g]
    /\ \A b \in Blocks :
          \/ mem'[b] = mem[b] /\ disk'[b] = disk[b]
          \/ b \in free
          \/ \E t \in Spots : t.f = f /\ Ref(t) = b

\* The blocks of a file and the one in its process's hands are as they were.
Kept(f) ==
    /\ \A s \in Spots : s.f = f /\ Ref(s) # NoBlock =>
          mem'[Ref(s)] = mem[Ref(s)] /\ disk'[Ref(s)] = disk[Ref(s)]
    /\ \A b \in Blocks : Holds(f, b) => mem'[b] = mem[b] /\ disk'[b] = disk[b]

RefsSame(f) == \A s \in Spots : s.f = f => Ref(s)' = Ref(s)

\* What the places of a file name, they name after the step, too.
Grows(f) == \A s \in Spots : s.f = f /\ Ref(s) # NoBlock => Ref(s)' = Ref(s)

LEMMA TablesSame ==
    ASSUME NEW g \in Files, TablesOK(g), RefsSame(g), Kept(g)
    PROVE  TablesOK(g)'
  BY DEF TablesOK, RefsSame, Kept, OfIndex, IsDirect, IsDouble

LEMMA FreshSame ==
    ASSUME TypeOK, NEW g \in Files, StageOK(g), FreshOK(g), RefsSame(g), Kept(g),
           pc'[g] \in Live => pc[g] \in Live,
           pc'[g] = "direct" => pc[g] = "direct" /\ got'[g] = got[g],
           written'[g] = written[g]
    PROVE  FreshOK(g)'
  <1> SUFFICES ASSUME pc'[g] \in Live
               PROVE  /\ \A l \in Lbns : FreshAt(g, l, Ref(LeafSpot(g, l)))'
                      /\ pc'[g] = "direct" => mem'[got'[g]] = Zero /\ disk'[got'[g]] = Zero
    BY DEF FreshOK, Zero
  <1>1. ASSUME NEW l \in Lbns
        PROVE  FreshAt(g, l, Ref(LeafSpot(g, l)))'
    <2> DEFINE b == Ref(LeafSpot(g, l))
    <2>1. LeafSpot(g, l) \in Spots /\ LeafSpot(g, l).f = g
      BY LeafSpotIn
    <2>2. FreshAt(g, l, b)
      BY DEF FreshOK
    <2>3. b' = b /\ (b # NoBlock => mem'[b] = mem[b] /\ disk'[b] = disk[b])
      BY <2>1 DEF RefsSame, Kept
    <2> HIDE DEF b
    <2>4. FreshAt(g, l, b)'
      BY <2>2, <2>3 DEF FreshAt, Zero
    <2> QED
      BY <2>4 DEF b
  <1>2. pc'[g] = "direct" => mem'[got'[g]] = Zero /\ disk'[got'[g]] = Zero
    BY DEF FreshOK, Kept, Holds, StageOK
  <1> QED
    BY <1>1, <1>2

LEMMA Others ==
    ASSUME TypeOK, MapInv, NEW f \in Files, StepOf(f), NEW g \in Files \ {f}
    PROVE  /\ FileOK(g)' /\ RefsSame(g)
           /\ \A b \in Entry : Holds(g, b)' <=> Holds(g, b)
  <1>1. Apart /\ FileOK(g)
    BY DEF MapInv
  <1>2. \A s \in Spots : Ref(s) \in Entry
    BY RefEntry
  <1>3. Kept(g)
    <2>1. ASSUME NEW s \in Spots, s.f = g, Ref(s) # NoBlock
          PROVE  mem'[Ref(s)] = mem[Ref(s)] /\ disk'[Ref(s)] = disk[Ref(s)]
      <3>1. Ref(s) \in Blocks /\ Ref(s) \notin free
        BY <1>1, <1>2, <2>1 DEF Entry, Apart, RefUsed
      <3>2. ~\E t \in Spots : t.f = f /\ Ref(t) = Ref(s)
        BY <1>1, <2>1 DEF Apart, RefOnce
      <3> QED
        BY <3>1, <3>2 DEF StepOf
    <2>2. ASSUME NEW b \in Blocks, Holds(g, b)
          PROVE  mem'[b] = mem[b] /\ disk'[b] = disk[b]
      <3>1. b \notin free /\ ~\E t \in Spots : Ref(t) = b
        BY <1>1, <2>2 DEF Apart, RefUsed, HandUsed
      <3> QED
        BY <3>1 DEF StepOf
    <2> QED
      BY <2>1, <2>2 DEF Kept
  <1>4. RefsSame(g)
    <2>1. \A s \in Spots : s.f = g /\ OfIndex(s) /\ Ref(s) # NoBlock => mem'[Ref(s)] = mem[Ref(s)]
      BY <1>3 DEF Kept
    <2>2. addr'[g] = addr[g] /\ slot'[g] = slot[g] /\ i1'[g] = i1[g] /\ i2'[g] = i2[g]
      BY DEF StepOf
    <2> QED
      BY <2>1, <2>2, FileFrame DEF RefsSame
  <1>5. TablesOK(g)'
    BY <1>1, <1>3, <1>4, TablesSame DEF FileOK
  <1>6. StageOK(g)'
    <2>1. \A s \in Spots : s.f = g => Ref(s)' = Ref(s)
      BY <1>4 DEF RefsSame
    <2> QED
      BY <1>1, <2>1, StageSame DEF FileOK, StepOf
  <1>7. FreshOK(g)'
    BY <1>1, <1>3, <1>4, FreshSame DEF FileOK, StepOf
  <1>8. \A b \in Entry : Holds(g, b)' <=> Holds(g, b)
    BY DEF Holds, StepOf
  <1> QED
    BY <1>4, <1>5, <1>6, <1>7, <1>8 DEF FileOK

LEMMA Step ==
    ASSUME TypeOK, MapInv, NEW f \in Files, StepOf(f), Apart', FileOK(f)'
    PROVE  MapInv'
  <1>1. ASSUME NEW g \in Files PROVE FileOK(g)'
    <2>1. CASE g = f
      BY <2>1
    <2>2. CASE g # f
      BY <2>2, Others
    <2> QED
      BY <2>1, <2>2
  <1> QED
    BY <1>1 DEF MapInv

-----------------------------------------------------------------------------
(* What the places of a file name                                           *)

LEMMA RefOf ==
    ASSUME NEW f \in Files, NEW i \in Slots, NEW j \in Index, NEW k \in Index
    PROVE  /\ Ref(Spot(f, i, Top, Top)) = addr[f][i]
           /\ Ref(Spot(f, i, Top, Top))' = addr'[f][i]
           /\ Ref(Spot(f, i, j, Top)) = FirstAt(f, i, j)
           /\ Ref(Spot(f, i, j, Top))' = FirstAt(f, i, j)'
           /\ Ref(Spot(f, i, j, k)) = SecondAt(f, i, j, k)
           /\ Ref(Spot(f, i, j, k))' = SecondAt(f, i, j, k)'
  <1>1. j # Top /\ k # Top
    BY TopFacts
  <1>2. \A x, y \in Depth : /\ Spot(f, i, x, y).f = f /\ Spot(f, i, x, y).i = i
                            /\ Spot(f, i, x, y).j = x /\ Spot(f, i, x, y).k = y
    BY SpotIn
  <1> QED
    BY <1>1, <1>2, TopFacts DEF Ref, Top

\* Outside ITrunc nothing has been passed.
LEMMA NoCut ==
    ASSUME NEW f \in Files, NEW i \in Slots, NEW j \in Index, NEW k \in Index
    PROVE  /\ i1[f] = PerIndex => FirstAt(f, i, j) = IF IsDirect(i) THEN NoBlock ELSE At(addr[f][i], j)
           /\ i1'[f] = PerIndex => FirstAt(f, i, j)' = IF IsDirect(i) THEN NoBlock ELSE At(addr[f][i], j)'
           /\ i2[f] = PerIndex => SecondAt(f, i, j, k) = IF ~IsDouble(i) THEN NoBlock ELSE At(FirstAt(f, i, j), k)
           /\ i2'[f] = PerIndex => SecondAt(f, i, j, k)' = IF ~IsDouble(i) THEN NoBlock ELSE At(FirstAt(f, i, j), k)'
  <1>1. j \in Int /\ j < PerIndex /\ k \in Int /\ k < PerIndex /\ PerIndex \in Int
    BY MapAssumption DEF Index
  <1>2. ~(j >= PerIndex) /\ ~(k >= PerIndex)
    BY <1>1
  <1> QED
    BY <1>2 DEF FirstAt, SecondAt, IsDirect, IsDouble

LEMMA SlotKinds ==
    ASSUME NEW i \in Slots
    PROVE  IsDouble(i) => ~IsDirect(i)
  BY MapAssumption DEF IsDirect, IsDouble, Slots

\* The place of a block of the file, along the walk of Bmap.
LEMMA LeafRef ==
    ASSUME TypeOK, NEW f \in Files, NEW l \in Lbns, i1[f] = PerIndex, i2[f] = PerIndex
    PROVE  /\ SlotOf(l) \in Slots
           /\ IsDirect(SlotOf(l)) => Ref(LeafSpot(f, l)) = addr[f][SlotOf(l)]
           /\ ~IsDirect(SlotOf(l)) /\ ~IsDouble(SlotOf(l)) =>
                  Ref(LeafSpot(f, l)) = At(Ref(Spot(f, SlotOf(l), Top, Top)), LeafOf(l))
           /\ IsDouble(SlotOf(l)) =>
                  Ref(LeafSpot(f, l)) = At(Ref(Spot(f, SlotOf(l), MidOf(l), Top)), LeafOf(l))
           /\ IsDouble(SlotOf(l)) =>
                  Ref(Spot(f, SlotOf(l), MidOf(l), Top))
                      = At(Ref(Spot(f, SlotOf(l), Top, Top)), MidOf(l))
  <1> DEFINE i == SlotOf(l)
  <1>1. /\ i \in Slots
        /\ ~IsDirect(i) => LeafOf(l) \in Index
        /\ IsDouble(i) => MidOf(l) \in Index /\ ~IsDirect(i)
    BY SlotArith, SlotKinds
  <1>0. 0 \in Index
    BY MapAssumption DEF Index
  <1>2. IsDirect(i) => Ref(LeafSpot(f, l)) = addr[f][i]
    BY <1>0, <1>1, RefOf DEF LeafSpot
  <1>3. ASSUME ~IsDirect(i), ~IsDouble(i)
        PROVE  Ref(LeafSpot(f, l)) = At(Ref(Spot(f, i, Top, Top)), LeafOf(l))
    <2>1. LeafSpot(f, l) = Spot(f, i, LeafOf(l), Top)
      BY <1>3 DEF LeafSpot
    <2> QED
      BY <1>0, <1>1, <1>3, <2>1, RefOf, NoCut
  <1>4. ASSUME IsDouble(i)
        PROVE  /\ Ref(LeafSpot(f, l)) = At(Ref(Spot(f, i, MidOf(l), Top)), LeafOf(l))
               /\ Ref(Spot(f, i, MidOf(l), Top)) = At(Ref(Spot(f, i, Top, Top)), MidOf(l))
    <2>1. LeafSpot(f, l) = Spot(f, i, MidOf(l), LeafOf(l))
      BY <1>1, <1>4 DEF LeafSpot
    <2> QED
      BY <1>1, <1>4, <2>1, RefOf, NoCut
  <1> QED
    BY <1>1, <1>2, <1>3, <1>4

\* An index block holds a table.
LEMMA TableAt ==
    ASSUME TypeOK, NEW s \in Spots, TablesOK(s.f), OfIndex(s), Ref(s) # NoBlock
    PROVE  /\ Ref(s) \in Blocks /\ mem[Ref(s)] \in Tables
           /\ \A x \in Index : At(Ref(s), x) = mem[Ref(s)][x] /\ mem[Ref(s)][x] \in Entry
  <1>1. mem[Ref(s)] \in Tables /\ Ref(s) \in Entry
    BY RefEntry DEF TablesOK
  <1>2. mem[Ref(s)] # Data
    BY <1>1, DataAssumption
  <1> QED
    BY <1>1, <1>2 DEF At, Entry, Tables

-----------------------------------------------------------------------------
(* Steps that change neither a map nor a block                              *)

LEMMA Calm ==
    ASSUME TypeOK, MapInv, NEW f \in Files, StepOf(f), RefsSame(f),
           mem' = mem, disk' = disk, free' = free,
           pc[f] # "direct", pc'[f] # "direct", StageOK(f)', FreshOK(f)'
    PROVE  MapInv'
  <1>1. Apart /\ FileOK(f)
    BY DEF MapInv
  <1>2. Kept(f)
    BY DEF Kept
  <1>3. TablesOK(f)'
    BY <1>1, <1>2, TablesSame DEF FileOK
  <1>4. \A s \in Spots : Ref(s)' = Ref(s) /\ Ref(s) \in Entry
    BY RefEntry, Others, SpotIs DEF RefsSame
  <1>5. \A g \in Files : \A b \in Entry : Holds(g, b)' <=> Holds(g, b)
    <2> SUFFICES ASSUME NEW g \in Files, NEW b \in Entry PROVE Holds(g, b)' <=> Holds(g, b)
      OBVIOUS
    <2>1. CASE g = f
      BY <2>1 DEF Holds
    <2>2. CASE g # f
      BY <2>2, Others
    <2> QED
      BY <2>1, <2>2
  <1>6. Apart'
    <2>1. free \subseteq Blocks
      BY DEF TypeOK
    <2> QED
      BY <1>1, <1>4, <1>5, <2>1, ApartSame
  <1> QED
    BY <1>3, <1>6, Step DEF FileOK

LEMMA Quiet ==
    ASSUME TypeOK, MapInv, NEW f \in Files, StepOf(f), RefsSame(f),
           mem' = mem, disk' = disk, free' = free, written'[f] = written[f],
           pc'[f] \in Live => pc[f] \in Live,
           pc[f] # "direct", pc'[f] # "direct", StageOK(f)'
    PROVE  MapInv' /\ StepOf(f) /\ Grows(f)
  <1>1. FileOK(f) /\ Kept(f)
    BY DEF MapInv, Kept
  <1>2. FreshOK(f)'
    BY <1>1, FreshSame DEF FileOK
  <1> QED
    BY <1>2, Calm DEF Grows, RefsSame

LEMMA StillRefs ==
    ASSUME TypeOK, NEW f \in Files, mem' = mem, addr'[f] = addr[f],
           slot'[f] = slot[f], i1'[f] = i1[f], i2'[f] = i2[f]
    PROVE  RefsSame(f)
  BY FileFrame DEF RefsSame

LEMMA AskPreserves ==
    ASSUME TypeOK, MapInv, NEW f \in Files, NEW l \in Lbns, NEW o, Ask(f, o, l)
    PROVE  MapInv' /\ StepOf(f) /\ Grows(f)
  <1>1. StepOf(f)
    BY DEF Ask, Goto, StepOf, TypeOK, file, block, bufs, trunc
  <1>2. RefsSame(f)
    BY StillRefs DEF Ask, file, block, trunc
  <1>3. StageOK(f)
    BY DEF MapInv, FileOK
  <1>4. pc[f] = "idle" /\ pc'[f] = "map"
    BY DEF Ask, Goto, TypeOK
  <1>5. StageOK(f)'
    BY <1>3, <1>4 DEF StageOK, Ask, trunc
  <1> QED
    BY <1>1, <1>2, <1>4, <1>5, Quiet DEF Ask, block, Live

LEMMA DirectFoundPreserves ==
    ASSUME TypeOK, MapInv, NEW f \in Files, DirectFound(f)
    PROVE  MapInv' /\ StepOf(f) /\ Grows(f)
  <1>0. PICK l \in Lbns : l = lbn[f]
    BY DEF TypeOK
  <1>1. StepOf(f)
    BY DEF DirectFound, Goto, Find, StepOf, TypeOK, file, block, call, trunc
  <1>2. RefsSame(f)
    BY StillRefs DEF DirectFound, file, block, trunc
  <1>3. StageOK(f)
    BY DEF MapInv, FileOK, TypeOK
  <1>4. pc[f] = "map" /\ pc'[f] = "io" /\ lbn'[f] = l /\ got'[f] = addr[f][SlotOf(l)]
    BY <1>0 DEF DirectFound, Goto, Find, TypeOK, call
  <1>5. got'[f] = Ref(LeafSpot(f, l))
    BY <1>0, <1>3, <1>4, LeafRef DEF StageOK, DirectFound
  <1>6. Ref(LeafSpot(f, l))' = Ref(LeafSpot(f, l))
    BY <1>0, <1>2, LeafSpotIn DEF RefsSame
  <1>8. StageOK(f)'
    BY <1>0, <1>3, <1>4, <1>5, <1>6 DEF StageOK, DirectFound, call, trunc
  <1> QED
    BY <1>1, <1>2, <1>4, <1>8, Quiet DEF DirectFound, block, Live

LEMMA TopFoundPreserves ==
    ASSUME TypeOK, MapInv, NEW f \in Files, TopFound(f)
    PROVE  MapInv' /\ StepOf(f) /\ Grows(f)
  <1>0. PICK l \in Lbns : l = lbn[f]
    BY DEF TypeOK
  <1> DEFINE i == SlotOf(l)
  <1>1. StepOf(f)
    BY DEF TopFound, Goto, Hold, StepOf, TypeOK, file, block, call, trunc
  <1>2. RefsSame(f)
    BY StillRefs DEF TopFound, file, block, trunc
  <1>3. StageOK(f) /\ i \in Slots
    BY SlotArith DEF MapInv, FileOK, TypeOK
  <1>4. /\ pc[f] = "map" /\ pc'[f] = Below(i) /\ lbn'[f] = l /\ first'[f] = addr[f][i]
        /\ ~IsDirect(i) /\ addr[f][i] # NoBlock
    BY <1>0 DEF TopFound, Goto, Hold, TypeOK, call
  <1>5. Ref(Spot(f, i, Top, Top))' = addr[f][i]
    <2>1. 0 \in Index
      BY MapAssumption DEF Index
    <2> QED
      BY <1>0, <1>3, <2>1, RefOf DEF TopFound, file
  <1>6. StageOK(f)'
    BY <1>0, <1>3, <1>4, <1>5 DEF StageOK, TopFound, call, trunc, Below
  <1> QED
    BY <1>1, <1>2, <1>4, <1>6, Quiet DEF TopFound, block, Live, Below

LEMMA MidFoundPreserves ==
    ASSUME TypeOK, MapInv, NEW f \in Files, MidFound(f)
    PROVE  MapInv' /\ StepOf(f) /\ Grows(f)
  <1>0. PICK l \in Lbns : l = lbn[f]
    BY DEF TypeOK
  <1> DEFINE i == SlotOf(l)
             m == MidOf(l)
             s == Spot(f, i, Top, Top)
             t == Spot(f, i, m, Top)
  <1>1. StepOf(f)
    BY DEF MidFound, Goto, Hold, StepOf, TypeOK, file, block, call, trunc
  <1>2. RefsSame(f)
    BY StillRefs DEF MidFound, file, block, trunc
  <1>3. StageOK(f) /\ TablesOK(f)
    BY DEF MapInv, FileOK, TypeOK
  <1>4. /\ pc[f] = "mid" /\ pc'[f] = "leaf" /\ lbn'[f] = l
        /\ first'[f] = mem[first[f]][m] /\ first'[f] # NoBlock
    BY <1>0 DEF MidFound, Goto, Hold, TypeOK, call
  <1>5. IsDouble(i) /\ first[f] # NoBlock /\ first[f] = Ref(s)
    BY <1>0, <1>3, <1>4 DEF StageOK
  <1>6. i \in Slots /\ m \in Index /\ ~IsDirect(i)
    BY <1>0, <1>3, <1>5, SlotArith, SlotKinds
  <1>7. s \in Spots /\ s.f = f /\ OfIndex(s) /\ t \in Spots /\ t.f = f
    BY <1>0, <1>6, SpotIn, TopFacts DEF OfIndex
  <1>8. first'[f] = Ref(t)
    <2>1. At(Ref(s), m) = mem[Ref(s)][m]
      BY <1>0, <1>3, <1>5, <1>6, <1>7, TableAt
    <2> QED
      BY <1>0, <1>3, <1>4, <1>5, <2>1, LeafRef DEF StageOK
  <1>9. Ref(t)' = Ref(t)
    BY <1>0, <1>2, <1>7 DEF RefsSame
  <1>a. StageOK(f)'
    BY <1>0, <1>3, <1>4, <1>5, <1>6, <1>8, <1>9 DEF StageOK, MidFound, call, trunc
  <1> QED
    BY <1>1, <1>2, <1>4, <1>a, Quiet DEF MidFound, block, Live

LEMMA LeafFoundPreserves ==
    ASSUME TypeOK, MapInv, NEW f \in Files, LeafFound(f)
    PROVE  MapInv' /\ StepOf(f) /\ Grows(f)
  <1>0. PICK l \in Lbns : l = lbn[f]
    BY DEF TypeOK
  <1> DEFINE i == SlotOf(l)
             j == IF IsDouble(i) THEN MidOf(l) ELSE Top
             s == Spot(f, i, j, Top)
  <1>1. StepOf(f)
    BY DEF LeafFound, Goto, Hold, Find, StepOf, TypeOK, file, block, call, trunc
  <1>2. RefsSame(f)
    BY StillRefs DEF LeafFound, file, block, trunc
  <1>3. StageOK(f) /\ TablesOK(f)
    BY DEF MapInv, FileOK, TypeOK
  <1>4. /\ pc[f] = "leaf" /\ pc'[f] = "io" /\ lbn'[f] = l
        /\ got'[f] = mem[first[f]][LeafOf(l)] /\ got'[f] # NoBlock
    BY <1>0 DEF LeafFound, Goto, Hold, Find, TypeOK, call
  <1>5. ~IsDirect(i) /\ first[f] # NoBlock /\ first[f] = Ref(s)
    BY <1>0, <1>3, <1>4 DEF StageOK
  <1>6. i \in Slots /\ LeafOf(l) \in Index /\ j \in Depth
    BY <1>0, <1>3, <1>5, SlotArith, TopFacts
  <1>7. s \in Spots /\ s.f = f /\ OfIndex(s)
    BY <1>0, <1>5, <1>6, SpotIn, SlotArith, <1>3, TopFacts DEF OfIndex
  <1>8. got'[f] = Ref(LeafSpot(f, l))
    <2>1. At(Ref(s), LeafOf(l)) = mem[Ref(s)][LeafOf(l)]
      BY <1>0, <1>3, <1>5, <1>6, <1>7, TableAt
    <2>2. i1[f] = PerIndex /\ i2[f] = PerIndex
      BY <1>0, <1>3, <1>4 DEF StageOK
    <2>3. Ref(LeafSpot(f, l)) = At(Ref(s), LeafOf(l))
      BY <1>0, <1>3, <1>5, <2>2, LeafRef
    <2> QED
      BY <1>0, <1>4, <1>5, <2>1, <2>3
  <1>9. Ref(LeafSpot(f, l))' = Ref(LeafSpot(f, l))
    BY <1>0, <1>2, LeafSpotIn DEF RefsSame
  <1>b. StageOK(f)'
    BY <1>0, <1>3, <1>4, <1>8, <1>9 DEF StageOK, LeafFound, call, trunc
  <1> QED
    BY <1>1, <1>2, <1>4, <1>b, Quiet DEF LeafFound, block, Live

\* The process leaves Bmap, its read or its write.
LEMMA ReturnPreserves ==
    ASSUME TypeOK, MapInv, NEW f \in Files, Return(f),
           pc[f] \in {"map", "mid", "leaf", "io"},
           UNCHANGED <<file, block, trunc, written, sound>>
    PROVE  MapInv' /\ StepOf(f) /\ Grows(f)
  <1>1. StepOf(f)
    BY DEF Return, Goto, Hold, Find, StepOf, TypeOK, file, block, trunc
  <1>2. RefsSame(f)
    BY StillRefs DEF file, block, trunc
  <1>3. StageOK(f)
    BY DEF MapInv, FileOK
  <1>4. pc'[f] = "idle" /\ op'[f] = "none"
    BY DEF Return, Goto, TypeOK
  <1>5. StageOK(f)'
    BY <1>3, <1>4 DEF StageOK, trunc
  <1> QED
    BY <1>1, <1>2, <1>4, <1>5, Quiet DEF block, Live

LEMMA LeavePreserves ==
    ASSUME TypeOK, MapInv, NEW f \in Files, MapFails(f) \/ Fetch(f)
    PROVE  MapInv' /\ StepOf(f) /\ Grows(f)
  <1>1. CASE MapFails(f)
    BY <1>1, ReturnPreserves DEF MapFails
  <1>2. CASE Fetch(f)
    BY <1>2, ReturnPreserves DEF Fetch
  <1> QED
    BY <1>1, <1>2

LEMMA DeletePreserves ==
    ASSUME TypeOK, MapInv, NEW f \in Files, Delete(f)
    PROVE  MapInv' /\ StepOf(f)
  <1>1. StepOf(f)
    BY DEF Delete, Goto, StepOf, TypeOK, file, block, call, bufs, trunc
  <1>2. RefsSame(f)
    BY StillRefs DEF Delete, file, block, trunc
  <1>3. StageOK(f)
    BY DEF MapInv, FileOK
  <1>4. pc[f] = "idle" /\ pc'[f] = "slots"
    BY DEF Delete, Goto, TypeOK
  <1>5. StageOK(f)'
    BY <1>3, <1>4 DEF StageOK, Delete, trunc, call
  <1> QED
    BY <1>1, <1>2, <1>4, <1>5, Quiet DEF Delete, block, Live

LEMMA TruncFailsPreserves ==
    ASSUME TypeOK, MapInv, NEW f \in Files, TruncFails(f)
    PROVE  MapInv' /\ StepOf(f)
  <1>1. StepOf(f)
    BY DEF TruncFails, Goto, Hold, StepOf, TypeOK, file, block, call, trunc
  <1>2. RefsSame(f)
    BY StillRefs DEF TruncFails, file, block, trunc
  <1>3. StageOK(f)
    BY DEF MapInv, FileOK
  <1>4. pc[f] \in {"slots", "first"} /\ pc'[f] = "lost"
    BY DEF TruncFails, Goto, TypeOK
  <1>5. StageOK(f)'
    BY <1>3, <1>4 DEF StageOK, TruncFails, call
  <1> QED
    BY <1>1, <1>2, <1>4, <1>5, Quiet DEF TruncFails, block, Live

\* The slot that ITrunc turns to has not been passed: its counters are full.
LEMMA FirstOpenPreserves ==
    ASSUME TypeOK, MapInv, NEW f \in Files, FirstOpen(f)
    PROVE  MapInv' /\ StepOf(f)
  <1>1. PICK i \in Slots : /\ ~IsDirect(i) /\ NextSlot(f, i)
                           /\ Hold(f, addr[f][i]) /\ slot' = [slot EXCEPT ![f] = i]
    BY DEF FirstOpen
  <1>2. StepOf(f)
    BY <1>1 DEF FirstOpen, Goto, Hold, StepOf, TypeOK, file, block, call
  <1>3. StageOK(f)
    BY DEF MapInv, FileOK
  <1>4. /\ pc[f] = "slots" /\ pc'[f] = "first" /\ first'[f] = addr[f][i] /\ slot'[f] = i
        /\ addr[f][i] # NoBlock
    BY <1>1 DEF FirstOpen, Goto, Hold, TypeOK, NextSlot
  <1>5. i1[f] = PerIndex /\ i2[f] = PerIndex /\ i1'[f] = PerIndex /\ i2'[f] = PerIndex
    BY <1>3, <1>4 DEF StageOK, FirstOpen
  <1>6. mem' = mem /\ addr' = addr /\ i1' = i1 /\ i2' = i2
    BY DEF FirstOpen, file, block
  <1>7. \A x \in Slots : \A j \in Index : FirstAt(f, x, j)' = FirstAt(f, x, j)
    BY <1>5, <1>6, NoCut DEF At, IsDirect
  <1>8. \A x \in Slots : \A j, k \in Index : SecondAt(f, x, j, k)' = SecondAt(f, x, j, k)
    BY <1>5, <1>6, <1>7, NoCut DEF At, IsDouble
  <1>9. RefsSame(f)
    BY <1>6, <1>7, <1>8, SpotIs DEF RefsSame, Ref, Depth, Top
  <1>a. Ref(Spot(f, i, Top, Top))' = addr[f][i]
    <2>1. 0 \in Index
      BY MapAssumption DEF Index
    <2> QED
      BY <1>6, <2>1, RefOf
  <1>b. StageOK(f)'
    <2>1. slot[f]' = i /\ first[f]' = Ref(Spot(f, slot[f], Top, Top))'
      BY <1>4, <1>a
    <2> QED
      BY <1>1, <1>3, <1>4, <1>5, <2>1 DEF StageOK, FirstOpen, call
  <1> QED
    BY <1>2, <1>4, <1>9, <1>b, Quiet DEF FirstOpen, block, Live

LEMMA SecondOpenPreserves ==
    ASSUME TypeOK, MapInv, NEW f \in Files, SecondOpen(f)
    PROVE  MapInv' /\ StepOf(f)
  <1>0. PICK i \in Slots, c \in 0 .. PerIndex : i = slot[f] /\ c = i1[f]
    BY DEF TypeOK
  <1>1. PICK j \in Index : /\ NextEntry(mem[first[f]], c, j) /\ Find(f, mem[first[f]][j])
                           /\ i1' = [i1 EXCEPT ![f] = j + 1]
    BY <1>0 DEF SecondOpen
  <1>2. StepOf(f)
    BY <1>1 DEF SecondOpen, Goto, Find, StepOf, TypeOK, file, block, call
  <1>3. StageOK(f) /\ TablesOK(f)
    BY DEF MapInv, FileOK
  <1>4. /\ pc[f] = "first" /\ pc'[f] = "second" /\ got'[f] = mem[first[f]][j]
        /\ i1'[f] = j + 1 /\ first' = first /\ slot' = slot /\ i2' = i2
        /\ mem' = mem /\ addr' = addr /\ IsDouble(i)
    BY <1>0, <1>1 DEF SecondOpen, Goto, Find, TypeOK, file, block
  <1>5. i2[f] = PerIndex /\ first[f] # NoBlock /\ first[f] = Ref(Spot(f, i, Top, Top))
    BY <1>0, <1>3, <1>4 DEF StageOK
  <1>6. j \in 0 .. PerIndex - 1 /\ c \in 0 .. PerIndex /\ PerIndex \in Nat /\ Index = 0 .. PerIndex - 1
    BY MapAssumption DEF Index
  <1>7. first[f] = addr[f][i] /\ \A x \in Index : At(addr[f][i], x) = mem[first[f]][x]
    <2> DEFINE s == Spot(f, i, Top, Top)
    <2>1. s \in Spots /\ s.f = f /\ OfIndex(s)
      BY <1>4, SpotIn, TopFacts, SlotKinds DEF OfIndex
    <2>2. Ref(s) = addr[f][i]
      BY <1>6, RefOf
    <2> QED
      BY <1>3, <1>5, <2>1, <2>2, TableAt
  <1>8. /\ j < c /\ mem[first[f]][j] # NoBlock
        /\ \A x \in j + 1 .. c - 1 : mem[first[f]][x] = NoBlock
    BY <1>1 DEF NextEntry
  <1>9. ASSUME NEW x \in Slots, NEW k \in Index
        PROVE  FirstAt(f, x, k)' = FirstAt(f, x, k)
    <2>0. At(addr[f][x], k)' = At(addr[f][x], k)
      BY <1>4 DEF At
    <2>1. CASE x # i
      BY <1>0, <1>4, <2>0, <2>1 DEF FirstAt, IsDirect
    <2>2. CASE x = i /\ (k <= j \/ k >= c)
      <3>1. (k >= c) <=> (k >= j + 1)
        BY <1>6, <1>8, <2>2
      <3> QED
        BY <1>0, <1>4, <2>0, <2>2, <3>1 DEF FirstAt, IsDirect
    <2>3. CASE x = i /\ k \in j + 1 .. c - 1
      <3>1. ~(k >= c) /\ k >= j + 1
        BY <1>6, <2>3
      <3> QED
        BY <1>0, <1>4, <1>7, <1>8, <2>3, <3>1 DEF FirstAt, IsDirect
    <2> QED
      BY <1>6, <2>1, <2>2, <2>3
  <1>a. \A x \in Slots : \A k, m \in Index : SecondAt(f, x, k, m)' = SecondAt(f, x, k, m)
    BY <1>4, <1>5, <1>9, NoCut DEF At, IsDouble
  <1>b. RefsSame(f)
    BY <1>4, <1>9, <1>a, SpotIs DEF RefsSame, Ref, Depth, Top
  <1>c. /\ Ref(Spot(f, i, Top, Top))' = first[f]
        /\ Ref(Spot(f, i, j, Top))' = mem[first[f]][j]
    <2>1. Ref(Spot(f, i, Top, Top))' = first[f]
      BY <1>4, <1>6, <1>7, RefOf
    <2>2. ~IsDirect(i) /\ ~(j >= j + 1)
      BY <1>4, <1>6, SlotKinds
    <2>3. FirstAt(f, i, j)' = At(addr[f][i], j)'
      BY <1>0, <1>4, <2>2 DEF FirstAt, IsDirect
    <2>4. At(addr[f][i], j)' = At(addr[f][i], j)
      BY <1>4 DEF At
    <2> QED
      BY <1>7, <2>1, <2>3, <2>4, RefOf
  <1>d. StageOK(f)'
    <2>1. slot'[f] = i /\ i1'[f] - 1 = j /\ i1'[f] >= 1
      BY <1>0, <1>4, <1>6
    <2>2. first'[f] = Ref(Spot(f, slot[f], Top, Top))'
      BY <1>4, <1>c, <2>1
    <2>3. got'[f] = Ref(Spot(f, slot[f], i1[f] - 1, Top))'
      BY <1>4, <1>c, <2>1
    <2> QED
      BY <1>3, <1>4, <1>5, <1>8, <2>1, <2>2, <2>3 DEF StageOK, SecondOpen, call
  <1> QED
    BY <1>2, <1>4, <1>b, <1>d, Quiet DEF SecondOpen, block, Live

LEMMA TruncEndPreserves ==
    ASSUME TypeOK, MapInv, NEW f \in Files, TruncEnd(f)
    PROVE  MapInv' /\ StepOf(f)
  <1>1. StepOf(f)
    BY DEF TruncEnd, Goto, StepOf, TypeOK, block, call, bufs, trunc
  <1>2. RefsSame(f)
    BY StillRefs DEF TruncEnd, block, trunc
  <1>3. StageOK(f)
    BY DEF MapInv, FileOK
  <1>4. pc[f] = "slots" /\ pc'[f] = "idle" /\ written'[f] = {}
    BY DEF TruncEnd, Goto, TypeOK
  <1>5. StageOK(f)'
    BY <1>3, <1>4 DEF StageOK, TruncEnd, trunc, call
  <1>6. ASSUME NEW l \in Lbns
        PROVE  Ref(LeafSpot(f, l)) = NoBlock
    <2>1. i1[f] = PerIndex /\ i2[f] = PerIndex
      BY <1>3, <1>4 DEF StageOK
    <2>2. SlotOf(l) \in Slots
      BY SlotArith
    <2>3. addr[f][SlotOf(l)] = NoBlock /\ Ref(Spot(f, SlotOf(l), Top, Top)) = NoBlock
      <3>1. 0 \in Index
        BY MapAssumption DEF Index
      <3> QED
        BY <2>2, <3>1, RefOf DEF TruncEnd
    <2> QED
      BY <2>1, <2>3, LeafRef DEF At
  <1>7. FreshOK(f)'
    <2>1. \A l \in Lbns : Ref(LeafSpot(f, l))' = NoBlock
      BY <1>2, <1>6, LeafSpotIn DEF RefsSame
    <2> QED
      BY <1>4, <2>1 DEF FreshOK, FreshAt
  <1> QED
    BY <1>1, <1>2, <1>4, <1>5, <1>7, Calm DEF TruncEnd, block

-----------------------------------------------------------------------------
(* Steps that allocate or write a block                                     *)

\* The place t of f has got the block c, and no other place has changed.
Gains(f, t, c) ==
    /\ t.f = f /\ Ref(t) = NoBlock /\ Ref(t)' = c
    /\ \A s \in Spots \ {t} : s.f = f => Ref(s)' = Ref(s)

LEMMA GainApart ==
    ASSUME TypeOK, MapInv, NEW f \in Files, StepOf(f),
           NEW c \in free, NEW t \in Spots, Gains(f, t, c), free' = free \ {c},
           pc[f] # "direct", pc'[f] # "direct"
    PROVE  Apart'
  <1>1. Apart /\ free \subseteq Blocks /\ c \in Blocks
    BY DEF MapInv, TypeOK
  <1>2. \A s \in Spots : Ref(s) \in Entry
    BY RefEntry
  <1>3. \A s \in Spots \ {t} : Ref(s)' = Ref(s)
    BY Others, SpotIs DEF RefsSame, Gains
  <1>4. \A g \in Files : \A b \in Entry : Holds(g, b)' <=> Holds(g, b)
    <2> SUFFICES ASSUME NEW g \in Files, NEW b \in Entry PROVE Holds(g, b)' <=> Holds(g, b)
      OBVIOUS
    <2>1. CASE g = f
      BY <2>1 DEF Holds
    <2>2. CASE g # f
      BY <2>2, Others
    <2> QED
      BY <2>1, <2>2
  <1>5. Ref(t) = NoBlock /\ Ref(t)' = c
    BY DEF Gains
  <1> QED
    BY <1>1, <1>2, <1>3, <1>4, <1>5, ApartAdd

LEMMA GainTables ==
    ASSUME TypeOK, NEW f \in Files, TablesOK(f), NEW c, NEW t \in Spots, Gains(f, t, c),
           OfIndex(t) => mem'[c] \in Tables,
           \A s \in Spots : s.f = f /\ OfIndex(s) /\ Ref(s) # NoBlock => mem'[Ref(s)] \in Tables
    PROVE  TablesOK(f)'
  <1> SUFFICES ASSUME NEW s \in Spots, s.f = f, OfIndex(s), Ref(s)' # NoBlock
               PROVE  mem'[Ref(s)'] \in Tables
    BY DEF TablesOK, OfIndex, IsDirect, IsDouble, Tables, Index, Entry
  <1>1. CASE s = t
    BY <1>1 DEF Gains
  <1>2. CASE s # t
    BY <1>2 DEF Gains
  <1> QED
    BY <1>1, <1>2

LEMMA FreshStays ==
    ASSUME NEW f \in Files, FreshOK(f), pc[f] \in Live, NEW l \in Lbns,
           Ref(LeafSpot(f, l))' = Ref(LeafSpot(f, l)),
           Ref(LeafSpot(f, l)) # NoBlock =>
               /\ mem'[Ref(LeafSpot(f, l))] = mem[Ref(LeafSpot(f, l))]
               /\ disk'[Ref(LeafSpot(f, l))] = disk[Ref(LeafSpot(f, l))],
           l \in written'[f] <=> l \in written[f]
    PROVE  FreshAt(f, l, Ref(LeafSpot(f, l)))'
  <1> DEFINE b == Ref(LeafSpot(f, l))
  <1>1. FreshAt(f, l, b)
    BY DEF FreshOK
  <1>2. b' = b /\ (b # NoBlock => mem'[b] = mem[b] /\ disk'[b] = disk[b])
    OBVIOUS
  <1> HIDE DEF b
  <1>3. FreshAt(f, l, b)'
    BY <1>1, <1>2 DEF FreshAt, Zero
  <1> QED
    BY <1>3 DEF b

\* No place names a free block, and no two name one block.
LEMMA NotFree ==
    ASSUME MapInv, NEW s \in Spots
    PROVE  Ref(s) \notin free /\ \A t \in Spots : Ref(s) # NoBlock /\ Ref(t) = Ref(s) => t = s
  BY DEF MapInv, Apart, RefUsed, RefOnce

\* Two blocks get another content.
LEMMA PutTwo ==
    ASSUME NEW T, NEW m \in [Blocks -> T], NEW c \in Blocks, NEW n \in Blocks \ {c},
           NEW y, NEW z, NEW w, w = [m EXCEPT ![c] = y, ![n] = z]
    PROVE  w[c] = y /\ w[n] = z /\ \A b \in Blocks \ {c, n} : w[b] = m[b]
  OBVIOUS

LEMMA TopAllocPreserves ==
    ASSUME TypeOK, MapInv, NEW f \in Files, TopAlloc(f)
    PROVE  MapInv' /\ StepOf(f) /\ Grows(f)
  <1>0. PICK l \in Lbns : l = lbn[f]
    BY DEF TypeOK
  <1> DEFINE i == SlotOf(l)
             t == Spot(f, i, Top, Top)
  <1>1. PICK c \in free : /\ c \in Blocks /\ free' = free \ {c}
                          /\ mem' = [mem EXCEPT ![c] = Zero]
                          /\ addr' = [addr EXCEPT ![f][i] = c] /\ Hold(f, c)
    BY <1>0 DEF TopAlloc, Take
  <1>2. StepOf(f)
    BY <1>0, <1>1 DEF TopAlloc, Goto, Hold, StepOf, TypeOK, call, trunc
  <1>3. StageOK(f) /\ TablesOK(f) /\ FreshOK(f)
    BY DEF MapInv, FileOK
  <1>4. i \in Slots /\ 0 \in Index /\ c # NoBlock
    BY SlotArith, MapAssumption, <1>1 DEF Index
  <1>5. /\ pc[f] = "map" /\ pc'[f] = Below(i) /\ lbn'[f] = l /\ first'[f] = c
        /\ ~IsDirect(i) /\ addr[f][i] = NoBlock /\ disk' = disk /\ written' = written
        /\ slot'[f] = slot[f] /\ i1'[f] = i1[f] /\ i2'[f] = i2[f] /\ op'[f] = op[f]
    BY <1>0, <1>1 DEF TopAlloc, Goto, Hold, TypeOK, call, trunc
  <1>6. slot[f] = 0 /\ i1[f] = PerIndex /\ i2[f] = PerIndex
    BY <1>3, <1>5 DEF StageOK
  <1>7. /\ addr'[f][i] = c /\ \A x \in Slots \ {i} : addr'[f][x] = addr[f][x]
        /\ mem'[c] = Zero /\ \A b \in Blocks \ {c} : mem'[b] = mem[b]
    BY <1>1, <1>4 DEF TypeOK
  <1>8. ASSUME NEW b \in Entry, b # c, NEW x \in Index
        PROVE  At(b, x)' = At(b, x)
    BY <1>7, <1>8 DEF At, Entry
  <1>9. ASSUME NEW x \in Slots, NEW j \in Index
        PROVE  FirstAt(f, x, j)' = FirstAt(f, x, j) /\ FirstAt(f, x, j) # c /\ FirstAt(f, x, j) \in Entry
    <2>1. FirstAt(f, x, j) # c /\ FirstAt(f, x, j) \in Entry /\ addr[f][x] # c /\ addr[f][x] \in Entry
      <3>1. /\ Spot(f, x, Top, Top) \in Spots /\ Ref(Spot(f, x, Top, Top)) = addr[f][x]
            /\ Spot(f, x, j, Top) \in Spots /\ Ref(Spot(f, x, j, Top)) = FirstAt(f, x, j)
        BY SpotIn, TopFacts, RefOf
      <3> QED
        BY <1>1, <3>1, NotFree, RefEntry
    <2>2. CASE x = i
      <3>1. FirstAt(f, x, j) = NoBlock
        BY <1>5, <1>6, <2>2, NoCut DEF At
      <3>2. At(addr[f][i], j)' = NoBlock
        BY <1>7 DEF At, Zero
      <3>3. FirstAt(f, x, j)' = NoBlock
        BY <1>5, <1>6, <2>2, <3>2, NoCut
      <3> QED
        BY <2>1, <3>1, <3>3
    <2>3. CASE x # i
      <3> DEFINE b == addr[f][x]
      <3>1. b' = b /\ b \in Entry /\ b # c
        BY <1>7, <2>1, <2>3
      <3> HIDE DEF b
      <3>2. At(b, j)' = At(b, j)
        BY <1>8, <3>1 DEF At
      <3> QED
        BY <1>5, <1>6, <2>1, <3>2, NoCut DEF b
    <2> QED
      BY <2>2, <2>3
  <1>a. ASSUME NEW x \in Slots, NEW j \in Index, NEW k \in Index
        PROVE  SecondAt(f, x, j, k)' = SecondAt(f, x, j, k)
    <2> DEFINE b == FirstAt(f, x, j)
    <2>1. b' = b /\ b # c /\ b \in Entry
      BY <1>9
    <2> HIDE DEF b
    <2>2. At(b, k)' = At(b, k)
      BY <1>8, <2>1 DEF At
    <2> QED
      BY <1>5, <1>6, <2>2, NoCut DEF b
  <1>b. t \in Spots /\ t.f = f /\ t.i = i /\ t.j = Top /\ t.k = Top /\ OfIndex(t)
    BY <1>4, <1>5, SpotIn, TopFacts DEF OfIndex
  <1>c. Gains(f, t, c)
    <2>1. Ref(t) = NoBlock /\ Ref(t)' = c
      BY <1>4, <1>5, <1>7, RefOf
    <2>2. ASSUME NEW s \in Spots, s # t, s.f = f PROVE Ref(s)' = Ref(s)
      <3>1. CASE s.j = Top /\ s.k = Top
        <4>1. s.i # i
          BY <1>b, <2>2, <3>1, SpotIs
        <4> QED
          BY <1>7, <2>2, <3>1, <4>1, SpotIs DEF Ref, Top
      <3>2. CASE ~(s.j = Top /\ s.k = Top)
        BY <1>9, <1>a, <2>2, <3>2, SpotIs DEF Ref, Top, Depth
      <3> QED
        BY <3>1, <3>2
    <2> QED
      BY <1>b, <2>1, <2>2 DEF Gains
  <1>d. Apart'
    BY <1>1, <1>2, <1>5, <1>b, <1>c, GainApart DEF Below
  <1>e. \A s \in Spots : Ref(s) # NoBlock => mem'[Ref(s)] = mem[Ref(s)]
    BY <1>1, <1>7, NotFree, RefEntry DEF Entry
  <1>f. TablesOK(f)'
    <2>1. Zero \in Tables
      BY DEF Zero, Tables, Entry
    <2> QED
      BY <1>3, <1>7, <1>b, <1>c, <1>e, <2>1, GainTables DEF TablesOK
  <1>g. StageOK(f)'
    <2>1. first'[f] = Ref(Spot(f, i, Top, Top))'
      BY <1>5, <1>c DEF Gains
    <2> QED
      BY <1>4, <1>5, <1>6, <2>1 DEF StageOK, Below
  <1>h. FreshOK(f)'
    <2>1. ASSUME NEW m \in Lbns PROVE FreshAt(f, m, Ref(LeafSpot(f, m)))'
      <3>1. LeafSpot(f, m) \in Spots \ {t} /\ LeafSpot(f, m).f = f
        BY <1>b, LeafSpotIn
      <3>2. Ref(LeafSpot(f, m))' = Ref(LeafSpot(f, m))
        BY <1>c, <3>1 DEF Gains
      <3> QED
        BY <1>3, <1>5, <1>e, <3>1, <3>2, FreshStays DEF Live
    <2> QED
      BY <1>5, <2>1 DEF FreshOK, Below
  <1> QED
    BY <1>2, <1>c, <1>d, <1>f, <1>g, <1>h, Step DEF FileOK, Gains, Grows

LEMMA MidAllocPreserves ==
    ASSUME TypeOK, MapInv, NEW f \in Files, MidAlloc(f)
    PROVE  MapInv' /\ StepOf(f) /\ Grows(f)
  <1>0. PICK l \in Lbns : l = lbn[f]
    BY DEF TypeOK
  <1> DEFINE i == SlotOf(l)
             m == MidOf(l)
             r == Spot(f, i, Top, Top)
             t == Spot(f, i, m, Top)
  <1>3. StageOK(f) /\ TablesOK(f) /\ FreshOK(f)
    BY DEF MapInv, FileOK
  <1>4. /\ pc[f] = "mid" /\ IsDouble(i) /\ ~IsDirect(i) /\ i \in Slots /\ m \in Index
        /\ first[f] # NoBlock /\ first[f] = Ref(r)
        /\ slot[f] = 0 /\ i1[f] = PerIndex /\ i2[f] = PerIndex
    BY <1>0, <1>3, SlotArith, SlotKinds DEF StageOK, MidAlloc
  <1>b. /\ r \in Spots /\ r.f = f /\ OfIndex(r)
        /\ t \in Spots /\ t.f = f /\ t.i = i /\ t.j = m /\ t.k = Top /\ OfIndex(t)
    BY <1>4, SpotIn, TopFacts DEF OfIndex
  <1>n. PICK n \in Blocks : n = first[f]
    BY <1>4, <1>b, RefEntry DEF Entry
  <1>r. /\ Ref(r) = n /\ addr[f][i] = n /\ n \notin free /\ mem[n] \in Tables
        /\ \A x \in Index : At(n, x) = mem[n][x]
    BY <1>3, <1>4, <1>b, <1>n, RefOf, NotFree, TableAt
  <1>1. PICK c \in free : /\ c \in Blocks /\ free' = free \ {c}
                          /\ mem' = [mem EXCEPT ![c] = Zero, ![n] = [mem[n] EXCEPT ![m] = c]]
                          /\ disk' = [disk EXCEPT ![n] = [mem[n] EXCEPT ![m] = c]]
                          /\ Hold(f, c)
    BY <1>0, <1>n DEF MidAlloc, Take
  <1>5. /\ c # NoBlock /\ c # n /\ mem[n][m] = NoBlock
        /\ mem'[c] = Zero /\ mem'[n] = [mem[n] EXCEPT ![m] = c]
        /\ \A b \in Blocks \ {c, n} : mem'[b] = mem[b]
        /\ \A b \in Blocks \ {n} : disk'[b] = disk[b]
    <2>1. c # NoBlock /\ c # n /\ mem[n][m] = NoBlock
      BY <1>0, <1>1, <1>n, <1>r, MapAssumption DEF MidAlloc
    <2>2. mem \in [Blocks -> Tables \cup {Data}] /\ disk \in [Blocks -> Tables \cup {Data}]
      BY DEF TypeOK
    <2> HIDE DEF m
    <2>3. /\ mem'[c] = Zero /\ mem'[n] = [mem[n] EXCEPT ![m] = c]
          /\ \A b \in Blocks \ {c, n} : mem'[b] = mem[b]
      BY <1>1, <2>1, <2>2, PutTwo
    <2>4. \A b \in Blocks \ {n} : disk'[b] = disk[b]
      BY <1>1, <2>2
    <2> QED
      BY <2>1, <2>3, <2>4
  <1>6. /\ pc'[f] = "leaf" /\ lbn'[f] = l /\ first'[f] = c /\ op'[f] = op[f]
        /\ addr' = addr /\ written' = written
        /\ slot'[f] = slot[f] /\ i1'[f] = i1[f] /\ i2'[f] = i2[f]
    BY <1>0, <1>1 DEF MidAlloc, Goto, Hold, TypeOK, file, call, trunc
  <1>2. StepOf(f)
    <2>1. \A b \in Blocks : \/ mem'[b] = mem[b] /\ disk'[b] = disk[b]
                            \/ b \in free
                            \/ \E s \in Spots : s.f = f /\ Ref(s) = b
      BY <1>1, <1>5, <1>b, <1>r
    <2> QED
      BY <1>1, <2>1 DEF MidAlloc, Goto, Hold, StepOf, TypeOK, file, call, trunc
  <1>7. mem'[n] \in Tables /\ mem'[n][m] = c /\ \A x \in Index \ {m} : mem'[n][x] = mem[n][x]
    <2>1. c \in Entry
      BY <1>1 DEF Entry
    <2>2. PICK w \in Tables : w = mem[n]
      BY <1>r
    <2>3. PICK u : u = mem'[n]
      OBVIOUS
    <2> HIDE DEF m
    <2>4. u = [w EXCEPT ![m] = c] /\ m \in Index
      BY <1>4, <1>5, <2>2, <2>3
    <2>5. u \in Tables /\ u[m] = c /\ \A x \in Index \ {m} : u[x] = w[x]
      BY <2>1, <2>4 DEF Tables
    <2> QED
      BY <2>2, <2>3, <2>5
  <1>z. Zero \in Tables
    BY DEF Zero, Tables, Entry
  <1>8. ASSUME NEW b \in Entry, b \notin {c, n}, NEW x \in Index
        PROVE  At(b, x)' = At(b, x)
    BY <1>5, <1>8 DEF At, Entry
  <1>9. ASSUME NEW x \in Slots, NEW j \in Index
        PROVE  /\ FirstAt(f, x, j) \in Entry \ {c, n}
               /\ IF x = i /\ j = m THEN FirstAt(f, x, j) = NoBlock /\ FirstAt(f, x, j)' = c
                                    ELSE FirstAt(f, x, j)' = FirstAt(f, x, j)
    <2>1. /\ FirstAt(f, x, j) \in Entry \ {c, n}
          /\ addr[f][x] \in Entry \ {c} /\ (addr[f][x] = n => x = i)
      <3>1. /\ Spot(f, x, Top, Top) \in Spots /\ Ref(Spot(f, x, Top, Top)) = addr[f][x]
            /\ Spot(f, x, j, Top) \in Spots /\ Ref(Spot(f, x, j, Top)) = FirstAt(f, x, j)
            /\ Spot(f, x, Top, Top).i = x /\ r.i = i
            /\ Spot(f, x, j, Top).j = j /\ r.j = Top
        BY <1>4, SpotIn, TopFacts, RefOf
      <3>2. \A s \in Spots : Ref(s) \in Entry \ {c} /\ (Ref(s) = n => s = r)
        BY <1>1, <1>4, <1>b, <1>n, <1>r, NotFree, RefEntry
      <3> QED
        BY <3>1, <3>2, TopFacts
    <2>2. CASE x = i
      <3>1. FirstAt(f, x, j) = mem[n][j]
        BY <1>4, <1>r, <2>2, NoCut
      <3>2. mem'[n] # Data /\ n # NoBlock
        BY <1>7, DataAssumption, MapAssumption
      <3>3. FirstAt(f, x, j)' = mem'[n][j]
        <4>1. At(addr[f][i], j)' = mem'[n][j]
          BY <1>6, <1>r, <3>2 DEF At
        <4> QED
          BY <1>4, <1>6, <2>2, <4>1, NoCut
      <3> QED
        BY <1>5, <1>7, <2>1, <2>2, <3>1, <3>3
    <2>3. CASE x # i
      <3> DEFINE b == addr[f][x]
      <3>1. b' = b /\ b \in Entry /\ b \notin {c, n}
        BY <1>6, <2>1, <2>3
      <3> HIDE DEF b
      <3>2. At(b, j)' = At(b, j)
        BY <1>8, <3>1 DEF At
      <3> QED
        BY <1>4, <1>6, <2>1, <2>3, <3>2, NoCut DEF b
    <2> QED
      BY <2>2, <2>3
  <1>a. ASSUME NEW x \in Slots, NEW j \in Index, NEW k \in Index
        PROVE  SecondAt(f, x, j, k)' = SecondAt(f, x, j, k)
    <2> DEFINE b == FirstAt(f, x, j)
    <2>1. CASE x = i /\ j = m
      <3>1. b = NoBlock /\ b' = c
        BY <1>9, <2>1
      <3> HIDE DEF b
      <3>2. At(b, k)' = NoBlock /\ At(b, k) = NoBlock
        BY <1>5, <3>1 DEF At, Zero
      <3> QED
        BY <1>4, <1>6, <3>2, NoCut DEF b
    <2>2. CASE ~(x = i /\ j = m)
      <3>1. b' = b /\ b \in Entry /\ b \notin {c, n}
        BY <1>9, <2>2
      <3> HIDE DEF b
      <3>2. At(b, k)' = At(b, k)
        BY <1>8, <3>1 DEF At
      <3> QED
        BY <1>4, <1>6, <3>2, NoCut DEF b
    <2> QED
      BY <2>1, <2>2
  <1>c. Gains(f, t, c)
    <2>1. Ref(t) = NoBlock /\ Ref(t)' = c
      BY <1>4, <1>9, RefOf
    <2>2. ASSUME NEW s \in Spots, s # t, s.f = f PROVE Ref(s)' = Ref(s)
      <3>1. CASE s.j # Top /\ s.k = Top
        <4>1. ~(s.i = i /\ s.j = m)
          BY <1>b, <2>2, <3>1, SpotIs
        <4> QED
          BY <1>9, <2>2, <3>1, <4>1, SpotIs DEF Ref, Top, Depth
      <3>2. CASE ~(s.j # Top /\ s.k = Top)
        BY <1>6, <1>a, <2>2, <3>2, SpotIs DEF Ref, Top, Depth
      <3> QED
        BY <3>1, <3>2
    <2> QED
      BY <1>b, <2>1, <2>2 DEF Gains
  <1>d. Apart'
    BY <1>1, <1>2, <1>4, <1>6, <1>b, <1>c, GainApart
  <1>e. \A s \in Spots \ {r} : Ref(s) # NoBlock =>
            mem'[Ref(s)] = mem[Ref(s)] /\ disk'[Ref(s)] = disk[Ref(s)]
    <2> SUFFICES ASSUME NEW s \in Spots \ {r}, Ref(s) # NoBlock
                 PROVE  mem'[Ref(s)] = mem[Ref(s)] /\ disk'[Ref(s)] = disk[Ref(s)]
      OBVIOUS
    <2>1. Ref(s) \in Blocks \ {c, n}
      BY <1>1, <1>b, <1>r, NotFree, RefEntry DEF Entry
    <2> QED
      BY <1>5, <2>1
  <1>f. TablesOK(f)'
    BY <1>3, <1>5, <1>7, <1>b, <1>c, <1>e, <1>r, <1>z, GainTables DEF TablesOK
  <1>g. StageOK(f)'
    <2>1. first'[f] = Ref(Spot(f, i, m, Top))'
      BY <1>6, <1>c DEF Gains
    <2> QED
      BY <1>4, <1>5, <1>6, <2>1 DEF StageOK
  <1>h. FreshOK(f)'
    <2>1. ASSUME NEW a \in Lbns PROVE FreshAt(f, a, Ref(LeafSpot(f, a)))'
      <3>1. LeafSpot(f, a) \in Spots \ {t, r} /\ LeafSpot(f, a).f = f
        BY <1>b, LeafSpotIn
      <3>2. Ref(LeafSpot(f, a))' = Ref(LeafSpot(f, a))
        BY <1>c, <3>1 DEF Gains
      <3> QED
        BY <1>3, <1>4, <1>6, <1>e, <3>1, <3>2, FreshStays DEF Live
    <2> QED
      BY <1>6, <2>1 DEF FreshOK
  <1> QED
    BY <1>2, <1>c, <1>d, <1>f, <1>g, <1>h, Step DEF FileOK, Gains, Grows

LEMMA LeafAllocPreserves ==
    ASSUME TypeOK, MapInv, NEW f \in Files, LeafAlloc(f)
    PROVE  MapInv' /\ StepOf(f) /\ Grows(f)
  <1>0. PICK l \in Lbns : l = lbn[f]
    BY DEF TypeOK
  <1> DEFINE i == SlotOf(l)
             o == LeafOf(l)
             d == IF IsDouble(i) THEN MidOf(l) ELSE Top
             r == Spot(f, i, d, Top)
             t == LeafSpot(f, l)
  <1>3. StageOK(f) /\ TablesOK(f) /\ FreshOK(f)
    BY DEF MapInv, FileOK
  <1>4. /\ pc[f] = "leaf" /\ ~IsDirect(i) /\ i \in Slots /\ o \in Index
        /\ first[f] # NoBlock /\ first[f] = Ref(r)
        /\ slot[f] = 0 /\ i1[f] = PerIndex /\ i2[f] = PerIndex
    BY <1>0, <1>3, SlotArith DEF StageOK, LeafAlloc
  <1>d. IF IsDouble(i) THEN d = MidOf(l) /\ d \in Index ELSE d = Top
    BY SlotArith
  <1>b. /\ r \in Spots /\ r.f = f /\ r.i = i /\ r.j = d /\ r.k = Top /\ OfIndex(r)
        /\ t \in Spots /\ t.f = f /\ ~OfIndex(t)
    BY <1>4, <1>d, SpotIn, TopFacts, LeafSpotIn DEF OfIndex
  <1>t. t = IF IsDouble(i) THEN Spot(f, i, d, o) ELSE Spot(f, i, o, Top)
    BY <1>4 DEF LeafSpot
  <1>n. PICK n \in Blocks : n = first[f]
    BY <1>4, <1>b, RefEntry DEF Entry
  <1>r. /\ Ref(r) = n /\ n \notin free /\ mem[n] \in Tables
        /\ \A x \in Index : At(n, x) = mem[n][x]
    BY <1>3, <1>4, <1>b, <1>n, NotFree, TableAt
  <1>1. PICK c \in free : /\ c \in Blocks /\ free' = free \ {c}
                          /\ mem' = [mem EXCEPT ![c] = Zero, ![n] = [mem[n] EXCEPT ![o] = c]]
                          /\ disk' = [disk EXCEPT ![c] = Zero, ![n] = [mem[n] EXCEPT ![o] = c]]
                          /\ Find(f, c)
    BY <1>0, <1>n DEF LeafAlloc, Take
  <1>5. /\ c # NoBlock /\ c # n /\ mem[n][o] = NoBlock
        /\ mem'[c] = Zero /\ disk'[c] = Zero /\ mem'[n] = [mem[n] EXCEPT ![o] = c]
        /\ \A b \in Blocks \ {c, n} : mem'[b] = mem[b] /\ disk'[b] = disk[b]
    <2>1. c # NoBlock /\ c # n /\ mem[n][o] = NoBlock
      BY <1>0, <1>1, <1>n, <1>r, MapAssumption DEF LeafAlloc
    <2>2. mem \in [Blocks -> Tables \cup {Data}] /\ disk \in [Blocks -> Tables \cup {Data}]
      BY DEF TypeOK
    <2> HIDE DEF o
    <2>3. /\ mem'[c] = Zero /\ mem'[n] = [mem[n] EXCEPT ![o] = c]
          /\ \A b \in Blocks \ {c, n} : mem'[b] = mem[b]
      BY <1>1, <2>1, <2>2, PutTwo
    <2>4. disk'[c] = Zero /\ \A b \in Blocks \ {c, n} : disk'[b] = disk[b]
      BY <1>1, <2>1, <2>2, PutTwo
    <2> QED
      BY <2>1, <2>3, <2>4
  <1>6. /\ pc'[f] = "io" /\ lbn'[f] = l /\ got'[f] = c /\ op'[f] = op[f]
        /\ addr' = addr /\ written' = written
        /\ slot'[f] = slot[f] /\ i1'[f] = i1[f] /\ i2'[f] = i2[f]
    BY <1>0, <1>1 DEF LeafAlloc, Goto, Find, Hold, TypeOK, file, call, trunc
  <1>2. StepOf(f)
    <2>1. \A b \in Blocks : \/ mem'[b] = mem[b] /\ disk'[b] = disk[b]
                            \/ b \in free
                            \/ \E s \in Spots : s.f = f /\ Ref(s) = b
      BY <1>1, <1>5, <1>b, <1>r
    <2> QED
      BY <1>1, <2>1 DEF LeafAlloc, Goto, Find, Hold, StepOf, TypeOK, file, call, trunc
  <1>7. /\ mem'[n] \in Tables /\ mem'[n] # Data /\ n # NoBlock
        /\ mem'[n][o] = c /\ \A x \in Index \ {o} : mem'[n][x] = mem[n][x]
    <2>1. n # NoBlock /\ c \in Entry
      BY <1>1, MapAssumption DEF Entry
    <2>2. PICK w \in Tables : w = mem[n]
      BY <1>r
    <2>3. PICK u : u = mem'[n]
      OBVIOUS
    <2> HIDE DEF o
    <2>4. u = [w EXCEPT ![o] = c] /\ o \in Index
      BY <1>4, <1>5, <2>2, <2>3
    <2>5. u \in Tables /\ u[o] = c /\ \A x \in Index \ {o} : u[x] = w[x]
      BY <2>1, <2>4 DEF Tables
    <2>6. u # Data
      BY <2>5, DataAssumption
    <2> QED
      BY <2>1, <2>2, <2>3, <2>5, <2>6
  <1>8. ASSUME NEW b \in Entry, b # c, NEW x \in Index
        PROVE  At(b, x)' = IF b = n /\ x = o THEN c ELSE At(b, x)
    <2>1. CASE b = n
      BY <1>7, <1>r, <2>1 DEF At
    <2>2. CASE b # n
      BY <1>5, <1>8, <2>2 DEF At, Entry
    <2> QED
      BY <2>1, <2>2
  <1>s. \A s \in Spots : Ref(s) \in Entry \ {c} /\ (Ref(s) = n => s = r)
    BY <1>1, <1>4, <1>b, <1>n, <1>r, NotFree, RefEntry
  <1>9. ASSUME NEW x \in Slots, NEW j \in Index
        PROVE  /\ FirstAt(f, x, j) \in Entry \ {c} /\ (FirstAt(f, x, j) = n => Spot(f, x, j, Top) = r)
               /\ FirstAt(f, x, j)' = IF d = Top /\ x = i /\ j = o THEN c ELSE FirstAt(f, x, j)
    <2> DEFINE q == Spot(f, x, Top, Top)
    <2>1. /\ q \in Spots /\ Ref(q) = addr[f][x] /\ q.i = x /\ q.j = Top
          /\ Spot(f, x, j, Top) \in Spots /\ Ref(Spot(f, x, j, Top)) = FirstAt(f, x, j)
      BY <1>4, SpotIn, TopFacts, RefOf
    <2>2. addr[f][x] \in Entry \ {c} /\ (addr[f][x] = n => x = i /\ d = Top)
      BY <1>b, <1>s, <2>1
    <2>3. d = Top /\ x = i => addr[f][x] = n
      BY <1>r, <2>1
    <2> DEFINE b == addr[f][x]
    <2>4. b' = b
      BY <1>6
    <2> HIDE DEF b
    <2>5. At(b, j)' = IF b = n /\ j = o THEN c ELSE At(b, j)
      BY <1>8, <2>2, <2>4 DEF b, At
    <2>6. IF IsDirect(x) THEN FirstAt(f, x, j) = NoBlock /\ FirstAt(f, x, j)' = NoBlock /\ x # i
                         ELSE FirstAt(f, x, j) = At(b, j) /\ FirstAt(f, x, j)' = At(b, j)'
      BY <1>4, <1>6, <2>4, NoCut DEF b
    <2>7. (b = n) <=> (d = Top /\ x = i)
      BY <2>2, <2>3 DEF b
    <2> QED
      BY <1>s, <2>1, <2>5, <2>6, <2>7
  <1>a. ASSUME NEW x \in Slots, NEW j \in Index, NEW k \in Index
        PROVE  SecondAt(f, x, j, k)' = IF d # Top /\ x = i /\ j = d /\ k = o THEN c
                                       ELSE SecondAt(f, x, j, k)
    <2> DEFINE b == FirstAt(f, x, j)
    <2>1. CASE ~IsDouble(x)
      <3>1. SecondAt(f, x, j, k) = NoBlock /\ SecondAt(f, x, j, k)' = NoBlock
        BY <2>1 DEF SecondAt, IsDouble
      <3> QED
        BY <1>d, <2>1, <3>1
    <2>2. CASE IsDouble(x)
      <3>1. ~(d = Top /\ x = i)
        BY <1>d, <2>2, TopFacts
      <3>2. b' = b /\ b \in Entry \ {c}
        BY <1>9, <3>1
      <3>3. (b = n) <=> (d # Top /\ x = i /\ j = d)
        <4>1. b = n => (d # Top /\ x = i /\ j = d)
          <5> SUFFICES ASSUME b = n PROVE d # Top /\ x = i /\ j = d
            OBVIOUS
          <5>1. Spot(f, x, j, Top) = r
            BY <1>9
          <5>2. Spot(f, x, j, Top).i = x /\ Spot(f, x, j, Top).j = j
            BY SpotIn, TopFacts
          <5> QED
            BY <1>b, <5>1, <5>2, TopFacts
        <4>2. (d # Top /\ x = i /\ j = d) => b = n
          BY <1>4, <1>r, RefOf
        <4> QED
          BY <4>1, <4>2
      <3> HIDE DEF b
      <3>4. At(b, k)' = IF b = n /\ k = o THEN c ELSE At(b, k)
        BY <1>8, <3>2 DEF At
      <3>5. SecondAt(f, x, j, k) = At(b, k) /\ SecondAt(f, x, j, k)' = At(b, k)'
        BY <1>4, <1>6, <2>2, NoCut DEF b
      <3> QED
        BY <3>3, <3>4, <3>5
    <2> QED
      BY <2>1, <2>2
  <1>c. Gains(f, t, c)
    <2>1. CASE IsDouble(i)
      <3>1. d \in Index /\ d # Top /\ t = Spot(f, i, d, o)
        BY <1>d, <1>t, <2>1, TopFacts
      <3>2. Ref(t) = SecondAt(f, i, d, o) /\ Ref(t)' = SecondAt(f, i, d, o)'
        BY <1>4, <3>1, RefOf
      <3>3. SecondAt(f, i, d, o) = At(FirstAt(f, i, d), o) /\ FirstAt(f, i, d) = n
        BY <1>4, <1>r, <2>1, <3>1, RefOf, NoCut
      <3>4. Ref(t) = NoBlock /\ Ref(t)' = c
        BY <1>4, <1>5, <1>a, <1>r, <3>1, <3>2, <3>3
      <3>5. ASSUME NEW s \in Spots, s # t, s.f = f PROVE Ref(s)' = Ref(s)
        <4>1. ~(s.i = i /\ s.j = d /\ s.k = o)
          BY <3>1, <3>5, SpotIs
        <4>2. s.i \in Slots /\ (s.j # Top => s.j \in Index) /\ (s.k # Top => s.k \in Index)
          BY SpotIs DEF Depth
        <4> QED
          BY <1>6, <1>9, <1>a, <3>1, <3>5, <4>1, <4>2 DEF Ref, Top
      <3> QED
        BY <1>b, <3>4, <3>5 DEF Gains
    <2>2. CASE ~IsDouble(i)
      <3>1. d = Top /\ t = Spot(f, i, o, Top)
        BY <1>d, <1>t, <2>2
      <3>2. Ref(t) = FirstAt(f, i, o) /\ Ref(t)' = FirstAt(f, i, o)'
        BY <1>4, <3>1, RefOf
      <3>3. FirstAt(f, i, o) = At(n, o)
        BY <1>4, <1>r, <3>1, RefOf, NoCut
      <3>4. Ref(t) = NoBlock /\ Ref(t)' = c
        BY <1>4, <1>5, <1>9, <1>r, <3>1, <3>2, <3>3
      <3>5. ASSUME NEW s \in Spots, s # t, s.f = f PROVE Ref(s)' = Ref(s)
        <4>1. ~(s.i = i /\ s.j = o /\ s.k = Top)
          BY <3>1, <3>5, SpotIs
        <4>2. s.i \in Slots /\ (s.j # Top => s.j \in Index) /\ (s.k # Top => s.k \in Index)
          BY SpotIs DEF Depth
        <4> QED
          BY <1>6, <1>9, <1>a, <3>1, <3>5, <4>1, <4>2 DEF Ref, Top
      <3> QED
        BY <1>b, <3>4, <3>5 DEF Gains
    <2> QED
      BY <2>1, <2>2
  <1>e. \A s \in Spots \ {r} : Ref(s) # NoBlock =>
            mem'[Ref(s)] = mem[Ref(s)] /\ disk'[Ref(s)] = disk[Ref(s)]
    <2> SUFFICES ASSUME NEW s \in Spots \ {r}, Ref(s) # NoBlock
                 PROVE  mem'[Ref(s)] = mem[Ref(s)] /\ disk'[Ref(s)] = disk[Ref(s)]
      OBVIOUS
    <2>1. Ref(s) \in Blocks \ {c, n}
      BY <1>s DEF Entry
    <2> QED
      BY <1>5, <2>1
  <1>f. Apart'
    BY <1>1, <1>2, <1>4, <1>6, <1>b, <1>c, GainApart
  <1>g. TablesOK(f)'
    BY <1>3, <1>7, <1>b, <1>c, <1>e, <1>r, GainTables DEF TablesOK
  <1>h. StageOK(f)'
    <2>1. got'[f] = Ref(LeafSpot(f, l))'
      BY <1>6, <1>c DEF Gains
    <2> QED
      BY <1>4, <1>5, <1>6, <2>1 DEF StageOK
  <1>i. FreshOK(f)'
    <2>1. ASSUME NEW a \in Lbns, a # l PROVE FreshAt(f, a, Ref(LeafSpot(f, a)))'
      <3>1. LeafSpot(f, a) \in Spots \ {t, r} /\ LeafSpot(f, a).f = f
        BY <1>b, <2>1, LeafSpotIn, LeafSpotOnce
      <3>2. Ref(LeafSpot(f, a))' = Ref(LeafSpot(f, a))
        BY <1>c, <3>1 DEF Gains
      <3> QED
        BY <1>3, <1>4, <1>6, <1>e, <3>1, <3>2, FreshStays DEF Live
    <2>2. FreshAt(f, l, Ref(LeafSpot(f, l)))'
      <3>1. l \notin written'[f]
        BY <1>3, <1>4, <1>6, <1>c DEF FreshOK, FreshAt, Gains, Live
      <3>2. Ref(LeafSpot(f, l))' = c
        BY <1>c DEF Gains
      <3> QED
        BY <1>5, <3>1, <3>2 DEF FreshAt, Zero
    <2> QED
      BY <1>6, <2>1, <2>2 DEF FreshOK
  <1> QED
    BY <1>2, <1>c, <1>f, <1>g, <1>h, <1>i, Step DEF FileOK, Gains, Grows

LEMMA DirectAllocPreserves ==
    ASSUME TypeOK, MapInv, NEW f \in Files, DirectAlloc(f)
    PROVE  MapInv' /\ StepOf(f) /\ Grows(f)
  <1>0. PICK l \in Lbns : l = lbn[f]
    BY DEF TypeOK
  <1> DEFINE i == SlotOf(l)
  <1>1. PICK c \in free : /\ c \in Blocks /\ free' = free \ {c}
                          /\ mem' = [mem EXCEPT ![c] = Zero] /\ disk' = [disk EXCEPT ![c] = Zero]
                          /\ Find(f, c)
    BY DEF DirectAlloc, Take
  <1>2. StepOf(f)
    BY <1>1 DEF DirectAlloc, Goto, Find, StepOf, TypeOK, file, call, trunc
  <1>3. Apart /\ StageOK(f) /\ TablesOK(f) /\ FreshOK(f)
    BY DEF MapInv, FileOK
  <1>4. /\ pc[f] = "map" /\ pc'[f] = "direct" /\ lbn'[f] = l /\ got'[f] = c
        /\ IsDirect(i) /\ addr[f][i] = NoBlock /\ addr' = addr /\ written' = written
        /\ slot'[f] = slot[f] /\ i1'[f] = i1[f] /\ i2'[f] = i2[f] /\ op'[f] = op[f]
    BY <1>0, <1>1 DEF DirectAlloc, Goto, Find, TypeOK, file, call, trunc
  <1>5. /\ mem'[c] = Zero /\ disk'[c] = Zero
        /\ \A b \in Blocks \ {c} : mem'[b] = mem[b] /\ disk'[b] = disk[b]
    BY <1>1 DEF TypeOK
  <1>6. slot[f] = 0 /\ i1[f] = PerIndex /\ i2[f] = PerIndex
    BY <1>3, <1>4 DEF StageOK
  <1>7. Kept(f)
    <2>1. \A s \in Spots : Ref(s) # NoBlock => Ref(s) \in Blocks \ {c}
      BY <1>1, NotFree, RefEntry DEF Entry
    <2>2. \A b \in Blocks : ~Holds(f, b)
      BY <1>4 DEF Holds
    <2> QED
      BY <1>5, <2>1, <2>2 DEF Kept
  <1>8. RefsSame(f)
    BY <1>4, <1>7, FileFrame DEF RefsSame, Kept
  <1>9. Apart'
    <2>1. \A s \in Spots : Ref(s)' = Ref(s) /\ Ref(s) \in Entry
      BY <1>2, <1>8, RefEntry, Others, SpotIs DEF RefsSame
    <2>2. \A g \in Files \ {f} : \A b \in Entry : Holds(g, b)' <=> Holds(g, b)
      BY <1>2, Others
    <2>3. \A b \in Entry : ~Holds(f, b) /\ (Holds(f, b)' <=> b = c)
      BY <1>4 DEF Holds
    <2>4. free \subseteq Blocks
      BY DEF TypeOK
    <2> QED
      BY <1>1, <1>3, <2>1, <2>2, <2>3, <2>4, ApartTake
  <1>a. TablesOK(f)'
    BY <1>3, <1>7, <1>8, TablesSame
  <1>b. StageOK(f)'
    <2>1. Ref(LeafSpot(f, l)) = NoBlock
      BY <1>4, <1>6, LeafRef
    <2>2. Ref(LeafSpot(f, l))' = NoBlock
      BY <1>8, <2>1, LeafSpotIn DEF RefsSame
    <2> QED
      BY <1>1, <1>4, <1>6, <2>2 DEF StageOK
  <1>c. FreshOK(f)'
    <2>1. ASSUME NEW a \in Lbns PROVE FreshAt(f, a, Ref(LeafSpot(f, a)))'
      <3>1. LeafSpot(f, a) \in Spots /\ LeafSpot(f, a).f = f
        BY LeafSpotIn
      <3> QED
        BY <1>3, <1>4, <1>7, <1>8, <3>1, FreshStays DEF Live, RefsSame, Kept
    <2> QED
      BY <1>4, <1>5, <2>1 DEF FreshOK, Zero
  <1> QED
    BY <1>2, <1>8, <1>9, <1>a, <1>b, <1>c, Step DEF FileOK, Grows, RefsSame

\* As long as the buffer is still the block's.
LEMMA DirectLinkPreserves ==
    ASSUME TypeOK, MapInv, NEW f \in Files, DirectLink(f), sound'
    PROVE  MapInv' /\ StepOf(f) /\ Grows(f)
  <1>0. PICK l \in Lbns : l = lbn[f]
    BY DEF TypeOK
  <1> DEFINE t == LeafSpot(f, l)
  <1>3. Apart /\ StageOK(f) /\ TablesOK(f) /\ FreshOK(f)
    BY DEF MapInv, FileOK
  <1>1. PICK c : c = got[f] /\ addr' = [addr EXCEPT ![f][l] = c] /\ Find(f, c)
    BY <1>0 DEF DirectLink
  <1>4. /\ pc[f] = "direct" /\ pc'[f] = "io" /\ lbn'[f] = l /\ got'[f] = c
        /\ mem' = mem /\ disk' = disk /\ free' = free /\ written' = written
        /\ slot'[f] = slot[f] /\ i1'[f] = i1[f] /\ i2'[f] = i2[f] /\ op'[f] = op[f]
    BY <1>0, <1>1 DEF DirectLink, Goto, Find, TypeOK, block, call, trunc
  <1>5. /\ IsDirect(SlotOf(l)) /\ c \in Blocks /\ Ref(t) = NoBlock
        /\ slot[f] = 0 /\ i1[f] = PerIndex /\ i2[f] = PerIndex
        /\ mem[c] = Zero /\ disk[c] = Zero
    BY <1>0, <1>1, <1>3, <1>4 DEF StageOK, FreshOK, Live
  <1>6. SlotOf(l) = l /\ l \in Slots /\ c # NoBlock /\ 0 \in Index
    BY <1>5, SlotArith, MapAssumption DEF Index
  <1>2. StepOf(f)
    BY <1>1, <1>4, <1>6 DEF DirectLink, Goto, Find, StepOf, TypeOK, block, call, trunc
  <1>7. addr'[f][l] = c /\ \A x \in Slots \ {l} : addr'[f][x] = addr[f][x]
    BY <1>1, <1>6 DEF TypeOK
  <1>8. /\ t = Spot(f, l, Top, Top) /\ t \in Spots /\ t.f = f /\ t.i = l /\ t.j = Top /\ t.k = Top
        /\ ~OfIndex(t)
    BY <1>5, <1>6, SpotIn, TopFacts, LeafSpotIn DEF LeafSpot
  <1>9. ASSUME NEW x \in Slots, NEW j \in Index
        PROVE  FirstAt(f, x, j)' = FirstAt(f, x, j)
    <2>1. CASE x = l
      BY <1>5, <1>6, <2>1 DEF FirstAt, IsDirect
    <2>2. CASE x # l
      <3>1. At(addr[f][x], j)' = At(addr[f][x], j)
        BY <1>4, <1>7, <2>2 DEF At
      <3> QED
        BY <1>4, <1>5, <3>1, NoCut
    <2> QED
      BY <2>1, <2>2
  <1>a. ASSUME NEW x \in Slots, NEW j \in Index, NEW k \in Index
        PROVE  SecondAt(f, x, j, k)' = SecondAt(f, x, j, k)
    <2>1. At(FirstAt(f, x, j), k)' = At(FirstAt(f, x, j), k)
      BY <1>4, <1>9 DEF At
    <2> QED
      BY <1>4, <1>5, <2>1, NoCut
  <1>b. Gains(f, t, c)
    <2>1. Ref(t)' = c
      BY <1>6, <1>7, <1>8, RefOf
    <2>2. ASSUME NEW s \in Spots, s # t, s.f = f PROVE Ref(s)' = Ref(s)
      <3>1. CASE s.j = Top /\ s.k = Top
        <4>1. s.i # l
          BY <1>8, <2>2, <3>1, SpotIs
        <4> QED
          BY <1>7, <2>2, <3>1, <4>1, SpotIs DEF Ref, Top
      <3>2. CASE ~(s.j = Top /\ s.k = Top)
        BY <1>9, <1>a, <2>2, <3>2, SpotIs DEF Ref, Top, Depth
      <3> QED
        BY <3>1, <3>2
    <2> QED
      BY <1>5, <1>8, <2>1, <2>2 DEF Gains
  <1>c. Apart'
    <2>1. \A s \in Spots : Ref(s) \in Entry
      BY RefEntry
    <2>2. \A s \in Spots \ {t} : Ref(s)' = Ref(s)
      BY <1>2, <1>b, Others, SpotIs DEF RefsSame, Gains
    <2>3. \A g \in Files \ {f} : \A b \in Entry : Holds(g, b)' <=> Holds(g, b)
      BY <1>2, Others
    <2>4. \A b \in Entry : ~Holds(f, b)' /\ (Holds(f, b) <=> b = c)
      BY <1>1, <1>4 DEF Holds
    <2>5. free \subseteq Blocks /\ Ref(t) = NoBlock /\ Ref(t)' = c
      BY <1>b DEF TypeOK, Gains
    <2> HIDE DEF t
    <2> QED
      BY <1>3, <1>4, <1>5, <1>8, <2>1, <2>2, <2>3, <2>4, <2>5, ApartLink
  <1>d. TablesOK(f)'
    BY <1>3, <1>4, <1>8, <1>b, GainTables DEF TablesOK
  <1>e. StageOK(f)'
    <2>1. got'[f] = Ref(LeafSpot(f, l))'
      BY <1>4, <1>b DEF Gains
    <2> QED
      BY <1>4, <1>5, <1>6, <2>1 DEF StageOK
  <1>f. FreshOK(f)'
    <2>1. ASSUME NEW a \in Lbns, a # l PROVE FreshAt(f, a, Ref(LeafSpot(f, a)))'
      <3>1. LeafSpot(f, a) \in Spots \ {t} /\ LeafSpot(f, a).f = f
        BY <2>1, LeafSpotIn, LeafSpotOnce
      <3>2. Ref(LeafSpot(f, a))' = Ref(LeafSpot(f, a))
        BY <1>b, <3>1 DEF Gains
      <3> QED
        BY <1>3, <1>4, <3>2, FreshStays DEF Live
    <2>2. FreshAt(f, l, Ref(LeafSpot(f, l)))'
      <3>1. l \notin written'[f]
        BY <1>3, <1>4, <1>5 DEF FreshOK, FreshAt, Live
      <3>2. Ref(LeafSpot(f, l))' = c
        BY <1>b DEF Gains
      <3> QED
        BY <1>4, <1>5, <1>6, <3>1, <3>2 DEF FreshAt, Zero
    <2> QED
      BY <1>4, <2>1, <2>2 DEF FreshOK
  <1> QED
    BY <1>2, <1>b, <1>c, <1>d, <1>e, <1>f, Step DEF FileOK, Gains, Grows

LEMMA StorePreserves ==
    ASSUME TypeOK, MapInv, NEW f \in Files, Store(f)
    PROVE  MapInv' /\ StepOf(f) /\ Grows(f)
  <1>0. PICK l \in Lbns : l = lbn[f]
    BY DEF TypeOK
  <1> DEFINE t == LeafSpot(f, l)
  <1>3. Apart /\ StageOK(f) /\ TablesOK(f) /\ FreshOK(f)
    BY DEF MapInv, FileOK
  <1>8. t \in Spots /\ t.f = f /\ ~OfIndex(t)
    BY LeafSpotIn
  <1>1. PICK c \in Blocks : c = got[f] /\ c = Ref(t)
    <2>1. pc[f] = "io"
      BY DEF Store
    <2> QED
      BY <1>0, <1>3, <1>8, <2>1, RefEntry DEF StageOK, Entry
  <1>4. /\ pc[f] = "io" /\ pc'[f] = "idle" /\ op'[f] = "none" /\ addr' = addr /\ free' = free
        /\ written'[f] = written[f] \cup {l}
        /\ slot'[f] = slot[f] /\ i1'[f] = i1[f] /\ i2'[f] = i2[f]
    BY <1>0 DEF Store, Return, Goto, TypeOK, trunc
  <1>5. /\ mem'[c] = Data /\ disk'[c] = Data
        /\ \A b \in Blocks \ {c} : mem'[b] = mem[b] /\ disk'[b] = disk[b]
    BY <1>1 DEF Store, TypeOK
  <1>6. slot[f] = 0 /\ i1[f] = PerIndex /\ i2[f] = PerIndex
    BY <1>3, <1>4 DEF StageOK
  <1>2. StepOf(f)
    <2>1. \A b \in Blocks : \/ mem'[b] = mem[b] /\ disk'[b] = disk[b]
                            \/ \E s \in Spots : s.f = f /\ Ref(s) = b
      BY <1>1, <1>5, <1>8
    <2> QED
      BY <2>1 DEF Store, Return, Goto, Hold, Find, StepOf, TypeOK, trunc
  <1>7. \A s \in Spots \ {t} : Ref(s) # NoBlock =>
            mem'[Ref(s)] = mem[Ref(s)] /\ disk'[Ref(s)] = disk[Ref(s)]
    <2> SUFFICES ASSUME NEW s \in Spots \ {t}, Ref(s) # NoBlock
                 PROVE  mem'[Ref(s)] = mem[Ref(s)] /\ disk'[Ref(s)] = disk[Ref(s)]
      OBVIOUS
    <2>1. Ref(s) \in Blocks \ {c}
      BY <1>1, <1>8, NotFree, RefEntry DEF Entry
    <2> QED
      BY <1>5, <2>1
  <1>9. RefsSame(f)
    BY <1>4, <1>7, <1>8, FileFrame DEF RefsSame
  <1>a. Apart'
    <2>1. \A s \in Spots : Ref(s)' = Ref(s) /\ Ref(s) \in Entry
      BY <1>2, <1>9, RefEntry, Others, SpotIs DEF RefsSame
    <2>2. \A g \in Files : \A b \in Entry : Holds(g, b)' <=> Holds(g, b)
      <3> SUFFICES ASSUME NEW g \in Files, NEW b \in Entry PROVE Holds(g, b)' <=> Holds(g, b)
        OBVIOUS
      <3>1. CASE g = f
        BY <1>4, <3>1 DEF Holds
      <3>2. CASE g # f
        BY <1>2, <3>2, Others
      <3> QED
        BY <3>1, <3>2
    <2>3. free \subseteq Blocks
      BY DEF TypeOK
    <2> QED
      BY <1>3, <1>4, <2>1, <2>2, <2>3, ApartSame
  <1>b. TablesOK(f)'
    BY <1>3, <1>7, <1>8, <1>9 DEF TablesOK, RefsSame, OfIndex, IsDirect, IsDouble, Tables,
       Entry, Index
  <1>c. StageOK(f)'
    BY <1>4, <1>6 DEF StageOK
  <1>d. FreshOK(f)'
    <2>1. ASSUME NEW a \in Lbns, a # l PROVE FreshAt(f, a, Ref(LeafSpot(f, a)))'
      <3>1. LeafSpot(f, a) \in Spots \ {t} /\ LeafSpot(f, a).f = f
        BY <2>1, LeafSpotIn, LeafSpotOnce
      <3>2. Ref(LeafSpot(f, a))' = Ref(LeafSpot(f, a))
        BY <1>9, <3>1 DEF RefsSame
      <3>3. a \in written'[f] <=> a \in written[f]
        BY <1>4, <2>1
      <3> QED
        BY <1>3, <1>4, <1>7, <3>1, <3>2, <3>3, FreshStays DEF Live
    <2>2. FreshAt(f, l, Ref(LeafSpot(f, l)))'
      <3>1. Ref(LeafSpot(f, l))' = c /\ c # NoBlock
        BY <1>1, <1>8, <1>9, MapAssumption DEF RefsSame
      <3>2. l \in written'[f]
        BY <1>4
      <3> QED
        BY <1>5, <3>1, <3>2 DEF FreshAt
    <2> QED
      BY <1>4, <2>1, <2>2 DEF FreshOK
  <1> QED
    BY <1>2, <1>9, <1>a, <1>b, <1>c, <1>d, Step DEF FileOK, Grows, RefsSame

-----------------------------------------------------------------------------
(* Steps that give a block back                                             *)

\* The place t of f names its block c no more, and no other place has changed.
Loses(f, t, c) ==
    /\ t.f = f /\ Ref(t) = c /\ Ref(t)' = NoBlock
    /\ \A s \in Spots \ {t} : s.f = f => Ref(s)' = Ref(s)

LEMMA Given ==
    ASSUME TypeOK, NEW c \in Blocks, Give(c)
    PROVE  /\ free' = free \cup {c} /\ mem'[c] = Data /\ disk'[c] = Data
           /\ \A b \in Blocks \ {c} : mem'[b] = mem[b] /\ disk'[b] = disk[b]
           /\ \A b \in Entry \ {c} : \A x \in Index : At(b, x)' = At(b, x)
  BY DEF Give, TypeOK, At, Entry

LEMMA LosePreserves ==
    ASSUME TypeOK, MapInv, NEW f \in Files, StepOf(f), NEW t \in Spots, NEW c \in Blocks,
           Loses(f, t, c), Give(c), pc[f] # "direct", pc'[f] \notin Live, StageOK(f)'
    PROVE  MapInv' /\ StepOf(f)
  <1>1. Apart /\ TablesOK(f)
    BY DEF MapInv, FileOK
  <1>2. /\ \A s \in Spots : Ref(s) \in Entry
        /\ \A s \in Spots \ {t} : Ref(s)' = Ref(s)
        /\ Ref(t) = c /\ Ref(t)' = NoBlock /\ free \subseteq Blocks
    BY RefEntry, Others, SpotIs DEF RefsSame, Loses, TypeOK
  <1>3. \A g \in Files : \A b \in Entry : Holds(g, b)' <=> Holds(g, b)
    <2> SUFFICES ASSUME NEW g \in Files, NEW b \in Entry PROVE Holds(g, b)' <=> Holds(g, b)
      OBVIOUS
    <2>1. CASE g = f
      BY <2>1 DEF Holds, Live
    <2>2. CASE g # f
      BY <2>2, Others
    <2> QED
      BY <2>1, <2>2
  <1>4. \A g \in Files : ~Holds(g, NoBlock)
    <2> SUFFICES ASSUME NEW g \in Files, Holds(g, NoBlock) PROVE FALSE
      OBVIOUS
    <2>1. StageOK(g) /\ pc[g] = "direct" /\ got[g] = NoBlock
      BY DEF MapInv, FileOK, Holds
    <2> QED
      BY <2>1, MapAssumption DEF StageOK
  <1>5. Apart'
    BY <1>1, <1>2, <1>3, <1>4, Given, ApartDrop
  <1>6. TablesOK(f)'
    <2> SUFFICES ASSUME NEW s \in Spots, s.f = f, OfIndex(s), Ref(s)' # NoBlock
                 PROVE  mem'[Ref(s)'] \in Tables
      BY DEF TablesOK, OfIndex, IsDirect, IsDouble, Tables, Index, Entry
    <2>1. s # t /\ Ref(s)' = Ref(s)
      BY <1>2
    <2>2. Ref(s) \in Blocks \ {c}
      BY <1>2, <2>1, NotFree DEF Entry
    <2>3. mem'[Ref(s)] = mem[Ref(s)]
      BY <2>2, Given
    <2> QED
      BY <1>1, <2>1, <2>3 DEF TablesOK
  <1>7. FreshOK(f)'
    BY DEF FreshOK, Live
  <1> QED
    BY <1>5, <1>6, <1>7, Step DEF FileOK

\* What a process in ITrunc has at hand: the slot, its index block, and how much of it
\* is left.
LEMMA InTrunc ==
    ASSUME TypeOK, MapInv, NEW f \in Files, pc[f] \in {"first", "second"}
    PROVE  \E i \in Slots, n \in Blocks, e \in 0 .. PerIndex, h \in 0 .. PerIndex :
              /\ slot[f] = i /\ first[f] = n /\ i1[f] = e /\ i2[f] = h
              /\ ~IsDirect(i) /\ addr[f][i] = n /\ Ref(Spot(f, i, Top, Top)) = n
              /\ Spot(f, i, Top, Top) \in Spots
              /\ mem[n] \in Tables /\ \A x \in Index : At(n, x) = mem[n][x]
              /\ \A x \in Index : FirstAt(f, i, x) = IF x < e THEN mem[n][x] ELSE NoBlock
  <1>1. PICK i \in Slots, e \in 0 .. PerIndex, h \in 0 .. PerIndex :
           slot[f] = i /\ i1[f] = e /\ i2[f] = h
    BY DEF TypeOK
  <1> DEFINE r == Spot(f, i, Top, Top)
  <1>2. StageOK(f) /\ TablesOK(f)
    BY DEF MapInv, FileOK
  <1>3. ~IsDirect(i) /\ first[f] # NoBlock /\ first[f] = Ref(r)
    BY <1>1, <1>2, SlotKinds DEF StageOK
  <1>4. r \in Spots /\ r.f = f /\ OfIndex(r)
    BY <1>3, SpotIn, TopFacts DEF OfIndex
  <1>5. PICK n \in Blocks : n = first[f]
    BY <1>3, <1>4, RefEntry DEF Entry
  <1>6. mem[n] \in Tables /\ \A x \in Index : At(n, x) = mem[n][x]
    BY <1>2, <1>3, <1>4, <1>5, TableAt
  <1>7. addr[f][i] = n
    <2>1. 0 \in Index
      BY MapAssumption DEF Index
    <2> QED
      BY <1>3, <1>5, <2>1, RefOf
  <1>8. ASSUME NEW x \in Index
        PROVE  FirstAt(f, i, x) = IF x < e THEN mem[n][x] ELSE NoBlock
    <2>1. (x >= e) <=> ~(x < e)
      BY MapAssumption DEF Index
    <2> QED
      BY <1>1, <1>3, <1>6, <1>7, <2>1 DEF FirstAt
  <1> QED
    BY <1>1, <1>3, <1>4, <1>5, <1>6, <1>7, <1>8

LEMMA DirectFreePreserves ==
    ASSUME TypeOK, MapInv, NEW f \in Files, DirectFree(f)
    PROVE  MapInv' /\ StepOf(f)
  <1>1. PICK i \in Slots : /\ IsDirect(i) /\ NextSlot(f, i) /\ Give(addr[f][i])
                           /\ addr' = [addr EXCEPT ![f][i] = NoBlock]
    BY DEF DirectFree
  <1> DEFINE t == Spot(f, i, Top, Top)
  <1>2. PICK c \in Blocks : c = addr[f][i] /\ Give(c)
    BY <1>1 DEF NextSlot, TypeOK, Entry
  <1>3. StageOK(f)
    BY DEF MapInv, FileOK
  <1>4. /\ pc[f] = "slots" /\ pc'[f] = "slots" /\ slot' = slot /\ i1' = i1 /\ i2' = i2
        /\ i1[f] = PerIndex /\ i2[f] = PerIndex /\ slot[f] = 0 /\ op' = op
    BY <1>3 DEF DirectFree, StageOK, trunc, call
  <1>5. addr'[f][i] = NoBlock /\ \A x \in Slots \ {i} : addr'[f][x] = addr[f][x]
    BY <1>1 DEF TypeOK
  <1>6. /\ t \in Spots /\ t.f = f /\ t.i = i /\ t.j = Top /\ t.k = Top
        /\ Ref(t) = c /\ Ref(t)' = NoBlock
    <2>1. 0 \in Index
      BY MapAssumption DEF Index
    <2> QED
      BY <1>2, <1>5, <2>1, SpotIn, TopFacts, RefOf
  <1>7. StepOf(f)
    <2>1. \A b \in Blocks : \/ mem'[b] = mem[b] /\ disk'[b] = disk[b]
                            \/ \E s \in Spots : s.f = f /\ Ref(s) = b
      BY <1>2, <1>6, Given
    <2> QED
      BY <1>1, <2>1 DEF DirectFree, StepOf, TypeOK, call, bufs, trunc
  <1>8. ASSUME NEW x \in Slots, NEW j \in Index
        PROVE  FirstAt(f, x, j)' = FirstAt(f, x, j) /\ FirstAt(f, x, j) \in Entry \ {c}
    <2>1. /\ FirstAt(f, x, j) \in Entry \ {c} /\ addr[f][x] \in Entry
          /\ x # i => addr[f][x] # c
      <3>1. /\ Spot(f, x, Top, Top) \in Spots /\ Ref(Spot(f, x, Top, Top)) = addr[f][x]
            /\ Spot(f, x, j, Top) \in Spots /\ Ref(Spot(f, x, j, Top)) = FirstAt(f, x, j)
            /\ Spot(f, x, Top, Top).i = x /\ Spot(f, x, j, Top).j = j
        BY SpotIn, TopFacts, RefOf
      <3>2. \A s \in Spots : Ref(s) \in Entry /\ (Ref(s) = c => s = t)
        BY <1>2, <1>6, NotFree, RefEntry, MapAssumption
      <3> QED
        BY <1>6, <3>1, <3>2, TopFacts
    <2>2. CASE x = i
      BY <1>1, <2>1, <2>2 DEF FirstAt, IsDirect
    <2>3. CASE x # i
      <3>1. At(addr[f][x], j)' = At(addr[f][x], j)
        <4> DEFINE b == addr[f][x]
        <4>1. b' = b /\ b \in Entry \ {c}
          BY <1>5, <2>1, <2>3
        <4> HIDE DEF b
        <4>2. At(b, j)' = At(b, j)
          BY <1>2, <4>1, Given DEF At
        <4> QED
          BY <4>2 DEF b
      <3> QED
        BY <1>4, <2>1, <3>1, NoCut
    <2> QED
      BY <2>2, <2>3
  <1>9. ASSUME NEW x \in Slots, NEW j \in Index, NEW k \in Index
        PROVE  SecondAt(f, x, j, k)' = SecondAt(f, x, j, k)
    <2> DEFINE b == FirstAt(f, x, j)
    <2>1. b' = b /\ b \in Entry \ {c}
      BY <1>8
    <2> HIDE DEF b
    <2>2. At(b, k)' = At(b, k)
      BY <1>2, <2>1, Given DEF At
    <2> QED
      BY <1>4, <2>2, NoCut DEF b
  <1>a. Loses(f, t, c)
    <2>1. ASSUME NEW s \in Spots, s # t, s.f = f PROVE Ref(s)' = Ref(s)
      <3>1. CASE s.j = Top /\ s.k = Top
        <4>1. s.i # i
          BY <1>6, <2>1, <3>1, SpotIs
        <4> QED
          BY <1>5, <2>1, <3>1, <4>1, SpotIs DEF Ref, Top
      <3>2. CASE ~(s.j = Top /\ s.k = Top)
        BY <1>8, <1>9, <2>1, <3>2, SpotIs DEF Ref, Top, Depth
      <3> QED
        BY <3>1, <3>2
    <2> QED
      BY <1>6, <2>1 DEF Loses
  <1>b. StageOK(f)'
    BY <1>3, <1>4 DEF StageOK
  <1> QED
    BY <1>2, <1>4, <1>6, <1>7, <1>a, <1>b, LosePreserves DEF Live

\* What the file's places name is not touched by Give of another block.
LEMMA OtherAt ==
    ASSUME TypeOK, MapInv, NEW f \in Files, NEW t \in Spots, NEW c \in Blocks,
           Ref(t) = c, Give(c), NEW x \in Slots, NEW j \in Index
    PROVE  /\ addr[f][x] \in Entry /\ FirstAt(f, x, j) \in Entry
           /\ addr[f][x] = c => t = Spot(f, x, Top, Top)
           /\ FirstAt(f, x, j) = c => t = Spot(f, x, j, Top)
           /\ addr[f][x] # c /\ addr'[f] = addr[f] => At(addr[f][x], j)' = At(addr[f][x], j)
           /\ FirstAt(f, x, j) # c /\ FirstAt(f, x, j)' = FirstAt(f, x, j) =>
                 \A k \in Index : At(FirstAt(f, x, j), k)' = At(FirstAt(f, x, j), k)
  <1>1. /\ Spot(f, x, Top, Top) \in Spots /\ Ref(Spot(f, x, Top, Top)) = addr[f][x]
        /\ Spot(f, x, j, Top) \in Spots /\ Ref(Spot(f, x, j, Top)) = FirstAt(f, x, j)
    BY SpotIn, TopFacts, RefOf
  <1>2. \A s \in Spots : Ref(s) \in Entry /\ (Ref(s) = c => t = s)
    BY NotFree, RefEntry, MapAssumption
  <1>3. ASSUME addr[f][x] # c, addr'[f] = addr[f] PROVE At(addr[f][x], j)' = At(addr[f][x], j)
    <2> DEFINE b == addr[f][x]
    <2>1. b' = b /\ b \in Entry \ {c}
      BY <1>1, <1>2, <1>3
    <2> HIDE DEF b
    <2>2. At(b, j)' = At(b, j)
      BY <2>1, Given DEF At
    <2> QED
      BY <2>2 DEF b
  <1>4. ASSUME FirstAt(f, x, j) # c, FirstAt(f, x, j)' = FirstAt(f, x, j), NEW k \in Index
        PROVE  At(FirstAt(f, x, j), k)' = At(FirstAt(f, x, j), k)
    <2> DEFINE b == FirstAt(f, x, j)
    <2>1. b' = b /\ b \in Entry \ {c}
      BY <1>1, <1>2, <1>4
    <2> HIDE DEF b
    <2>2. At(b, k)' = At(b, k)
      BY <2>1, Given DEF At
    <2> QED
      BY <2>2 DEF b
  <1> QED
    BY <1>1, <1>2, <1>3, <1>4

\* Losing a place of a first index block.
LEMMA LosesFirst ==
    ASSUME NEW f \in Files, NEW i \in Slots, NEW j \in Index, NEW c,
           addr'[f] = addr[f],
           FirstAt(f, i, j) = c, FirstAt(f, i, j)' = NoBlock,
           \A x \in Slots : \A y \in Index :
               ~(x = i /\ y = j) => FirstAt(f, x, y)' = FirstAt(f, x, y),
           \A x \in Slots : \A y, k \in Index : SecondAt(f, x, y, k)' = SecondAt(f, x, y, k)
    PROVE  Spot(f, i, j, Top) \in Spots /\ Loses(f, Spot(f, i, j, Top), c)
  <1> DEFINE t == Spot(f, i, j, Top)
  <1>1. /\ t \in Spots /\ t.f = f /\ t.i = i /\ t.j = j /\ t.k = Top
        /\ Ref(t) = c /\ Ref(t)' = NoBlock
    BY SpotIn, TopFacts, RefOf
  <1>2. ASSUME NEW s \in Spots, s # t, s.f = f PROVE Ref(s)' = Ref(s)
    <2>1. ~(s.i = i /\ s.j = j /\ s.k = Top)
      BY <1>1, <1>2, SpotIs
    <2>2. s.i \in Slots /\ (s.j # Top => s.j \in Index) /\ (s.k # Top => s.k \in Index)
      BY SpotIs DEF Depth
    <2> QED
      BY <1>2, <2>1, <2>2 DEF Ref, Top
  <1> QED
    BY <1>1, <1>2 DEF Loses

LEMMA FirstFreePreserves ==
    ASSUME TypeOK, MapInv, NEW f \in Files, FirstFree(f)
    PROVE  MapInv' /\ StepOf(f)
  <1>0. pc[f] = "first"
    BY DEF FirstFree
  <1>1. PICK i \in Slots, n \in Blocks, e \in 0 .. PerIndex, h \in 0 .. PerIndex :
              /\ slot[f] = i /\ first[f] = n /\ i1[f] = e /\ i2[f] = h
              /\ ~IsDirect(i) /\ addr[f][i] = n /\ Ref(Spot(f, i, Top, Top)) = n
              /\ Spot(f, i, Top, Top) \in Spots
              /\ mem[n] \in Tables /\ \A x \in Index : At(n, x) = mem[n][x]
              /\ \A x \in Index : FirstAt(f, i, x) = IF x < e THEN mem[n][x] ELSE NoBlock
    BY <1>0, InTrunc
  <1>2. PICK j \in Index : /\ NextEntry(mem[n], e, j) /\ Give(mem[n][j])
                           /\ i1' = [i1 EXCEPT ![f] = j]
    BY <1>1 DEF FirstFree
  <1>3. PICK c \in Blocks : c = mem[n][j] /\ Give(c)
    BY <1>1, <1>2 DEF NextEntry, Tables, Entry
  <1>4. j < e /\ \A x \in j + 1 .. e - 1 : mem[n][x] = NoBlock
    BY <1>2 DEF NextEntry
  <1>5. j \in 0 .. PerIndex - 1 /\ PerIndex \in Nat /\ Index = 0 .. PerIndex - 1
    BY MapAssumption DEF Index
  <1>6. /\ ~IsDouble(i) /\ pc' = pc /\ addr' = addr /\ slot' = slot /\ i2' = i2
        /\ first' = first /\ got' = got /\ op' = op /\ lbn' = lbn /\ written' = written
        /\ i1'[f] = j /\ \A g \in Files \ {f} : i1'[g] = i1[g]
    BY <1>1, <1>2 DEF FirstFree, TypeOK, file, call, bufs
  <1> DEFINE t == Spot(f, i, j, Top)
             r == Spot(f, i, Top, Top)
  <1>7. t \in Spots /\ t.f = f /\ Ref(t) = c /\ FirstAt(f, i, j) = c /\ t # r
    <2>1. FirstAt(f, i, j) = c
      BY <1>1, <1>3, <1>4
    <2>2. t.j = j /\ r.j = Top
      BY SpotIn, TopFacts
    <2> QED
      BY <2>1, <2>2, SpotIn, TopFacts, RefOf
  <1>8. StepOf(f)
    <2>1. \A b \in Blocks : \/ mem'[b] = mem[b] /\ disk'[b] = disk[b]
                            \/ \E s \in Spots : s.f = f /\ Ref(s) = b
      BY <1>3, <1>7, Given
    <2> QED
      BY <1>6, <2>1 DEF StepOf
  <1>9. ASSUME NEW x \in Slots, NEW y \in Index, ~(x = i /\ y = j)
        PROVE  FirstAt(f, x, y)' = FirstAt(f, x, y)
    <2>1. addr[f][x] # c => At(addr[f][x], y)' = At(addr[f][x], y)
      BY <1>3, <1>6, <1>7, OtherAt
    <2>2. CASE x # i
      <3>1. addr[f][x] = c => t = Spot(f, x, Top, Top)
        BY <1>3, <1>7, OtherAt
      <3>2. t.i = i /\ Spot(f, x, Top, Top).i = x
        BY SpotIn, TopFacts
      <3> QED
        BY <1>1, <1>6, <2>1, <2>2, <3>1, <3>2 DEF FirstAt, IsDirect
    <2>3. CASE x = i /\ y < j
      <3>1. n # c
        BY <1>1, <1>3, <1>7, MapAssumption, NotFree
      <3>2. ~(y >= j) /\ ~(y >= e)
        BY <1>4, <1>5, <2>3
      <3> QED
        BY <1>1, <1>6, <2>1, <2>3, <3>1, <3>2 DEF FirstAt, IsDirect
    <2>4. CASE x = i /\ y > j
      <3>1. y >= j /\ (y < e => y \in j + 1 .. e - 1)
        BY <1>4, <1>5, <2>4
      <3>2. FirstAt(f, x, y)' = NoBlock
        BY <1>1, <1>6, <2>4, <3>1 DEF FirstAt
      <3> QED
        BY <1>1, <1>4, <2>4, <3>1, <3>2
    <2> QED
      BY <1>5, <1>9, <2>2, <2>3, <2>4
  <1>a. FirstAt(f, i, j)' = NoBlock
    <2>1. j >= j
      BY <1>5
    <2> QED
      BY <1>1, <1>6, <2>1 DEF FirstAt
  <1>b. ASSUME NEW x \in Slots, NEW y \in Index, NEW k \in Index
        PROVE  SecondAt(f, x, y, k)' = SecondAt(f, x, y, k)
    <2>1. CASE ~IsDouble(x)
      BY <2>1 DEF SecondAt, IsDouble
    <2>2. CASE IsDouble(x)
      <3>1. x # i
        BY <1>6, <2>2
      <3>2. FirstAt(f, x, y) # c
        <4>1. t.i = i /\ Spot(f, x, y, Top).i = x
          BY SpotIn, TopFacts
        <4> QED
          BY <1>3, <1>7, <3>1, <4>1, OtherAt
      <3>3. At(FirstAt(f, x, y), k)' = At(FirstAt(f, x, y), k)
        BY <1>3, <1>7, <1>9, <3>1, <3>2, OtherAt
      <3> QED
        BY <1>1, <1>6, <2>2, <3>1, <3>3 DEF SecondAt, IsDouble
    <2> QED
      BY <2>1, <2>2
  <1>c. Loses(f, t, c)
    BY <1>6, <1>7, <1>9, <1>a, <1>b, LosesFirst
  <1>d. StageOK(f)'
    <2>1. StageOK(f)
      BY DEF MapInv, FileOK
    <2>2. Ref(r)' = n
      <3>1. r.f = f
        BY SpotIn, TopFacts
      <3> QED
        BY <1>1, <1>7, <1>c, <3>1 DEF Loses
    <2>3. first'[f] = Ref(Spot(f, slot[f], Top, Top))'
      BY <1>1, <1>6, <2>2
    <2> QED
      BY <1>0, <1>1, <1>6, <2>1, <2>3, MapAssumption DEF StageOK
  <1> QED
    BY <1>0, <1>3, <1>6, <1>7, <1>8, <1>c, <1>d, LosePreserves DEF Live

\* In a second index block: the block itself, and how much of it is left.
LEMMA InSecond ==
    ASSUME TypeOK, MapInv, NEW f \in Files, pc[f] = "second",
           NEW i \in Slots, NEW n \in Blocks, NEW e \in 0 .. PerIndex, NEW h \in 0 .. PerIndex,
           slot[f] = i, first[f] = n, i1[f] = e, i2[f] = h,
           \A x \in Index : FirstAt(f, i, x) = IF x < e THEN mem[n][x] ELSE NoBlock
    PROVE  \E j \in Index, p \in Blocks :
              /\ IsDouble(i) /\ j = e - 1 /\ got[f] = p /\ FirstAt(f, i, j) = p /\ mem[n][j] = p
              /\ Spot(f, i, j, Top) \in Spots /\ Ref(Spot(f, i, j, Top)) = p
              /\ mem[p] \in Tables
              /\ \A k \in Index : /\ At(p, k) = mem[p][k]
                                  /\ SecondAt(f, i, j, k) = IF k < h THEN mem[p][k] ELSE NoBlock
  <1>1. StageOK(f) /\ TablesOK(f)
    BY DEF MapInv, FileOK
  <1>2. IsDouble(i) /\ e >= 1 /\ got[f] # NoBlock /\ got[f] = Ref(Spot(f, i, e - 1, Top))
    BY <1>1 DEF StageOK
  <1>3. PICK j \in Index : j = e - 1
    BY <1>2, MapAssumption DEF Index
  <1> DEFINE t == Spot(f, i, j, Top)
  <1>4. t \in Spots /\ t.f = f /\ OfIndex(t) /\ Ref(t) = FirstAt(f, i, j)
    BY <1>2, SpotIn, TopFacts, RefOf DEF OfIndex
  <1>5. PICK p \in Blocks : p = got[f] /\ p = Ref(t)
    BY <1>2, <1>3, <1>4, RefEntry DEF Entry
  <1>6. mem[p] \in Tables /\ \A k \in Index : At(p, k) = mem[p][k]
    BY <1>1, <1>2, <1>4, <1>5, TableAt
  <1>7. mem[n][j] = p
    <2>1. j < e
      BY <1>3
    <2> QED
      BY <1>4, <1>5, <2>1
  <1>8. ASSUME NEW k \in Index
        PROVE  SecondAt(f, i, j, k) = IF k < h THEN mem[p][k] ELSE NoBlock
    <2>1. (k >= h) <=> ~(k < h)
      BY MapAssumption DEF Index
    <2> QED
      BY <1>2, <1>3, <1>4, <1>5, <1>6, <2>1 DEF SecondAt
  <1> QED
    BY <1>2, <1>3, <1>4, <1>5, <1>6, <1>7, <1>8

LEMMA SecondDonePreserves ==
    ASSUME TypeOK, MapInv, NEW f \in Files, SecondDone(f)
    PROVE  MapInv' /\ StepOf(f)
  <1>0. pc[f] = "second" /\ pc'[f] = "first"
    BY DEF SecondDone, Goto, TypeOK
  <1>1. PICK i \in Slots, n \in Blocks, e \in 0 .. PerIndex, h \in 0 .. PerIndex :
              /\ slot[f] = i /\ first[f] = n /\ i1[f] = e /\ i2[f] = h
              /\ ~IsDirect(i) /\ addr[f][i] = n /\ Ref(Spot(f, i, Top, Top)) = n
              /\ Spot(f, i, Top, Top) \in Spots
              /\ mem[n] \in Tables /\ \A x \in Index : At(n, x) = mem[n][x]
              /\ \A x \in Index : FirstAt(f, i, x) = IF x < e THEN mem[n][x] ELSE NoBlock
    BY <1>0, InTrunc
  <1>2. PICK j \in Index, c \in Blocks :
              /\ IsDouble(i) /\ j = e - 1 /\ got[f] = c /\ FirstAt(f, i, j) = c /\ mem[n][j] = c
              /\ Spot(f, i, j, Top) \in Spots /\ Ref(Spot(f, i, j, Top)) = c
              /\ mem[c] \in Tables
              /\ \A k \in Index : /\ At(c, k) = mem[c][k]
                                  /\ SecondAt(f, i, j, k) = IF k < h THEN mem[c][k] ELSE NoBlock
    BY <1>0, <1>1, InSecond
  <1>3. Give(c) /\ \A k \in 0 .. h - 1 : mem[c][k] = NoBlock
    BY <1>1, <1>2 DEF SecondDone, NoEntry
  <1>4. j \in 0 .. PerIndex - 1 /\ e = j + 1 /\ PerIndex \in Nat /\ Index = 0 .. PerIndex - 1
    BY <1>2, MapAssumption DEF Index
  <1>5. /\ addr' = addr /\ slot' = slot /\ first' = first /\ op' = op /\ lbn' = lbn
        /\ written' = written /\ i1'[f] = j /\ i2'[f] = PerIndex
        /\ \A g \in Files \ {f} : /\ i1'[g] = i1[g] /\ i2'[g] = i2[g]
                                  /\ got'[g] = got[g] /\ pc'[g] = pc[g]
    BY <1>1, <1>2 DEF SecondDone, TypeOK, Goto, Find, file, call
  <1> DEFINE t == Spot(f, i, j, Top)
             r == Spot(f, i, Top, Top)
  <1>6. t \in Spots /\ t.f = f /\ t.i = i /\ t.j = j /\ t # r /\ Ref(t) = c
    <2>1. t.j = j /\ r.j = Top
      BY SpotIn, TopFacts
    <2> QED
      BY <1>2, <2>1, SpotIn, TopFacts
  <1>7. StepOf(f)
    <2>1. \A b \in Blocks : \/ mem'[b] = mem[b] /\ disk'[b] = disk[b]
                            \/ \E s \in Spots : s.f = f /\ Ref(s) = b
      BY <1>3, <1>6, Given
    <2> QED
      BY <1>5, <2>1 DEF StepOf
  <1>8. \A x \in Slots : \A y \in Index : addr[f][x] # c /\ At(addr[f][x], y)' = At(addr[f][x], y)
    <2> SUFFICES ASSUME NEW x \in Slots, NEW y \in Index
                 PROVE  addr[f][x] # c /\ At(addr[f][x], y)' = At(addr[f][x], y)
      OBVIOUS
    <2>1. t.j # Spot(f, x, Top, Top).j
      BY <1>6, SpotIn, TopFacts
    <2> QED
      BY <1>3, <1>5, <1>6, <2>1, OtherAt
  <1>9. ASSUME NEW x \in Slots, NEW y \in Index, ~(x = i /\ y = j)
        PROVE  FirstAt(f, x, y)' = FirstAt(f, x, y)
    <2>1. CASE x # i
      BY <1>1, <1>5, <1>8, <2>1 DEF FirstAt, IsDirect
    <2>2. CASE x = i /\ y # j
      <3>1. (y >= e) <=> (y >= j)
        BY <1>4, <2>2
      <3> QED
        BY <1>1, <1>5, <1>8, <2>2, <3>1 DEF FirstAt, IsDirect
    <2> QED
      BY <1>9, <2>1, <2>2
  <1>a. FirstAt(f, i, j)' = NoBlock
    <2>1. j >= j
      BY <1>4
    <2> QED
      BY <1>1, <1>5, <2>1 DEF FirstAt
  <1>b. ASSUME NEW x \in Slots, NEW y \in Index, NEW k \in Index
        PROVE  SecondAt(f, x, y, k)' = SecondAt(f, x, y, k)
    <2>1. SecondAt(f, x, y, k)' = IF ~IsDouble(x) THEN NoBlock ELSE At(FirstAt(f, x, y), k)'
      BY <1>5, NoCut
    <2>2. CASE x = i /\ y = j
      <3>1. At(FirstAt(f, x, y), k)' = NoBlock
        BY <1>a, <2>2 DEF At
      <3>2. SecondAt(f, i, j, k) = NoBlock
        <4>1. k < h => k \in 0 .. h - 1
          BY <1>4
        <4> QED
          BY <1>2, <1>3, <4>1
      <3> QED
        BY <2>1, <2>2, <3>1, <3>2
    <2>3. CASE ~(x = i /\ y = j)
      <3>1. FirstAt(f, x, y) # c
        <4>1. Spot(f, x, y, Top).i = x /\ Spot(f, x, y, Top).j = y
          BY SpotIn, TopFacts
        <4> QED
          BY <1>3, <1>6, <2>3, <4>1, OtherAt
      <3>2. At(FirstAt(f, x, y), k)' = At(FirstAt(f, x, y), k)
        BY <1>3, <1>6, <1>9, <2>3, <3>1, OtherAt
      <3>3. SecondAt(f, x, y, k) = IF ~IsDouble(x) THEN NoBlock ELSE At(FirstAt(f, x, y), k)
        <4>1. ~(x = slot[f] /\ y = i1[f] - 1)
          BY <1>1, <1>2, <2>3
        <4> QED
          BY <4>1 DEF SecondAt
      <3> QED
        BY <2>1, <3>2, <3>3
    <2> QED
      BY <2>2, <2>3
  <1>c. Loses(f, t, c)
    BY <1>2, <1>5, <1>9, <1>a, <1>b, LosesFirst
  <1>d. StageOK(f)'
    <2>1. StageOK(f)
      BY DEF MapInv, FileOK
    <2>2. Ref(r)' = n
      <3>1. r.f = f
        BY SpotIn, TopFacts
      <3> QED
        BY <1>1, <1>6, <1>c, <3>1 DEF Loses
    <2>3. first'[f] = Ref(Spot(f, slot[f], Top, Top))'
      BY <1>1, <1>5, <2>2
    <2> QED
      BY <1>0, <1>1, <1>5, <2>1, <2>3, MapAssumption DEF StageOK
  <1> QED
    BY <1>0, <1>3, <1>6, <1>7, <1>c, <1>d, LosePreserves DEF Live

LEMMA SecondFreePreserves ==
    ASSUME TypeOK, MapInv, NEW f \in Files, SecondFree(f)
    PROVE  MapInv' /\ StepOf(f)
  <1>0. pc[f] = "second" /\ pc' = pc
    BY DEF SecondFree
  <1>1. PICK i \in Slots, n \in Blocks, e \in 0 .. PerIndex, h \in 0 .. PerIndex :
              /\ slot[f] = i /\ first[f] = n /\ i1[f] = e /\ i2[f] = h
              /\ ~IsDirect(i) /\ addr[f][i] = n /\ Ref(Spot(f, i, Top, Top)) = n
              /\ Spot(f, i, Top, Top) \in Spots
              /\ mem[n] \in Tables /\ \A x \in Index : At(n, x) = mem[n][x]
              /\ \A x \in Index : FirstAt(f, i, x) = IF x < e THEN mem[n][x] ELSE NoBlock
    BY <1>0, InTrunc
  <1>2. PICK j \in Index, p \in Blocks :
              /\ IsDouble(i) /\ j = e - 1 /\ got[f] = p /\ FirstAt(f, i, j) = p /\ mem[n][j] = p
              /\ Spot(f, i, j, Top) \in Spots /\ Ref(Spot(f, i, j, Top)) = p
              /\ mem[p] \in Tables
              /\ \A k \in Index : /\ At(p, k) = mem[p][k]
                                  /\ SecondAt(f, i, j, k) = IF k < h THEN mem[p][k] ELSE NoBlock
    BY <1>0, <1>1, InSecond
  <1>3. PICK o \in Index : /\ NextEntry(mem[p], h, o) /\ Give(mem[p][o])
                           /\ i2' = [i2 EXCEPT ![f] = o]
    BY <1>1, <1>2 DEF SecondFree
  <1>4. PICK c \in Blocks : c = mem[p][o] /\ Give(c)
    BY <1>2, <1>3 DEF NextEntry, Tables, Entry
  <1>5. o < h /\ \A x \in o + 1 .. h - 1 : mem[p][x] = NoBlock
    BY <1>3 DEF NextEntry
  <1>6. o \in 0 .. PerIndex - 1 /\ PerIndex \in Nat /\ Index = 0 .. PerIndex - 1
    BY MapAssumption DEF Index
  <1>7. /\ addr' = addr /\ slot' = slot /\ i1' = i1 /\ first' = first /\ got' = got
        /\ op' = op /\ lbn' = lbn /\ written' = written /\ i2'[f] = o
        /\ \A g \in Files \ {f} : i2'[g] = i2[g]
    BY <1>3 DEF SecondFree, TypeOK, file, call, bufs
  <1> DEFINE t == Spot(f, i, j, o)
             r == Spot(f, i, Top, Top)
             q == Spot(f, i, j, Top)
  <1>8. /\ t \in Spots /\ t.f = f /\ t.i = i /\ t.j = j /\ t.k = o /\ t # r /\ t # q
        /\ Ref(t) = c /\ SecondAt(f, i, j, o) = c
    <2>1. SecondAt(f, i, j, o) = c
      BY <1>2, <1>4, <1>5
    <2>2. t.k = o /\ r.k = Top /\ q.k = Top
      BY SpotIn, TopFacts
    <2> QED
      BY <2>1, <2>2, SpotIn, TopFacts, RefOf
  <1>9. StepOf(f)
    <2>1. \A b \in Blocks : \/ mem'[b] = mem[b] /\ disk'[b] = disk[b]
                            \/ \E s \in Spots : s.f = f /\ Ref(s) = b
      BY <1>4, <1>8, Given
    <2> QED
      BY <1>0, <1>7, <2>1 DEF StepOf
  <1>a. ASSUME NEW x \in Slots, NEW y \in Index
        PROVE  /\ FirstAt(f, x, y)' = FirstAt(f, x, y)
               /\ \A k \in Index : At(FirstAt(f, x, y), k)' = At(FirstAt(f, x, y), k)
    <2>1. t.k # Spot(f, x, Top, Top).k /\ t.k # Spot(f, x, y, Top).k
      BY <1>8, SpotIn, TopFacts
    <2>2. At(addr[f][x], y)' = At(addr[f][x], y)
      BY <1>4, <1>7, <1>8, <2>1, OtherAt
    <2>3. FirstAt(f, x, y)' = FirstAt(f, x, y)
      BY <1>7, <2>2 DEF FirstAt, IsDirect
    <2> QED
      BY <1>4, <1>8, <2>1, <2>3, OtherAt
  <1>b. ASSUME NEW x \in Slots, NEW y \in Index, NEW k \in Index, ~(x = i /\ y = j /\ k = o)
        PROVE  SecondAt(f, x, y, k)' = SecondAt(f, x, y, k)
    <2>1. At(FirstAt(f, x, y), k)' = At(FirstAt(f, x, y), k)
      BY <1>a
    <2>2. CASE ~(x = i /\ y = j)
      <3>1. ~(x = slot[f] /\ y = i1[f] - 1) /\ slot'[f] = slot[f] /\ i1'[f] = i1[f]
        BY <1>1, <1>2, <1>7, <2>2
      <3> QED
        BY <2>1, <3>1 DEF SecondAt, IsDouble
    <2>3. CASE x = i /\ y = j /\ k < o
      <3>1. ~(k >= o) /\ ~(k >= h)
        BY <1>5, <1>6, <2>3
      <3> QED
        BY <1>1, <1>7, <2>1, <2>3, <3>1 DEF SecondAt, IsDouble
    <2>4. CASE x = i /\ y = j /\ k > o
      <3>1. k >= o /\ (k < h => k \in o + 1 .. h - 1)
        BY <1>5, <1>6, <2>4
      <3>2. SecondAt(f, x, y, k) = NoBlock
        BY <1>2, <1>5, <2>4, <3>1
      <3>3. SecondAt(f, x, y, k)' = NoBlock
        BY <1>1, <1>2, <1>7, <2>4, <3>1 DEF SecondAt
      <3> QED
        BY <3>2, <3>3
    <2> QED
      BY <1>6, <1>b, <2>2, <2>3, <2>4
  <1>c. SecondAt(f, i, j, o)' = NoBlock
    <2>1. o >= o
      BY <1>6
    <2> QED
      BY <1>1, <1>2, <1>7, <2>1 DEF SecondAt
  <1>d. Loses(f, t, c)
    <2>1. Ref(t)' = NoBlock
      BY <1>c, RefOf
    <2>2. ASSUME NEW s \in Spots, s # t, s.f = f PROVE Ref(s)' = Ref(s)
      <3>1. ~(s.i = i /\ s.j = j /\ s.k = o)
        BY <2>2, SpotIs
      <3>2. s.i \in Slots /\ (s.j # Top => s.j \in Index) /\ (s.k # Top => s.k \in Index)
        BY SpotIs DEF Depth
      <3> QED
        BY <1>7, <1>a, <1>b, <2>2, <3>1, <3>2 DEF Ref, Top
    <2> QED
      BY <1>8, <2>1, <2>2 DEF Loses
  <1>e. StageOK(f)'
    <2>1. StageOK(f)
      BY DEF MapInv, FileOK
    <2>2. Ref(r)' = n /\ Ref(q)' = p
      <3>1. r.f = f /\ q.f = f
        BY SpotIn, TopFacts
      <3> QED
        BY <1>1, <1>2, <1>8, <1>d, <3>1 DEF Loses
    <2>3. first'[f] = Ref(Spot(f, slot[f], Top, Top))'
      BY <1>1, <1>7, <2>2
    <2>4. got'[f] = Ref(Spot(f, slot[f], i1[f] - 1, Top))'
      BY <1>1, <1>2, <1>7, <2>2
    <2> QED
      BY <1>0, <1>1, <1>2, <1>7, <2>1, <2>3, <2>4, MapAssumption DEF StageOK
  <1> QED
    BY <1>0, <1>4, <1>8, <1>9, <1>d, <1>e, LosePreserves DEF Live

LEMMA FirstDonePreserves ==
    ASSUME TypeOK, MapInv, NEW f \in Files, FirstDone(f)
    PROVE  MapInv' /\ StepOf(f)
  <1>0. pc[f] = "first" /\ pc'[f] = "slots"
    BY DEF FirstDone, Goto, TypeOK
  <1>1. PICK i \in Slots, c \in Blocks, e \in 0 .. PerIndex, h \in 0 .. PerIndex :
              /\ slot[f] = i /\ first[f] = c /\ i1[f] = e /\ i2[f] = h
              /\ ~IsDirect(i) /\ addr[f][i] = c /\ Ref(Spot(f, i, Top, Top)) = c
              /\ Spot(f, i, Top, Top) \in Spots
              /\ mem[c] \in Tables /\ \A x \in Index : At(c, x) = mem[c][x]
              /\ \A x \in Index : FirstAt(f, i, x) = IF x < e THEN mem[c][x] ELSE NoBlock
    BY <1>0, InTrunc
  <1>2. Give(c) /\ \A x \in 0 .. e - 1 : mem[c][x] = NoBlock
    BY <1>1 DEF FirstDone, NoEntry
  <1>3. StageOK(f)
    BY DEF MapInv, FileOK
  <1>4. PerIndex \in Nat /\ Index = 0 .. PerIndex - 1 /\ h = PerIndex
    BY <1>0, <1>1, <1>3, MapAssumption DEF Index, StageOK
  <1>5. /\ i2' = i2 /\ got' = got /\ op' = op /\ lbn' = lbn /\ written' = written
        /\ slot'[f] = 0 /\ i1'[f] = PerIndex
        /\ addr'[f][i] = NoBlock /\ \A x \in Slots \ {i} : addr'[f][x] = addr[f][x]
        /\ \A g \in Files \ {f} : /\ addr'[g] = addr[g] /\ slot'[g] = slot[g] /\ i1'[g] = i1[g]
                                  /\ first'[g] = first[g] /\ pc'[g] = pc[g]
    BY <1>1 DEF FirstDone, TypeOK, Goto, Hold, call
  <1> DEFINE t == Spot(f, i, Top, Top)
  <1>6. /\ t \in Spots /\ t.f = f /\ t.i = i /\ t.j = Top /\ t.k = Top
        /\ Ref(t) = c /\ Ref(t)' = NoBlock
    <2>1. 0 \in Index
      BY MapAssumption DEF Index
    <2> QED
      BY <1>1, <1>5, <2>1, SpotIn, TopFacts, RefOf
  <1>7. StepOf(f)
    <2>1. \A b \in Blocks : \/ mem'[b] = mem[b] /\ disk'[b] = disk[b]
                            \/ \E s \in Spots : s.f = f /\ Ref(s) = b
      BY <1>2, <1>6, Given
    <2> QED
      BY <1>5, <2>1 DEF StepOf
  <1>8. ASSUME NEW x \in Slots, NEW j \in Index
        PROVE  FirstAt(f, x, j)' = FirstAt(f, x, j) /\ FirstAt(f, x, j) # c
    <2>1. FirstAt(f, x, j)' = IF IsDirect(x) THEN NoBlock ELSE At(addr[f][x], j)'
      BY <1>5, NoCut
    <2>2. FirstAt(f, x, j) # c
      <3>1. t.j # Spot(f, x, j, Top).j
        BY <1>6, SpotIn, TopFacts
      <3> QED
        BY <1>2, <1>6, <3>1, OtherAt
    <2>3. CASE x = i
      <3>1. FirstAt(f, x, j) = NoBlock
        <4>1. j < e => j \in 0 .. e - 1
          BY <1>4
        <4> QED
          BY <1>1, <1>2, <2>3, <4>1
      <3>2. At(addr[f][i], j)' = NoBlock
        BY <1>5 DEF At
      <3> QED
        BY <2>1, <2>2, <2>3, <3>1, <3>2
    <2>4. CASE x # i
      <3> DEFINE b == addr[f][x]
      <3>1. b \in Entry /\ b # c
        BY <1>2, <1>6, <2>4, OtherAt, SpotIn, TopFacts
      <3>2. b' = b
        BY <1>5, <2>4
      <3> HIDE DEF b
      <3>3. At(b, j)' = At(b, j)
        BY <1>2, <3>1, <3>2, Given DEF At
      <3>4. FirstAt(f, x, j) = IF IsDirect(x) THEN NoBlock ELSE At(b, j)
        BY <1>1, <2>4 DEF FirstAt, b
      <3> QED
        BY <2>1, <2>2, <3>3, <3>4 DEF b
    <2> QED
      BY <2>3, <2>4
  <1>9. ASSUME NEW x \in Slots, NEW j \in Index, NEW k \in Index
        PROVE  SecondAt(f, x, j, k)' = SecondAt(f, x, j, k)
    <2>1. At(FirstAt(f, x, j), k)' = At(FirstAt(f, x, j), k)
      BY <1>2, <1>6, <1>8, OtherAt
    <2>2. i2[f] = PerIndex /\ i2'[f] = PerIndex
      BY <1>1, <1>4, <1>5
    <2> QED
      BY <2>1, <2>2, NoCut
  <1>a. Loses(f, t, c)
    <2>1. ASSUME NEW s \in Spots, s # t, s.f = f PROVE Ref(s)' = Ref(s)
      <3>1. CASE s.j = Top /\ s.k = Top
        <4>1. s.i # i
          BY <1>6, <2>1, <3>1, SpotIs
        <4> QED
          BY <1>5, <2>1, <3>1, <4>1, SpotIs DEF Ref, Top
      <3>2. CASE ~(s.j = Top /\ s.k = Top)
        BY <1>8, <1>9, <2>1, <3>2, SpotIs DEF Ref, Top, Depth
      <3> QED
        BY <3>1, <3>2
    <2> QED
      BY <1>6, <2>1 DEF Loses
  <1>b. StageOK(f)'
    BY <1>0, <1>1, <1>3, <1>4, <1>5 DEF StageOK
  <1> QED
    BY <1>0, <1>2, <1>6, <1>7, <1>a, <1>b, LosePreserves DEF Live

-----------------------------------------------------------------------------
(* Types                                                                    *)

LEMMA Sizes == HugeFile \in Nat \ {0} /\ Lbns = 0 .. HugeFile - 1 /\ 0 \in Lbns
  <1> USE MapAssumption
  <1> DEFINE D == PerIndex * PerIndex
             sp == Single * PerIndex
             dd == Double * D
  <1>1. D \in Nat /\ sp \in Nat /\ dd \in Nat
    OBVIOUS
  <1>2. Double * PerIndex * PerIndex = dd
    OBVIOUS
  <1> HIDE DEF D, sp, dd
  <1>3. HugeFile = Direct + sp + dd
    BY <1>2 DEF HugeFile, LargeFile, sp
  <1> QED
    BY <1>1, <1>3 DEF Lbns

LEMMA TypeInit == Init => TypeOK
  <1>1. 0 \in Slots /\ PerIndex \in 0 .. PerIndex
    BY MapAssumption DEF Slots
  <1> QED
    BY <1>1, Sizes DEF Init, TypeOK, Entry

\* Whatever happens to a file, its process's variables keep their types ...
LEMMA ReturnTypes ==
    ASSUME TypeOK, NEW f \in Files, Return(f)
    PROVE  /\ pc' \in [Files -> {"idle", "map", "direct", "mid", "leaf", "io",
                                 "slots", "first", "second", "lost"}]
           /\ op' \in [Files -> {"none", "read", "write"}]
           /\ lbn' \in [Files -> Lbns]
           /\ first' \in [Files -> Entry] /\ got' \in [Files -> Entry]
  BY Sizes DEF TypeOK, Return, Goto, Hold, Find, Entry

\* ... and so do the contents of the blocks.
LEMMA TypePut ==
    ASSUME TypeOK, NEW b \in Blocks
    PROVE  /\ [mem EXCEPT ![b] = Zero] \in [Blocks -> Tables \cup {Data}]
           /\ [disk EXCEPT ![b] = Zero] \in [Blocks -> Tables \cup {Data}]
           /\ [mem EXCEPT ![b] = Data] \in [Blocks -> Tables \cup {Data}]
           /\ [disk EXCEPT ![b] = Data] \in [Blocks -> Tables \cup {Data}]
           /\ [mem EXCEPT ![b] = disk[b]] \in [Blocks -> Tables \cup {Data}]
  <1>1. Zero \in Tables
    BY DEF Zero, Tables, Entry
  <1> QED
    BY <1>1 DEF TypeOK

LEMMA GiveTypes ==
    ASSUME TypeOK, NEW b \in Blocks, Give(b)
    PROVE  /\ free' \subseteq Blocks
           /\ mem' \in [Blocks -> Tables \cup {Data}] /\ disk' \in [Blocks -> Tables \cup {Data}]
  <1>1. free' \subseteq Blocks
    BY DEF TypeOK, Give
  <1> QED
    BY <1>1, TypePut DEF Give

\* The index block in the hands of Bmap is one, and can get another entry.
LEMMA HandTable ==
    ASSUME TypeOK, MapInv, NEW f \in Files, pc[f] \in {"mid", "leaf"},
           NEW c \in Blocks, NEW x
    PROVE  /\ first[f] \in Blocks /\ mem[first[f]] \in Tables
           /\ [mem[first[f]] EXCEPT ![x] = c] \in Tables
  <1>0. PICK l \in Lbns : l = lbn[f]
    BY DEF TypeOK
  <1> DEFINE i == SlotOf(l)
             d == IF pc[f] = "leaf" /\ IsDouble(i) THEN MidOf(l) ELSE Top
             r == Spot(f, i, d, Top)
  <1>1. StageOK(f) /\ TablesOK(f)
    BY DEF MapInv, FileOK
  <1>2. ~IsDirect(i) /\ (d # Top => IsDouble(i)) /\ (pc[f] = "mid" => IsDouble(i))
        /\ first[f] # NoBlock /\ first[f] = Ref(r) /\ i \in Slots
    BY <1>0, <1>1, SlotArith, SlotKinds DEF StageOK
  <1>3. d \in Depth
    BY <1>2, SlotArith, TopFacts
  <1>4. r \in Spots /\ r.f = f /\ OfIndex(r)
    BY <1>2, <1>3, SpotIn, TopFacts DEF OfIndex
  <1>5. first[f] \in Blocks /\ mem[first[f]] \in Tables
    BY <1>1, <1>2, <1>4, TableAt
  <1>6. PICK t \in Tables : t = mem[first[f]]
    BY <1>5
  <1>7. [t EXCEPT ![x] = c] \in Tables
    BY DEF Tables, Entry
  <1> QED
    BY <1>5, <1>6, <1>7

LEMMA BmapTypes ==
    ASSUME TypeOK, MapInv, NEW f \in Files, Bmap(f)
    PROVE  TypeOK'
  <1> USE DEF Goto, Hold, Find, file, block, call, bufs, trunc
  <1>1. CASE DirectFound(f)
    <2>1. SlotOf(lbn[f]) \in Slots
      BY SlotArith DEF TypeOK
    <2> QED
      BY <1>1, <2>1 DEF TypeOK, DirectFound
  <1>2. CASE DirectAlloc(f)
    <2>1. PICK b \in Blocks : /\ Take(b) /\ Find(f, b)
                              /\ mem' = [mem EXCEPT ![b] = Zero] /\ disk' = [disk EXCEPT ![b] = Zero]
      BY <1>2 DEF DirectAlloc
    <2>2. mem' \in [Blocks -> Tables \cup {Data}] /\ disk' \in [Blocks -> Tables \cup {Data}]
      BY <2>1, TypePut
    <2> QED
      BY <1>2, <2>1, <2>2 DEF TypeOK, DirectAlloc, Take, Entry
  <1>3. CASE DirectLink(f)
    <2>1. PICK n \in Entry : addr' = [addr EXCEPT ![f][lbn[f]] = n] /\ Find(f, n)
      BY <1>3 DEF DirectLink, TypeOK, Entry
    <2>2. sound' \in BOOLEAN
      BY <1>3 DEF DirectLink
    <2>3. addr' \in [Files -> [Slots -> Entry]]
      BY <2>1 DEF TypeOK
    <2> QED
      BY <1>3, <2>1, <2>2, <2>3 DEF TypeOK, DirectLink
  <1>4. CASE TopFound(f)
    <2>1. SlotOf(lbn[f]) \in Slots
      BY SlotArith DEF TypeOK
    <2> QED
      BY <1>4, <2>1 DEF TypeOK, TopFound, Below
  <1>5. CASE TopAlloc(f)
    <2>1. PICK b \in Blocks : /\ Take(b) /\ mem' = [mem EXCEPT ![b] = Zero] /\ Hold(f, b)
                              /\ addr' = [addr EXCEPT ![f][SlotOf(lbn[f])] = b]
      BY <1>5 DEF TopAlloc
    <2>2. mem' \in [Blocks -> Tables \cup {Data}]
      BY <2>1, TypePut
    <2>3. addr' \in [Files -> [Slots -> Entry]]
      BY <2>1 DEF TypeOK, Entry
    <2> QED
      BY <1>5, <2>1, <2>2, <2>3 DEF TypeOK, TopAlloc, Take, Below, Entry
  <1>6. CASE MidFound(f)
    <2>1. mem[first[f]] \in Tables /\ MidOf(lbn[f]) \in Index
      <3>1. StageOK(f) /\ pc[f] = "mid" /\ lbn[f] \in Lbns
        BY <1>6 DEF MapInv, FileOK, MidFound, TypeOK
      <3>2. PICK c : c = first[f] /\ c \in Blocks /\ mem[c] \in Tables
        <4>1. StageOK(f) /\ first[f] \in Entry /\ first[f] # NoBlock
          BY <3>1 DEF StageOK, TypeOK
        <4>2. first[f] \in Blocks
          BY <4>1 DEF Entry
        <4> QED
          BY <3>1, <4>2, HandTable
      <3> QED
        BY <3>1, <3>2, SlotArith DEF StageOK
    <2>2. mem[first[f]][MidOf(lbn[f])] \in Entry
      BY <2>1 DEF Tables
    <2> QED
      BY <1>6, <2>2 DEF TypeOK, MidFound
  <1>7. CASE MidAlloc(f)
    <2> DEFINE x == MidOf(lbn[f])
    <2>1. PICK b \in Blocks :
             /\ Take(b) /\ Hold(f, b)
             /\ mem' = [mem EXCEPT ![b] = Zero, ![first[f]] = [mem[first[f]] EXCEPT ![x] = b]]
             /\ disk' = [disk EXCEPT ![first[f]] = [mem[first[f]] EXCEPT ![x] = b]]
      BY <1>7 DEF MidAlloc
    <2>2. PICK u \in Tables : u = [mem[first[f]] EXCEPT ![x] = b]
      BY <1>7, HandTable DEF MidAlloc
    <2>3. Zero \in Tables
      BY DEF Zero, Tables, Entry
    <2>4. mem' \in [Blocks -> Tables \cup {Data}] /\ disk' \in [Blocks -> Tables \cup {Data}]
      BY <2>1, <2>2, <2>3 DEF TypeOK
    <2> QED
      BY <1>7, <2>1, <2>4 DEF TypeOK, MidAlloc, Take, Entry
  <1>8. CASE LeafFound(f)
    <2>1. mem[first[f]] \in Tables /\ LeafOf(lbn[f]) \in Index
      <3>1. StageOK(f) /\ pc[f] = "leaf" /\ lbn[f] \in Lbns
        BY <1>8 DEF MapInv, FileOK, LeafFound, TypeOK
      <3>2. first[f] \in Blocks
        BY <3>1 DEF StageOK, TypeOK, Entry
      <3> QED
        BY <3>1, <3>2, HandTable, SlotArith DEF StageOK
    <2>2. mem[first[f]][LeafOf(lbn[f])] \in Entry
      BY <2>1 DEF Tables
    <2> QED
      BY <1>8, <2>2 DEF TypeOK, LeafFound, Entry
  <1>9. CASE LeafAlloc(f)
    <2> DEFINE x == LeafOf(lbn[f])
    <2>1. PICK b \in Blocks :
             /\ Take(b) /\ Find(f, b)
             /\ mem' = [mem EXCEPT ![b] = Zero, ![first[f]] = [mem[first[f]] EXCEPT ![x] = b]]
             /\ disk' = [disk EXCEPT ![b] = Zero, ![first[f]] = [mem[first[f]] EXCEPT ![x] = b]]
      BY <1>9 DEF LeafAlloc
    <2>2. PICK u \in Tables : u = [mem[first[f]] EXCEPT ![x] = b]
      BY <1>9, HandTable DEF LeafAlloc
    <2>3. Zero \in Tables
      BY DEF Zero, Tables, Entry
    <2>4. mem' \in [Blocks -> Tables \cup {Data}] /\ disk' \in [Blocks -> Tables \cup {Data}]
      BY <2>1, <2>2, <2>3 DEF TypeOK
    <2> QED
      BY <1>9, <2>1, <2>4 DEF TypeOK, LeafAlloc, Take, Entry
  <1>a. CASE MapFails(f)
    BY <1>a, ReturnTypes DEF TypeOK, MapFails
  <1> QED
    BY <1>1, <1>2, <1>3, <1>4, <1>5, <1>6, <1>7, <1>8, <1>9, <1>a DEF Bmap

LEMMA ReadWriteTypes ==
    ASSUME TypeOK, MapInv, NEW f \in Files, ReadWrite(f)
    PROVE  TypeOK'
  <1>1. CASE Fetch(f)
    BY <1>1, ReturnTypes DEF TypeOK, Fetch, file, block, trunc
  <1>2. CASE IoFails(f)
    BY <1>2 DEF TypeOK, IoFails, file, block, call, bufs, trunc
  <1>3. CASE Store(f)
    <2>1. size' \in [Files -> 0 .. HugeFile]
      <3>1. lbn[f] + 1 \in 0 .. HugeFile
        BY Sizes DEF TypeOK
      <3> QED
        BY <1>3, <3>1 DEF TypeOK, Store
    <2>2. mem' \in [Blocks -> Tables \cup {Data}] /\ disk' \in [Blocks -> Tables \cup {Data}]
      BY <1>3 DEF TypeOK, Store
    <2>3. written' \in [Files -> SUBSET Lbns]
      BY <1>3 DEF TypeOK, Store
    <2> QED
      BY <1>3, <2>1, <2>2, <2>3, ReturnTypes DEF TypeOK, Store, trunc
  <1>4. ASSUME NEW l \in Lbns, Read(f, l) \/ Write(f, l) PROVE TypeOK'
    <2>1. PICK o \in {"read", "write"} : Ask(f, o, l)
      BY <1>4 DEF Read, Write
    <2> QED
      BY <2>1 DEF TypeOK, Ask, Goto, file, block, bufs, trunc
  <1> QED
    BY <1>1, <1>2, <1>3, <1>4 DEF ReadWrite

LEMMA ITruncTypes ==
    ASSUME TypeOK, MapInv, NEW f \in Files, ITrunc(f)
    PROVE  TypeOK'
  <1> USE DEF Goto, Hold, Find, file, block, call, bufs, trunc
  <1>0. PerIndex \in Nat /\ Index = 0 .. PerIndex - 1 /\ 0 \in Slots /\ 0 \in 0 .. HugeFile
    BY MapAssumption, Sizes DEF Index, Slots
  <1>1. CASE Delete(f)
    BY <1>1 DEF TypeOK, Delete
  <1>2. CASE DirectFree(f)
    <2>1. PICK i \in Slots : /\ NextSlot(f, i) /\ Give(addr[f][i])
                             /\ addr' = [addr EXCEPT ![f][i] = NoBlock]
      BY <1>2 DEF DirectFree
    <2>2. PICK b \in Blocks : b = addr[f][i] /\ Give(b)
      BY <2>1 DEF TypeOK, Entry, NextSlot
    <2>3. addr' \in [Files -> [Slots -> Entry]]
      BY <2>1 DEF TypeOK, Entry
    <2> QED
      BY <1>2, <2>2, <2>3, GiveTypes DEF TypeOK, DirectFree
  <1>3. CASE FirstOpen(f)
    BY <1>3 DEF TypeOK, FirstOpen
  <1>4. CASE FirstFree(f)
    <2>0. pc[f] = "first"
      BY <1>4 DEF FirstFree
    <2>i. PICK n \in Blocks : n = first[f] /\ mem[n] \in Tables
      BY <2>0, InTrunc
    <2>1. PICK j \in Index : /\ mem[n][j] # NoBlock /\ Give(mem[n][j])
                             /\ i1' = [i1 EXCEPT ![f] = j]
      BY <1>4, <2>i DEF FirstFree, NextEntry
    <2>2. PICK b \in Blocks : b = mem[n][j] /\ Give(b)
      BY <2>i, <2>1 DEF Tables, Entry
    <2>3. i1' \in [Files -> 0 .. PerIndex]
      BY <1>0, <2>1 DEF TypeOK
    <2> QED
      BY <1>4, <2>2, <2>3, GiveTypes DEF TypeOK, FirstFree
  <1>5. CASE SecondOpen(f)
    <2>0. pc[f] = "first"
      BY <1>5 DEF SecondOpen
    <2>i. PICK n \in Blocks : n = first[f] /\ mem[n] \in Tables
      BY <2>0, InTrunc
    <2>1. PICK j \in Index : Find(f, mem[n][j]) /\ i1' = [i1 EXCEPT ![f] = j + 1]
      BY <1>5, <2>i DEF SecondOpen
    <2>2. mem[n][j] \in Entry
      BY <2>i, <2>1 DEF Tables
    <2>3. i1' \in [Files -> 0 .. PerIndex]
      BY <1>0, <2>1 DEF TypeOK
    <2> QED
      BY <1>5, <2>1, <2>2, <2>3 DEF TypeOK, SecondOpen
  <1>6. CASE SecondFree(f) \/ SecondDone(f)
    <2>0. pc[f] = "second"
      BY <1>6 DEF SecondFree, SecondDone
    <2>1. PICK i \in Slots, n \in Blocks, e \in 0 .. PerIndex, h \in 0 .. PerIndex :
              /\ slot[f] = i /\ first[f] = n /\ i1[f] = e /\ i2[f] = h
              /\ ~IsDirect(i) /\ addr[f][i] = n /\ Ref(Spot(f, i, Top, Top)) = n
              /\ Spot(f, i, Top, Top) \in Spots
              /\ mem[n] \in Tables /\ \A x \in Index : At(n, x) = mem[n][x]
              /\ \A x \in Index : FirstAt(f, i, x) = IF x < e THEN mem[n][x] ELSE NoBlock
      BY <2>0, InTrunc
    <2>2. PICK j \in Index, p \in Blocks : j = e - 1 /\ got[f] = p /\ mem[p] \in Tables
      BY <2>0, <2>1, InSecond
    <2>3. CASE SecondFree(f)
      <3>1. PICK k \in Index : /\ mem[p][k] # NoBlock /\ Give(mem[p][k])
                               /\ i2' = [i2 EXCEPT ![f] = k]
        BY <2>2, <2>3 DEF SecondFree, NextEntry
      <3>2. PICK b \in Blocks : b = mem[p][k] /\ Give(b)
        BY <2>2, <3>1 DEF Tables, Entry
      <3>3. i2' \in [Files -> 0 .. PerIndex]
        BY <1>0, <3>1 DEF TypeOK
      <3> QED
        BY <2>3, <3>2, <3>3, GiveTypes DEF TypeOK, SecondFree
    <2>4. CASE SecondDone(f)
      <3>1. Give(p) /\ i1' = [i1 EXCEPT ![f] = j] /\ i2' = [i2 EXCEPT ![f] = PerIndex]
        BY <2>1, <2>2, <2>4 DEF SecondDone
      <3>2. i1' \in [Files -> 0 .. PerIndex] /\ i2' \in [Files -> 0 .. PerIndex]
        BY <1>0, <3>1 DEF TypeOK
      <3> QED
        BY <2>4, <3>1, <3>2, GiveTypes DEF TypeOK, SecondDone, Entry
    <2> QED
      BY <1>6, <2>3, <2>4
  <1>7. CASE FirstDone(f)
    <2>1. pc[f] = "first"
      BY <1>7 DEF FirstDone
    <2>2. PICK b \in Blocks : b = first[f]
      BY <2>1, InTrunc
    <2>3. Give(b) /\ addr' = [addr EXCEPT ![f][slot[f]] = NoBlock]
      BY <1>7, <2>2 DEF FirstDone
    <2>4. addr' \in [Files -> [Slots -> Entry]]
      BY <2>3 DEF TypeOK, Entry
    <2> QED
      BY <1>0, <1>7, <2>3, <2>4, GiveTypes DEF TypeOK, FirstDone, Entry
  <1>8. CASE TruncEnd(f)
    BY <1>0, <1>8 DEF TypeOK, TruncEnd
  <1>9. CASE TruncFails(f)
    BY <1>9 DEF TypeOK, TruncFails, Entry
  <1> QED
    BY <1>1, <1>2, <1>3, <1>4, <1>5, <1>6, <1>7, <1>8, <1>9 DEF ITrunc

-----------------------------------------------------------------------------
(* The invariant                                                            *)

LEMMA BlocksInit == Init => BlocksInv
  <1> SUFFICES ASSUME Init PROVE BlocksInv
    OBVIOUS
  <1>1. TypeOK
    BY TypeInit
  <1>2. \A f \in Files : i1[f] = PerIndex /\ i2[f] = PerIndex /\ slot[f] = 0 /\ pc[f] = "idle"
                         /\ op[f] = "none" /\ written[f] = {}
    BY DEF Init
  <1>3. ASSUME NEW f \in Files, NEW i \in Slots, NEW j \in Index, NEW k \in Index
        PROVE  addr[f][i] = NoBlock /\ FirstAt(f, i, j) = NoBlock /\ SecondAt(f, i, j, k) = NoBlock
    <2>1. addr[f][i] = NoBlock
      BY DEF Init
    <2>2. FirstAt(f, i, j) = NoBlock
      BY <2>1 DEF FirstAt, At
    <2> QED
      BY <2>1, <2>2 DEF SecondAt, At
  <1>4. ASSUME NEW s \in Spots PROVE Ref(s) = NoBlock
    <2>1. /\ s.f \in Files /\ s.i \in Slots
          /\ (s.j # Top => s.j \in Index) /\ (s.k # Top => s.k \in Index)
      BY SpotIs DEF Depth
    <2>2. CASE s.j = Top \/ s.k = Top
      <3>1. 0 \in Index
        BY MapAssumption DEF Index
      <3>2. s.j # Top => FirstAt(s.f, s.i, s.j) = NoBlock
        BY <1>3, <2>1, <3>1
      <3>3. addr[s.f][s.i] = NoBlock
        BY <1>3, <2>1, <3>1
      <3> QED
        BY <2>2, <3>2, <3>3 DEF Ref
    <2>3. CASE s.j # Top /\ s.k # Top
      <3>1. SecondAt(s.f, s.i, s.j, s.k) = NoBlock
        BY <1>3, <2>1, <2>3
      <3> QED
        BY <2>3, <3>1 DEF Ref
    <2> QED
      BY <2>2, <2>3
  <1>5. free = Blocks /\ \A f \in Files : \A b \in Entry : ~Holds(f, b)
    BY <1>2 DEF Init, Holds
  <1>6. Apart
    <2>1. NoBlock \notin free /\ NoBlock \in Entry /\ Blocks \subseteq Entry
      BY <1>5, MapAssumption DEF Entry
    <2>2. RefOnce /\ RefUsed
      BY <1>4, <1>5, <2>1 DEF RefOnce, RefUsed
    <2>3. HandOnce /\ HandUsed
      BY <1>5, <2>1 DEF HandOnce, HandUsed
    <2>4. Accounted
      BY <1>5 DEF Accounted
    <2> QED
      BY <2>2, <2>3, <2>4 DEF Apart
  <1>7. ASSUME NEW f \in Files PROVE FileOK(f)
    <2>1. TablesOK(f)
      BY <1>4 DEF TablesOK
    <2>2. StageOK(f)
      BY <1>2 DEF StageOK
    <2>3. FreshOK(f)
      BY <1>2, <1>4, LeafSpotIn DEF FreshOK, FreshAt
    <2> QED
      BY <2>1, <2>2, <2>3 DEF FileOK
  <1> QED
    BY <1>1, <1>6, <1>7 DEF BlocksInv, MapInv

\* What a step does to the maps of the files.
LEMMA MapStep ==
    ASSUME TypeOK, MapInv, sound', NEW f \in Files, ReadWrite(f) \/ Bmap(f) \/ ITrunc(f)
    PROVE  MapInv' /\ StepOf(f) /\ (ReadWrite(f) \/ Bmap(f) => Grows(f))
  <1>1. CASE ReadWrite(f)
    <2>1. ASSUME NEW l \in Lbns, Read(f, l) \/ Write(f, l)
          PROVE  MapInv' /\ StepOf(f) /\ Grows(f)
      BY <2>1, AskPreserves DEF Read, Write
    <2>2. CASE Fetch(f)
      BY <2>2, LeavePreserves
    <2>3. CASE Store(f)
      BY <2>3, StorePreserves
    <2>4. ~IoFails(f)
      BY DEF IoFails
    <2> QED
      BY <1>1, <2>1, <2>2, <2>3, <2>4 DEF ReadWrite
  <1>2. CASE Bmap(f)
    <2>1. CASE DirectFound(f)
      BY <2>1, DirectFoundPreserves
    <2>2. CASE DirectAlloc(f)
      BY <2>2, DirectAllocPreserves
    <2>3. CASE DirectLink(f)
      BY <2>3, DirectLinkPreserves
    <2>4. CASE TopFound(f)
      BY <2>4, TopFoundPreserves
    <2>5. CASE TopAlloc(f)
      BY <2>5, TopAllocPreserves
    <2>6. CASE MidFound(f)
      BY <2>6, MidFoundPreserves
    <2>7. CASE MidAlloc(f)
      BY <2>7, MidAllocPreserves
    <2>8. CASE LeafFound(f)
      BY <2>8, LeafFoundPreserves
    <2>9. CASE LeafAlloc(f)
      BY <2>9, LeafAllocPreserves
    <2>a. CASE MapFails(f)
      BY <2>a, LeavePreserves
    <2> QED
      BY <1>2, <2>1, <2>2, <2>3, <2>4, <2>5, <2>6, <2>7, <2>8, <2>9, <2>a DEF Bmap
  <1>3. CASE ITrunc(f)
    <2>1. MapInv' /\ StepOf(f)
      BY <1>3, DeletePreserves, DirectFreePreserves, FirstOpenPreserves, FirstFreePreserves,
         SecondOpenPreserves, SecondFreePreserves, SecondDonePreserves, FirstDonePreserves,
         TruncEndPreserves, TruncFailsPreserves DEF ITrunc
    <2>2. ~(ReadWrite(f) \/ Bmap(f))
      <3>1. pc[f] \in {"idle", "slots", "first", "second"} /\ (pc[f] = "idle" => pc'[f] = "slots")
        BY <1>3 DEF ITrunc, Delete, DirectFree, FirstOpen, FirstFree, SecondOpen, SecondFree,
                    SecondDone, FirstDone, TruncEnd, TruncFails, Goto, TypeOK
      <3>2. ~Bmap(f)
        BY <3>1 DEF Bmap, DirectFound, DirectAlloc, DirectLink, TopFound, TopAlloc, MidFound,
                    MidAlloc, LeafFound, LeafAlloc, MapFails
      <3>3. ~(Fetch(f) \/ Store(f) \/ IoFails(f))
        BY <3>1 DEF Fetch, Store, IoFails
      <3>4. ASSUME NEW l \in Lbns PROVE ~(Read(f, l) \/ Write(f, l))
        BY <3>1 DEF Read, Write, Ask, Goto, TypeOK
      <3> QED
        BY <3>2, <3>3, <3>4 DEF ReadWrite
    <2> QED
      BY <2>1, <2>2
  <1> QED
    BY <1>1, <1>2, <1>3

LEMMA DropTypes ==
    ASSUME TypeOK, NEW b \in Blocks, Drop(b)
    PROVE  TypeOK' /\ ~sound'
  <1>1. mem' \in [Blocks -> Tables \cup {Data}]
    BY DEF TypeOK, Drop
  <1> QED
    BY <1>1 DEF TypeOK, Drop, file, call, bufs, trunc

LEMMA BlocksNext == BlocksInv /\ [Next]_vars => BlocksInv'
  <1> SUFFICES ASSUME BlocksInv, [Next]_vars PROVE BlocksInv'
    OBVIOUS
  <1>1. ASSUME NEW f \in Files, ReadWrite(f) \/ Bmap(f) \/ ITrunc(f), sound
        PROVE  BlocksInv'
    <2>1. TypeOK /\ MapInv
      BY <1>1 DEF BlocksInv
    <2>2. TypeOK'
      BY <1>1, <2>1, ReadWriteTypes, BmapTypes, ITruncTypes
    <2>3. sound' => MapInv'
      BY <1>1, <2>1, MapStep
    <2> QED
      BY <2>2, <2>3 DEF BlocksInv
  <1>2. ASSUME NEW b \in Blocks, Drop(b) PROVE BlocksInv'
    BY <1>2, DropTypes DEF BlocksInv
  <1>3. CASE UNCHANGED vars
    <2>1. TypeOK'
      BY <1>3 DEF BlocksInv, TypeOK, vars, file, block, call, bufs, trunc
    <2>0. TypeOK
      BY DEF BlocksInv
    <2>2. ASSUME MapInv PROVE MapInv'
      <3>1. \A s \in Spots : Ref(s)' = Ref(s)
        BY <1>3 DEF Ref, FirstAt, SecondAt, At, vars, file, block, trunc
      <3>2. \A f \in Files : \A b : Holds(f, b)' <=> Holds(f, b)
        BY <1>3 DEF Holds, vars, bufs
      <3>3. Apart'
        BY <1>3, <2>2, <3>1, <3>2
           DEF MapInv, Apart, RefOnce, RefUsed, HandOnce, HandUsed, Accounted, vars, block
      <3>4. ASSUME NEW f \in Files PROVE FileOK(f)'
        <4>0. FileOK(f) /\ RefsSame(f) /\ Kept(f)
          BY <1>3, <2>2, <3>1 DEF MapInv, RefsSame, Kept, vars, block
        <4>1. TablesOK(f)'
          BY <4>0, TablesSame DEF FileOK
        <4>2. StageOK(f)'
          BY <1>3, <3>1, <4>0, <2>0, StageSame DEF FileOK, vars, call, bufs, trunc
        <4>3. FreshOK(f)'
          BY <1>3, <2>0, <4>0, FreshSame DEF FileOK, vars, bufs
        <4> QED
          BY <4>1, <4>2, <4>3 DEF FileOK
      <3> QED
        BY <3>3, <3>4 DEF MapInv
    <2> QED
      BY <1>3, <2>1, <2>2 DEF BlocksInv, vars
  <1> QED
    BY <1>1, <1>2, <1>3 DEF Next

\* In every state a block is free, in a process's hands or in one place of one file;
\* what Bmap and ITrunc follow as an index block is one, and what they have in their
\* variables is what the maps say.
THEOREM BlocksCorrect == Spec => []BlocksInv
  <1> QED
    BY BlocksInit, BlocksNext, PTL DEF Spec

\* i_addr, the index blocks and the variables of Bmap and ITrunc keep their types: no
\* index out of i_addr or of an index block is formed, and no counter of ITrunc leaves
\* its range.
THEOREM TypeCorrect == Spec => []TypeOK
  <1>1. BlocksInv => TypeOK
    BY DEF BlocksInv
  <1> QED
    BY <1>1, BlocksCorrect, PTL

-----------------------------------------------------------------------------
(* The properties that the runs check                                       *)

PlaceOf(s) ==
    IF s.j = Top THEN <<s.f, s.i>>
    ELSE IF s.k = Top THEN <<s.f, s.i, s.j>>
    ELSE <<s.f, s.i, s.j, s.k>>

Named(s) == [of |-> PlaceOf(s), b |-> Ref(s)]

\* The places of MapsApart and NothingLost are those of the invariant.
LEMMA PlacesAre ==
    /\ \A r \in AllPlaces : \E s \in Spots : Ref(s) # NoBlock /\ r = Named(s)
    /\ \A s \in Spots : Ref(s) # NoBlock => Named(s) \in AllPlaces
  <1>0. 0 \in Index
    BY MapAssumption DEF Index
  <1>1. ASSUME NEW r \in AllPlaces
        PROVE  \E s \in Spots : Ref(s) # NoBlock /\ r = Named(s)
    <2>1. PICK f \in Files : r \in Places(f)
      BY DEF AllPlaces
    <2>2. CASE r \in Tops(f)
      <3>1. PICK i \in Slots : addr[f][i] # NoBlock /\ r = [of |-> <<f, i>>, b |-> addr[f][i]]
        BY <2>2 DEF Tops
      <3>2. Spot(f, i, Top, Top) \in Spots /\ Ref(Spot(f, i, Top, Top)) = addr[f][i]
        BY <1>0, SpotIn, TopFacts, RefOf
      <3>3. PlaceOf(Spot(f, i, Top, Top)) = <<f, i>>
        BY SpotIn, TopFacts DEF PlaceOf
      <3> QED
        BY <3>1, <3>2, <3>3 DEF Named
    <2>3. ASSUME NEW x \in Slots \X Index, FirstAt(f, x[1], x[2]) # NoBlock,
                 r = [of |-> <<f, x[1], x[2]>>, b |-> FirstAt(f, x[1], x[2])]
          PROVE  \E s \in Spots : Ref(s) # NoBlock /\ r = Named(s)
      <3>1. PICK i \in Slots, j \in Index : x[1] = i /\ x[2] = j
        OBVIOUS
      <3>2. Spot(f, i, j, Top) \in Spots /\ Ref(Spot(f, i, j, Top)) = FirstAt(f, i, j)
        BY SpotIn, TopFacts, RefOf
      <3>3. PlaceOf(Spot(f, i, j, Top)) = <<f, i, j>>
        BY SpotIn, TopFacts DEF PlaceOf
      <3> QED
        BY <2>3, <3>1, <3>2, <3>3 DEF Named
    <2>4. ASSUME NEW x \in Slots \X Index \X Index, SecondAt(f, x[1], x[2], x[3]) # NoBlock,
                 r = [of |-> <<f, x[1], x[2], x[3]>>, b |-> SecondAt(f, x[1], x[2], x[3])]
          PROVE  \E s \in Spots : Ref(s) # NoBlock /\ r = Named(s)
      <3>1. PICK i \in Slots, j \in Index, k \in Index : x[1] = i /\ x[2] = j /\ x[3] = k
        OBVIOUS
      <3>2. Spot(f, i, j, k) \in Spots /\ Ref(Spot(f, i, j, k)) = SecondAt(f, i, j, k)
        BY SpotIn, TopFacts, RefOf
      <3>3. PlaceOf(Spot(f, i, j, k)) = <<f, i, j, k>>
        BY SpotIn, TopFacts DEF PlaceOf
      <3> QED
        BY <2>4, <3>1, <3>2, <3>3 DEF Named
    <2> QED
      BY <2>1, <2>2, <2>3, <2>4 DEF Places
  <1>2. ASSUME NEW s \in Spots, Ref(s) # NoBlock
        PROVE  Named(s) \in AllPlaces
    <2>1. PICK f \in Files, i \in Slots, j \in Depth, k \in Depth :
             /\ s = Spot(f, i, j, k) /\ s.f = f /\ s.i = i /\ s.j = j /\ s.k = k
      BY SpotIs
    <2>2. Named(s) \in Places(f)
      <3>1. CASE j = Top /\ k = Top
        BY ZenonT(60), <1>0, <1>2, <2>1, <3>1, RefOf DEF Named, PlaceOf, Places, Tops
      <3>2. CASE j = Top /\ k # Top
        BY <1>2, <2>1, <3>2 DEF Ref
      <3>3. CASE j # Top /\ k = Top
        <4>1. j \in Index /\ Ref(s) = FirstAt(f, i, j) /\ PlaceOf(s) = <<f, i, j>>
          BY <1>0, <2>1, <3>3, RefOf DEF Depth, PlaceOf
        <4>2. <<i, j>> \in { x \in Slots \X Index : FirstAt(f, x[1], x[2]) # NoBlock }
          BY <1>2, <4>1
        <4>3. Named(s) = [of |-> <<f, <<i, j>>[1], <<i, j>>[2]>>,
                          b |-> FirstAt(f, <<i, j>>[1], <<i, j>>[2])]
          BY <4>1 DEF Named
        <4> QED
          BY <4>2, <4>3 DEF Places
      <3>4. CASE j # Top /\ k # Top
        <4>1. /\ j \in Index /\ k \in Index
              /\ Ref(s) = SecondAt(f, i, j, k) /\ PlaceOf(s) = <<f, i, j, k>>
          BY <2>1, <3>4, RefOf DEF Depth, PlaceOf
        <4> DEFINE y == <<i, j, k>>
        <4>2. y \in { x \in Slots \X Index \X Index : SecondAt(f, x[1], x[2], x[3]) # NoBlock }
          BY <1>2, <4>1
        <4>3. Named(s) = [of |-> <<f, y[1], y[2], y[3]>>, b |-> SecondAt(f, y[1], y[2], y[3])]
          BY <4>1 DEF Named
        <4> QED
          BY <4>2, <4>3 DEF Places
      <3> QED
        BY <3>1, <3>2, <3>3, <3>4
    <2> QED
      BY <2>2 DEF AllPlaces
  <1> QED
    BY <1>1, <1>2

\* While a file has not been deleted, what Bmap looks up is the place of the block.
LEMMA LookupRef ==
    ASSUME NEW f \in Files, NEW l \in Lbns
    PROVE  /\ i1[f] = PerIndex /\ i2[f] = PerIndex
                => Lookup(f, l) = Ref(LeafSpot(f, l))
           /\ i1'[f] = PerIndex /\ i2'[f] = PerIndex
                => Lookup(f, l)' = Ref(LeafSpot(f, l))'
  <1> DEFINE i == SlotOf(l)
             j == MidOf(l)
             k == LeafOf(l)
  <1>1. /\ i \in Slots
        /\ ~IsDirect(i) => k \in Index
        /\ IsDouble(i) => j \in Index /\ ~IsDirect(i)
    BY SlotArith, SlotKinds
  <1>0. 0 \in Index
    BY MapAssumption DEF Index
  <1>2. CASE IsDirect(i)
    <2>1. LeafSpot(f, l) = Spot(f, i, Top, Top)
      BY <1>2 DEF LeafSpot
    <2>2. Lookup(f, l) = addr[f][i] /\ Lookup(f, l)' = addr'[f][i]
      BY <1>2 DEF Lookup
    <2> QED
      BY <1>0, <1>1, <2>1, <2>2, RefOf
  <1>3. CASE ~IsDirect(i) /\ ~IsDouble(i)
    <2>1. LeafSpot(f, l) = Spot(f, i, k, Top)
      BY <1>3 DEF LeafSpot
    <2>2. Lookup(f, l) = At(addr[f][i], k) /\ Lookup(f, l)' = At(addr[f][i], k)'
      BY <1>3 DEF Lookup
    <2> QED
      BY <1>0, <1>1, <1>3, <2>1, <2>2, RefOf, NoCut
  <1>4. CASE IsDouble(i)
    <2>1. LeafSpot(f, l) = Spot(f, i, j, k)
      BY <1>1, <1>4 DEF LeafSpot
    <2>2. /\ Lookup(f, l) = At(At(addr[f][i], j), k)
          /\ Lookup(f, l)' = At(At(addr[f][i], j), k)'
      BY <1>1, <1>4 DEF Lookup
    <2> QED
      BY <1>0, <1>1, <1>4, <2>1, <2>2, RefOf, NoCut
  <1> QED
    BY <1>2, <1>3, <1>4

\* A block of the volume has one place: it is not twice in a file, not in two files,
\* and not free, or in the hands of a second Bmap, while a file names it, whatever
\* reads, writes and truncations are under way and whichever of them have failed.
THEOREM MapsApartCorrect == Spec => []MapsApart
  <1>1. BlocksInv => MapsApart
    <2> SUFFICES ASSUME BlocksInv, sound
                 PROVE  /\ \A r, s \in AllPlaces : r.b = s.b => r = s
                        /\ \A r \in AllPlaces : r.b \notin free \cup InHand
      BY DEF MapsApart
    <2>1. Apart
      BY DEF BlocksInv, MapInv
    <2>2. ASSUME NEW r \in AllPlaces, NEW s \in AllPlaces, r.b = s.b PROVE r = s
      <3>1. PICK x \in Spots : Ref(x) # NoBlock /\ r = Named(x)
        BY PlacesAre
      <3>2. PICK y \in Spots : Ref(y) # NoBlock /\ s = Named(y)
        BY PlacesAre
      <3>3. x = y
        BY <2>1, <2>2, <3>1, <3>2 DEF Named, Apart, RefOnce
      <3> QED
        BY <3>1, <3>2, <3>3
    <2>3. ASSUME NEW r \in AllPlaces PROVE r.b \notin free \cup InHand
      <3>1. PICK x \in Spots : Ref(x) # NoBlock /\ r = Named(x)
        BY PlacesAre
      <3>2. Ref(x) \notin free /\ \A f \in Files : ~Holds(f, Ref(x))
        BY <2>1 DEF Apart, RefUsed
      <3> QED
        BY <3>1, <3>2 DEF Named, InHand, Holds
    <2> QED
      BY <2>2, <2>3
  <1> QED
    BY <1>1, BlocksCorrect, PTL

\* Bmap and ITrunc lose no block: what is not free is named by a file or in the hands of
\* a Bmap, however far a write or a truncation has come.
THEOREM NothingLostCorrect == Spec => []NothingLost
  <1>1. BlocksInv => NothingLost
    <2> SUFFICES ASSUME BlocksInv, sound
                 PROVE  Blocks = free \cup InHand \cup { r.b : r \in AllPlaces }
      BY DEF NothingLost
    <2>1. TypeOK /\ Accounted /\ \A f \in Files : StageOK(f)
      BY DEF BlocksInv, MapInv, Apart, FileOK
    <2>2. ASSUME NEW b \in Blocks PROVE b \in free \cup InHand \cup { r.b : r \in AllPlaces }
      <3>1. CASE b \in free
        BY <3>1
      <3>2. ASSUME NEW f \in Files, Holds(f, b) PROVE b \in InHand
        BY <3>2 DEF Holds, InHand
      <3>3. ASSUME NEW s \in Spots, Ref(s) = b PROVE b \in { r.b : r \in AllPlaces }
        <4>1. Named(s) \in AllPlaces /\ Named(s).b = b
          BY <3>3, PlacesAre, MapAssumption DEF Named
        <4> QED
          BY <4>1
      <3> QED
        BY <2>1, <3>1, <3>2, <3>3 DEF Accounted
    <2>3. free \subseteq Blocks
      BY <2>1 DEF TypeOK
    <2>4. InHand \subseteq Blocks
      BY <2>1 DEF InHand, StageOK
    <2>5. ASSUME NEW r \in AllPlaces PROVE r.b \in Blocks
      <3>1. PICK x \in Spots : Ref(x) # NoBlock /\ r = Named(x)
        BY PlacesAre
      <3> QED
        BY <2>1, <3>1, RefEntry DEF Named, Entry
    <2> QED
      BY <2>2, <2>3, <2>4, <2>5
  <1> QED
    BY <1>1, BlocksCorrect, PTL

\* A block of a file that has not been written reads as zeros, whatever its block of the
\* volume held before, and one that has been written is not the block of a table; what
\* Bread returns is what would be read after an eviction.
THEOREM FreshIsZeroCorrect == Spec => []FreshIsZero
  <1>1. BlocksInv => FreshIsZero
    <2> SUFFICES ASSUME BlocksInv, sound, NEW f \in Files, NEW l \in Lbns,
                        pc[f] \in {"idle", "map", "mid", "leaf", "direct"},
                        Lookup(f, l) # NoBlock
                 PROVE  /\ mem[Lookup(f, l)] = disk[Lookup(f, l)]
                        /\ mem[Lookup(f, l)] = IF l \in written[f] THEN Data ELSE Zero
      BY DEF FreshIsZero
    <2>1. StageOK(f) /\ FreshOK(f)
      BY DEF BlocksInv, MapInv, FileOK
    <2>2. Lookup(f, l) = Ref(LeafSpot(f, l))
      BY <2>1, LookupRef DEF StageOK
    <2>3. FreshAt(f, l, Ref(LeafSpot(f, l)))
      BY <2>1 DEF FreshOK, Live
    <2> QED
      BY <2>2, <2>3 DEF FreshAt
  <1> QED
    BY <1>1, BlocksCorrect, PTL

\* Once Bmap has given a block of a file its place, the place stays the same under every
\* later Bmap, of this block and of others, by this process and by others.
THEOREM MapStableCorrect == Spec => MapStable
  <1>1. BlocksInv /\ BlocksInv' /\ [Next]_vars
        => (sound' => \A f \in Files : \A l \in Lbns :
              Lookup(f, l) # NoBlock /\ pc[f] # "idle" /\ op[f] # "none"
              => Lookup(f, l)' = Lookup(f, l))
    <2> SUFFICES ASSUME BlocksInv, BlocksInv', [Next]_vars, sound', NEW f \in Files, NEW l \in Lbns,
                        Lookup(f, l) # NoBlock, op[f] # "none"
                 PROVE  Lookup(f, l)' = Lookup(f, l)
      OBVIOUS
    <2>1. CASE UNCHANGED vars
      BY <2>1 DEF Lookup, At, vars, file, block
    <2>2. ASSUME NEW b \in Blocks, Drop(b) PROVE FALSE
      BY <2>2 DEF Drop
    <2>3. ASSUME NEW g \in Files, sound, ReadWrite(g) \/ Bmap(g) \/ ITrunc(g)
          PROVE  Lookup(f, l)' = Lookup(f, l)
      <3>1. TypeOK /\ MapInv /\ StageOK(f)
        BY <2>3 DEF BlocksInv, MapInv, FileOK
      <3>2. pc[f] \in {"map", "direct", "mid", "leaf", "io"}
        BY <3>1 DEF StageOK
      <3>3. i1[f] = PerIndex /\ i2[f] = PerIndex
        BY <3>1, <3>2 DEF StageOK
      <3>4. StepOf(g) /\ (ReadWrite(g) \/ Bmap(g) => Grows(g))
        BY <2>3, <3>1, MapStep
      <3>5. Lookup(f, l) = Ref(LeafSpot(f, l)) /\ LeafSpot(f, l) \in Spots /\ LeafSpot(f, l).f = f
        BY <3>3, LookupRef, LeafSpotIn
      <3>6. CASE g # f
        <4>1. i1'[f] = PerIndex /\ i2'[f] = PerIndex
          BY <3>3, <3>4, <3>6 DEF StepOf
        <4>2. Ref(LeafSpot(f, l))' = Ref(LeafSpot(f, l))
          BY <3>1, <3>4, <3>5, <3>6, Others DEF RefsSame
        <4> QED
          BY <3>5, <4>1, <4>2, LookupRef
      <3>7. CASE g = f
        <4>1. ~ITrunc(f)
          BY <3>2 DEF ITrunc, Delete, DirectFree, FirstOpen, FirstFree, SecondOpen, SecondFree,
                      SecondDone, FirstDone, TruncEnd, TruncFails
        <4>2. ReadWrite(f) \/ Bmap(f)
          BY <2>3, <3>7, <4>1
        <4>3. UNCHANGED trunc
          BY <4>2 DEF ReadWrite, Bmap, Fetch, Store, IoFails, Read, Write, Ask, DirectFound,
                      DirectAlloc, DirectLink, TopFound, TopAlloc, MidFound, MidAlloc, LeafFound,
                      LeafAlloc, MapFails
        <4>4. i1'[f] = PerIndex /\ i2'[f] = PerIndex
          BY <3>3, <4>3 DEF trunc
        <4>5. Ref(LeafSpot(f, l))' = Ref(LeafSpot(f, l))
          BY <3>4, <3>5, <3>7, <4>2 DEF Grows
        <4> QED
          BY <3>5, <4>4, <4>5, LookupRef
      <3> QED
        BY <3>6, <3>7
    <2> QED
      BY <2>1, <2>2, <2>3 DEF Next
  <1> QED
    BY <1>1, BlocksCorrect, PTL DEF Spec, MapStable
=============================================================================
