-------------------------- MODULE DirectoryProofs --------------------------
(***************************************************************************)
(* Theorems about Directory, for every number of inodes and names, every   *)
(* size of directories and of their blocks, with dots and without, with    *)
(* failures and without.                                                   *)
(***************************************************************************)
EXTENDS Directory, FiniteSetTheorems, WellFoundedInduction, TLAPS

\* An entry in use with its directory and its position, as in Entries.
All(s) ==
    UNION { { <<d, s[d][k], k>> : k \in { k \in DOMAIN s[d] : InUse(s[d][k]) } } : d \in Inodes }

Dir(x) == x[1]
Ino(x) == x[2].ino
Nm(x)  == x[2].name

Used == All(slots)

\* In a set U of entries, with the kinds K of the inodes: whether an entry is a name, and
\* of i; whether it is one in p; the directories that can be reached, as Live says; the
\* entries that count as links of i.
IsName(x)       == Nm(x) \in Names
Named(U, i)     == \E x \in U : IsName(x) /\ Ino(x) = i
Over(U, p, i)   == \E x \in U : IsName(x) /\ Dir(x) = p /\ Ino(x) = i
InTree(U, K, d) == K[d] = "dir" /\ (d = Root \/ Named(U, d))
RefsTo(U, K, i) == { x \in U : InTree(U, K, Dir(x)) /\ Ino(x) = i }

-----------------------------------------------------------------------------
(* The inductive invariant                                                  *)

\* A name is once in its directory; only directories that can be reached have names, and
\* they name what exists; a directory has one name.
NamesOK(U, K) ==
    /\ K[Root] = "dir"
    /\ \A x \in U : /\ Dir(x) \in Inodes /\ Ino(x) \in Inodes
                    /\ K[Dir(x)] = "dir" /\ Nm(x) \in Names \cup {".", ".."}
    /\ \A x, y \in U : Dir(x) = Dir(y) /\ Nm(x) = Nm(y) => x = y
    /\ \A x \in U : IsName(x) => InTree(U, K, Dir(x)) /\ Ino(x) # Root /\ K[Ino(x)] # "none"
    /\ \A x, y \in U :
          IsName(x) /\ IsName(y) /\ Ino(x) = Ino(y) /\ K[Ino(x)] = "dir" => x = y

Dot(d)      == <<d, DE(d, "."), 1>>
DotUp(d, p) == <<d, DE(p, ".."), 2>>

\* The dots that a directory d below p has, and the ".." of them; h is has_dots.
DotsOf(h, d, p) == IF h THEN {Dot(d), DotUp(d, p)} ELSE {}
UpOf(h, d, p)   == IF h THEN {DotUp(d, p)} ELSE {}

\* "." is the first entry, ".." the second, which names the directory that has the name.
DotsOK(U, K, h) ==
    /\ \A x \in U : Nm(x) = "." => h /\ x = Dot(Dir(x))
    /\ \A x \in U : Nm(x) = ".." => h /\ x = DotUp(Dir(x), Ino(x))
    /\ \A d \in Inodes : h /\ InTree(U, K, d) =>
          /\ Dot(d) \in U
          /\ \E p \in Inodes : DotUp(d, p) \in U /\ IF d = Root THEN p = Root ELSE Over(U, p, d)

\* Whoever goes up from a directory that can be reached comes to the root.
RootAbove(U, K) ==
    \A d \in Inodes : InTree(U, K, d) =>
        \A C \in SUBSET (Inodes \ {Root}) :
            d \in C => \E x \in C, p \in Inodes \ C : Over(U, p, x)

Tree(U, K, h) == NamesOK(U, K) /\ DotsOK(U, K, h) /\ RootAbove(U, K)

\* The counts of an inode i to which the entries in R refer.
CountOK(R, i) ==
    /\ IsFiniteSet(R)
    /\ nlink[i] >= Cardinality(R) /\ i_nlink[i] >= Cardinality(R)
    /\ clean /\ i # Root => nlink[i] = Cardinality(R)
    /\ clean /\ i # Root /\ kind[i] = "dir" => i_nlink[i] = nlink[i]

TreeInv ==
    /\ Tree(Used, kind, has_dots)
    /\ \A i \in Inodes : CountOK(RefsTo(Used, kind, i), i)

Files == [Inodes -> Seq(Slot)]

DirInv == TypeOK /\ slots \in Files /\ (sound => TreeInv)

-----------------------------------------------------------------------------
(* Positions in a directory file                                            *)

\* A set of numbers has a least one.
LEMMA LeastOf ==
    ASSUME NEW S \in SUBSET Nat, S # {}
    PROVE  \E n \in S : \A m \in S : n <= m
  <1> DEFINE R == { ss \in Nat \X Nat : ss[1] < ss[2] }
  <1>1. IsWellFoundedOn(R, Nat)
    BY NatLessThanWellFounded DEF OpToRel
  <1>2. PICK x \in S : \A y \in S : ~ (<<y, x>> \in R)
    <2> HIDE DEF R
    <2> QED
      BY <1>1, WFMin
  <1>3. ASSUME NEW y \in S PROVE x <= y
    <2>1. x \in Nat /\ y \in Nat
      OBVIOUS
    <2>2. ~(y < x)
      <3>1. <<y, x>> \in Nat \X Nat /\ <<y, x>>[1] = y /\ <<y, x>>[2] = x
        BY <2>1
      <3> QED
        BY <1>2, <3>1
    <2> QED
      BY <2>1, <2>2
  <1> QED
    BY <1>3

LEMMA FirstOf ==
    ASSUME NEW S \in SUBSET Nat, S # {}
    PROVE  First(S) \in S
  BY LeastOf DEF First

\* A new entry goes where no entry in use is, or behind the last.
LEMMA Vacant ==
    ASSUME NEW t \in Seq(Slot)
    PROVE  /\ Vacancy(t) \in 1 .. Len(t) + 1
           /\ Vacancy(t) \in DOMAIN t => ~InUse(t[Vacancy(t)])
  <1> DEFINE S == { k \in DOMAIN t : ~InUse(t[k]) } \cup {Len(t) + 1}
  <1>1. S \subseteq 1 .. Len(t) + 1 /\ S # {} /\ Len(t) \in Nat /\ DOMAIN t = 1 .. Len(t)
    OBVIOUS
  <1>2. First(S) \in S
    <2> HIDE DEF S
    <2>1. S \in SUBSET Nat
      BY <1>1
    <2> QED
      BY <1>1, <2>1, FirstOf
  <1>3. Vacancy(t) \in S
    BY <1>2 DEF Vacancy
  <1> QED
    BY <1>1, <1>3

\* u is t with e at v.
Swapped(t, u, v, e) ==
    /\ DOMAIN u = DOMAIN t \cup {v}
    /\ \A k \in DOMAIN u : u[k] = IF k = v THEN e ELSE t[k]

LEMMA PutIs ==
    ASSUME NEW t \in Seq(Slot), NEW v \in 1 .. Len(t) + 1, NEW e \in Slot
    PROVE  /\ Put(t, v, e) \in Seq(Slot)
           /\ Len(Put(t, v, e)) = IF v > Len(t) THEN v ELSE Len(t)
           /\ Swapped(t, Put(t, v, e), v, e)
  <1> DEFINE n == IF v > Len(t) THEN v ELSE Len(t)
             p == Put(t, v, e)
  <1>1. Len(t) \in Nat /\ DOMAIN t = 1 .. Len(t) /\ n \in Nat /\ 1 .. n = DOMAIN t \cup {v}
    OBVIOUS
  <1>2. p = [j \in 1 .. n |-> IF j = v THEN e ELSE t[j]]
    BY DEF Put
  <1>3. \A j \in 1 .. n : (IF j = v THEN e ELSE t[j]) \in Slot
    BY <1>1
  <1>4. p \in [1 .. n -> Slot]
    BY <1>2, <1>3
  <1>5. p \in Seq(Slot) /\ Len(p) = n
    BY <1>1, <1>4
  <1> HIDE DEF p
  <1> QED
    BY <1>1, <1>2, <1>5 DEF p, Swapped

-----------------------------------------------------------------------------
(* Entries in use                                                           *)

LEMMA EntryIs ==
    ASSUME NEW i \in Inodes \cup {Free}, NEW n \in Names \cup {".", "..", "(deleted)"}
    PROVE  /\ DE(i, n) \in Slot /\ DE(i, n).ino = i /\ DE(i, n).name = n
           /\ InUse(DE(i, n)) <=> i # Free
  BY DEF DE, Slot, InUse

LEMMA DeletedIs == Deleted \in Slot /\ ~InUse(Deleted)
  BY DEF Deleted, DE, Slot, InUse

LEMMA AllIs ==
    ASSUME NEW s, NEW x
    PROVE  x \in All(s) <=>
               \E d \in Inodes : \E k \in DOMAIN s[d] : InUse(s[d][k]) /\ x = <<d, s[d][k], k>>
  BY DEF All

\* An entry is what its directory has at its position.
LEMMA AllHas ==
    ASSUME NEW s \in Files, NEW x \in All(s)
    PROVE  /\ Dir(x) \in Inodes /\ x[3] \in DOMAIN s[Dir(x)] /\ x[2] = s[Dir(x)][x[3]]
           /\ Ino(x) \in Inodes /\ Nm(x) \in Names \cup {".", "..", "(deleted)"}
           /\ x[3] \in Nat \ {0} /\ x = <<Dir(x), DE(Ino(x), Nm(x)), x[3]>>
  <1>1. PICK d, k : d \in Inodes /\ k \in DOMAIN s[d] /\ InUse(s[d][k]) /\ x = <<d, s[d][k], k>>
    BY AllIs
  <1>2. s[d] \in Seq(Slot)
    BY <1>1 DEF Files
  <1>3. k \in Nat \ {0} /\ s[d][k] \in Slot
    BY <1>1, <1>2
  <1>4. s[d][k].ino \in Inodes /\ s[d][k] = DE(s[d][k].ino, s[d][k].name)
        /\ s[d][k].name \in Names \cup {".", "..", "(deleted)"}
    BY <1>1, <1>3 DEF Slot, InUse, DE
  <1> QED
    BY <1>1, <1>3, <1>4 DEF Dir, Ino, Nm

LEMMA AllThere ==
    ASSUME NEW s, NEW d \in Inodes, NEW k \in DOMAIN s[d], InUse(s[d][k])
    PROVE  <<d, s[d][k], k>> \in All(s)
  BY AllIs

LEMMA AllOnce ==
    ASSUME NEW s \in Files, NEW x \in All(s), NEW y \in All(s), Dir(x) = Dir(y), x[3] = y[3]
    PROVE  x = y
  <1>1. PICK d, k : d \in Inodes /\ k \in DOMAIN s[d] /\ x = <<d, s[d][k], k>>
    BY AllIs
  <1>2. PICK e, l : e \in Inodes /\ l \in DOMAIN s[e] /\ y = <<e, s[e][l], l>>
    BY AllIs
  <1> QED
    BY <1>1, <1>2 DEF Dir

\* r is s but for directory d, which is t.
Turns(s, r, d, t) == r \in Files /\ r[d] = t /\ \A c \in Inodes \ {d} : r[c] = s[c]

LEMMA ExceptTurns ==
    ASSUME NEW s \in Files, NEW d \in Inodes, NEW t \in Seq(Slot)
    PROVE  Turns(s, [s EXCEPT ![d] = t], d, t)
  BY DEF Turns, Files

\* One entry of a directory changes, or is new.
LEMMA ChangeOne ==
    ASSUME NEW s \in Files, NEW d \in Inodes, NEW t \in Seq(Slot), NEW v \in Nat \ {0},
           NEW e \in Slot, Swapped(s[d], t, v, e), NEW r, Turns(s, r, d, t)
    PROVE  /\ r \in Files
           /\ All(r) = { x \in All(s) : ~(Dir(x) = d /\ x[3] = v) }
                        \cup (IF InUse(e) THEN {<<d, e, v>>} ELSE {})
  <1>1. /\ r \in Files /\ r[d] = t /\ \A c \in Inodes \ {d} : r[c] = s[c]
        /\ DOMAIN t = DOMAIN s[d] \cup {v}
        /\ \A k \in DOMAIN t : t[k] = IF k = v THEN e ELSE s[d][k]
    BY DEF Turns, Swapped
  <1>2. ASSUME NEW x, x \in All(r)
        PROVE  \/ x \in All(s) /\ ~(Dir(x) = d /\ x[3] = v)
               \/ InUse(e) /\ x = <<d, e, v>>
    <2>1. PICK c, k : c \in Inodes /\ k \in DOMAIN r[c] /\ InUse(r[c][k]) /\ x = <<c, r[c][k], k>>
      BY <1>2, AllIs
    <2>2. CASE c = d /\ k = v
      BY <1>1, <2>1, <2>2
    <2>3. CASE c = d /\ k # v
      <3>1. k \in DOMAIN s[d] /\ r[c][k] = s[d][k]
        BY <1>1, <2>1, <2>3
      <3> QED
        BY <2>1, <2>3, <3>1, AllIs DEF Dir
    <2>4. CASE c # d
      BY <1>1, <2>1, <2>4, AllIs DEF Dir
    <2> QED
      BY <2>2, <2>3, <2>4
  <1>3. ASSUME NEW x, x \in All(s), ~(Dir(x) = d /\ x[3] = v)
        PROVE  x \in All(r)
    <2>1. PICK c, k : c \in Inodes /\ k \in DOMAIN s[c] /\ InUse(s[c][k]) /\ x = <<c, s[c][k], k>>
      BY <1>3, AllIs
    <2>2. k \in DOMAIN r[c] /\ r[c][k] = s[c][k]
      BY <1>1, <1>3, <2>1 DEF Dir
    <2> QED
      BY <2>1, <2>2, AllIs
  <1>4. InUse(e) => <<d, e, v>> \in All(r)
    <2>1. v \in DOMAIN r[d] /\ r[d][v] = e
      BY <1>1
    <2> QED
      BY <2>1, AllIs
  <1>5. r \in Files
    BY <1>1
  <1> QED
    BY SMTT(30), <1>2, <1>3, <1>4, <1>5

Short(s) == \A d \in Inodes : Len(s[d]) <= Room + 2

LEMMA AddIs ==
    ASSUME NEW s \in Files, NEW d \in Inodes, NEW i \in Inodes, NEW n \in Names,
           NEW r, Turns(s, r, d, AddLink(s[d], n, i))
    PROVE  \E v \in Nat \ {0} :
              /\ v = Vacancy(s[d])
              /\ r \in Files /\ All(r) = All(s) \cup {<<d, DE(i, n), v>>}
              /\ \A x \in All(s) : ~(Dir(x) = d /\ x[3] = v)
              /\ Short(s) /\ v <= Room + 2 => Short(r)
  <1> DEFINE e == DE(i, n)
  <1>1. s[d] \in Seq(Slot)
    BY DEF Files
  <1>2. PICK v \in 1 .. Len(s[d]) + 1 : /\ v = Vacancy(s[d])
                                        /\ v \in DOMAIN s[d] => ~InUse(s[d][v])
    BY <1>1, Vacant
  <1>3. e \in Slot /\ InUse(e)
    BY EntryIs, DirectoryAssumption
  <1>4. PICK t \in Seq(Slot) : /\ t = AddLink(s[d], n, i)
                               /\ Len(t) = (IF v > Len(s[d]) THEN v ELSE Len(s[d]))
                               /\ Swapped(s[d], t, v, e)
    <2> HIDE DEF e
    <2>1. AddLink(s[d], n, i) = Put(s[d], v, e)
      BY <1>2 DEF AddLink, e
    <2> QED
      BY <1>1, <1>3, <2>1, PutIs
  <1> HIDE DEF e
  <1>5. Turns(s, r, d, t)
    BY <1>4
  <1>6. v \in Nat \ {0}
    BY <1>1, <1>2
  <1>7. /\ r \in Files
        /\ All(r) = { x \in All(s) : ~(Dir(x) = d /\ x[3] = v) } \cup {<<d, e, v>>}
    BY <1>3, <1>4, <1>5, <1>6, ChangeOne
  <1>8. ASSUME NEW x \in All(s) PROVE ~(Dir(x) = d /\ x[3] = v)
    <2>1. PICK c, k : c \in Inodes /\ k \in DOMAIN s[c] /\ InUse(s[c][k]) /\ x = <<c, s[c][k], k>>
      BY AllIs
    <2> QED
      BY <1>2, <2>1 DEF Dir
  <1>9. All(r) = All(s) \cup {<<d, e, v>>}
    BY <1>7, <1>8
  <1>10. Short(s) /\ v <= Room + 2 => Short(r)
    <2>1. \A c \in Inodes \ {d} : r[c] = s[c]
      BY <1>5 DEF Turns
    <2>2. r[d] = t
      BY <1>5 DEF Turns
    <2> QED
      BY <1>4, <2>1, <2>2 DEF Short
  <1> QED
    BY <1>2, <1>6, <1>7, <1>8, <1>9, <1>10 DEF e

\* The entry x becomes e.
LEMMA OverwriteIs ==
    ASSUME NEW s \in Files, NEW x \in All(s), NEW e \in Slot,
           NEW r, Turns(s, r, Dir(x), [s[Dir(x)] EXCEPT ![x[3]] = e])
    PROVE  /\ r \in Files /\ (Short(s) => Short(r))
           /\ All(r) = (All(s) \ {x}) \cup (IF InUse(e) THEN {<<Dir(x), e, x[3]>>} ELSE {})
  <1>1. PICK d \in Inodes, k \in Nat \ {0} : /\ d = Dir(x) /\ k = x[3] /\ k \in DOMAIN s[d]
    BY AllHas
  <1>2. s[d] \in Seq(Slot)
    BY DEF Files
  <1>3. PICK t \in Seq(Slot) : /\ t = [s[d] EXCEPT ![k] = e] /\ DOMAIN t = DOMAIN s[d]
                               /\ Len(t) = Len(s[d])
    <2>1. PICK q \in Seq(Slot) : q = s[d]
      BY <1>2
    <2>2. /\ [q EXCEPT ![k] = e] \in Seq(Slot) /\ DOMAIN [q EXCEPT ![k] = e] = DOMAIN q
          /\ Len([q EXCEPT ![k] = e]) = Len(q)
      BY <1>1, <2>1
    <2> QED
      BY <2>1, <2>2
  <1>4. Swapped(s[d], t, k, e)
    BY <1>1, <1>3 DEF Swapped
  <1>5. Turns(s, r, d, t)
    BY <1>1, <1>3
  <1>6. /\ r \in Files
        /\ All(r) = { y \in All(s) : ~(Dir(y) = d /\ y[3] = k) }
                     \cup (IF InUse(e) THEN {<<d, e, k>>} ELSE {})
    BY <1>4, <1>5, ChangeOne
  <1>7. \A y \in All(s) : Dir(y) = d /\ y[3] = k <=> y = x
    BY <1>1, AllOnce
  <1>9. { y \in All(s) : ~(Dir(y) = d /\ y[3] = k) } = All(s) \ {x}
    BY <1>7
  <1>8. Short(s) => Short(r)
    <2>1. \A c \in Inodes \ {d} : r[c] = s[c]
      BY <1>5 DEF Turns
    <2>2. r[d] = t
      BY <1>5 DEF Turns
    <2> QED
      BY <1>3, <2>1, <2>2 DEF Short
  <1> QED
    BY <1>1, <1>6, <1>8, <1>9

LEMMA DeleteIs ==
    ASSUME NEW s \in Files, NEW x \in All(s), NEW r,
           Turns(s, r, Dir(x), [s[Dir(x)] EXCEPT ![x[3]] = Deleted])
    PROVE  r \in Files /\ (Short(s) => Short(r)) /\ All(r) = All(s) \ {x}
  BY DeletedIs, OverwriteIs

\* The entry x gets another number.
LEMMA SetIs ==
    ASSUME NEW s \in Files, NEW x \in All(s), NEW i \in Inodes \cup {Free},
           NEW r, Turns(s, r, Dir(x), [s[Dir(x)] EXCEPT ![x[3]].ino = i])
    PROVE  /\ r \in Files /\ (Short(s) => Short(r))
           /\ All(r) = (All(s) \ {x})
                        \cup (IF i = Free THEN {} ELSE {<<Dir(x), DE(i, Nm(x)), x[3]>>})
  <1> DEFINE e == DE(i, Nm(x))
  <1>1. e \in Slot /\ (InUse(e) <=> i # Free)
    BY AllHas, EntryIs
  <1>2. s[Dir(x)][x[3]] = DE(Ino(x), Nm(x))
    <2>1. x[2] = s[Dir(x)][x[3]] /\ x = <<Dir(x), DE(Ino(x), Nm(x)), x[3]>>
      BY AllHas
    <2> QED
      BY <2>1
  <1>3. [s[Dir(x)][x[3]] EXCEPT !.ino = i] = e
    BY <1>2 DEF DE
  <1>4. Turns(s, r, Dir(x), [s[Dir(x)] EXCEPT ![x[3]] = e])
    <2>1. [s[Dir(x)] EXCEPT ![x[3]].ino = i] = [s[Dir(x)] EXCEPT ![x[3]] = e]
      BY <1>3
    <2> QED
      BY <2>1
  <1> HIDE DEF e
  <1>5. /\ r \in Files /\ (Short(s) => Short(r))
        /\ All(r) = (All(s) \ {x}) \cup (IF InUse(e) THEN {<<Dir(x), e, x[3]>>} ELSE {})
    BY <1>1, <1>4, OverwriteIs
  <1> QED
    BY <1>1, <1>5 DEF e

\* A directory file is written anew.
LEMMA FillIs ==
    ASSUME NEW s \in Files, NEW i \in Inodes, NEW t \in Seq(Slot),
           NEW r, Turns(s, r, i, t)
    PROVE  /\ r \in Files /\ (Short(s) /\ Len(t) <= Room + 2 => Short(r))
           /\ All(r) = { x \in All(s) : Dir(x) # i }
                        \cup { <<i, t[k], k>> : k \in { k \in DOMAIN t : InUse(t[k]) } }
  <1>1. r \in Files /\ r[i] = t /\ \A c \in Inodes \ {i} : r[c] = s[c]
    BY DEF Turns
  <1>2. ASSUME NEW x, x \in All(r)
        PROVE  \/ x \in All(s) /\ Dir(x) # i
               \/ \E k \in DOMAIN t : InUse(t[k]) /\ x = <<i, t[k], k>>
    <2>1. PICK c, k : c \in Inodes /\ k \in DOMAIN r[c] /\ InUse(r[c][k]) /\ x = <<c, r[c][k], k>>
      BY <1>2, AllIs
    <2>2. CASE c = i
      BY <1>1, <2>1, <2>2
    <2>3. CASE c # i
      BY <1>1, <2>1, <2>3, AllIs DEF Dir
    <2> QED
      BY <2>2, <2>3
  <1>3. ASSUME NEW x, x \in All(s), Dir(x) # i PROVE x \in All(r)
    <2>1. PICK c, k : c \in Inodes /\ k \in DOMAIN s[c] /\ InUse(s[c][k]) /\ x = <<c, s[c][k], k>>
      BY <1>3, AllIs
    <2> QED
      BY <1>1, <1>3, <2>1, AllIs DEF Dir
  <1>4. ASSUME NEW k \in DOMAIN t, InUse(t[k]) PROVE <<i, t[k], k>> \in All(r)
    BY <1>1, <1>4, AllIs
  <1>5. Short(s) /\ Len(t) <= Room + 2 => Short(r)
    BY <1>1 DEF Short
  <1> QED
    BY <1>1, <1>2, <1>3, <1>4, <1>5

LEMMA ClearIs ==
    ASSUME NEW s \in Files, NEW i \in Inodes, NEW r, Turns(s, r, i, <<>>)
    PROVE  /\ r \in Files /\ (Short(s) => Short(r))
           /\ All(r) = { x \in All(s) : Dir(x) # i }
  <1>1. PICK t \in Seq(Slot) : t = <<>> /\ Len(t) <= Room + 2 /\ DOMAIN t = {}
    <2>1. <<>> \in Seq(Slot) /\ Len(<<>>) <= Room + 2 /\ DOMAIN <<>> = {}
      BY DirectoryAssumption
    <2> QED
      BY <2>1
  <1>2. Turns(s, r, i, t)
    BY <1>1
  <1>3. /\ r \in Files /\ (Short(s) /\ Len(t) <= Room + 2 => Short(r))
        /\ All(r) = { x \in All(s) : Dir(x) # i }
                     \cup { <<i, t[k], k>> : k \in { k \in DOMAIN t : InUse(t[k]) } }
    BY <1>2, FillIs
  <1>4. { <<i, t[k], k>> : k \in { k \in DOMAIN t : InUse(t[k]) } } = {}
    BY <1>1
  <1> QED
    BY <1>1, <1>3, <1>4

LEMMA DotsFill ==
    ASSUME has_dots, NEW s \in Files, NEW i \in Inodes, NEW d \in Inodes, NEW k \in 0 .. 2,
           NEW r, Turns(s, r, i, SubSeq(Dots(i, d), 1, k))
    PROVE  /\ r \in Files /\ (Short(s) => Short(r))
           /\ All(r) = { x \in All(s) : Dir(x) # i }
                        \cup { x \in {Dot(i), DotUp(i, d)} : x[3] <= k }
  <1> DEFINE t == SubSeq(Dots(i, d), 1, k)
             e == DE(i, ".")
             u == DE(d, "..")
  <1>1. e \in Slot /\ u \in Slot /\ InUse(e) /\ InUse(u)
    BY EntryIs, DirectoryAssumption
  <1> HIDE DEF e, u
  <1>2. Dots(i, d) = <<e, u>>
    BY DEF Dots, e, u
  <1>3. /\ t \in Seq(Slot) /\ Len(t) = k /\ DOMAIN t = 1 .. k
        /\ \A j \in DOMAIN t : t[j] = IF j = 1 THEN e ELSE u
    BY <1>1, <1>2
  <1>7. Turns(s, r, i, t)
    OBVIOUS
  <1> HIDE DEF t
  <1>4. /\ r \in Files /\ (Short(s) /\ Len(t) <= Room + 2 => Short(r))
        /\ All(r) = { x \in All(s) : Dir(x) # i }
                     \cup { <<i, t[j], j>> : j \in { j \in DOMAIN t : InUse(t[j]) } }
    BY <1>3, <1>7, FillIs
  <1>5. { <<i, t[j], j>> : j \in { j \in DOMAIN t : InUse(t[j]) } }
            = { y \in {<<i, e, 1>>, <<i, u, 2>>} : y[3] <= k }
    BY <1>1, <1>3
  <1>6. Len(t) <= Room + 2
    BY <1>3, DirectoryAssumption
  <1> QED
    BY <1>4, <1>5, <1>6 DEF e, u, Dot, DotUp

LEMMA DotsIs ==
    ASSUME has_dots \in BOOLEAN, NEW s \in Files, NEW i \in Inodes, NEW d \in Inodes,
           NEW r, Turns(s, r, i, Dots(i, d))
    PROVE  /\ r \in Files /\ (Short(s) => Short(r))
           /\ All(r) = { x \in All(s) : Dir(x) # i }
                        \cup (IF has_dots THEN {Dot(i), DotUp(i, d)} ELSE {})
  <1>1. CASE has_dots
    <2>1. Dots(i, d) = SubSeq(Dots(i, d), 1, 2)
      BY <1>1 DEF Dots
    <2>2. { x \in {Dot(i), DotUp(i, d)} : x[3] <= 2 } = {Dot(i), DotUp(i, d)}
      BY DEF Dot, DotUp
    <2>3. Turns(s, r, i, SubSeq(Dots(i, d), 1, 2))
      BY Zenon, <2>1
    <2>4. 2 \in 0 .. 2
      OBVIOUS
    <2> QED
      BY <1>1, <2>2, <2>3, <2>4, DotsFill
  <1>2. CASE ~has_dots
    BY <1>2, ClearIs DEF Dots
  <1> QED
    BY <1>1, <1>2

-----------------------------------------------------------------------------
(* Trees                                                                    *)

LEMMA ItemIs ==
    ASSUME NEW d, NEW i, NEW n, NEW v
    PROVE  Dir(<<d, DE(i, n), v>>) = d /\ Ino(<<d, DE(i, n), v>>) = i /\ Nm(<<d, DE(i, n), v>>) = n
  BY DEF Dir, Ino, Nm, DE

LEMMA DotIs ==
    ASSUME NEW d, NEW p
    PROVE  /\ Dir(Dot(d)) = d /\ Ino(Dot(d)) = d /\ Nm(Dot(d)) = "."
           /\ Dir(DotUp(d, p)) = d /\ Ino(DotUp(d, p)) = p /\ Nm(DotUp(d, p)) = ".."
           /\ ~IsName(Dot(d)) /\ ~IsName(DotUp(d, p))
  <1>1. /\ Dir(Dot(d)) = d /\ Ino(Dot(d)) = d /\ Nm(Dot(d)) = "."
        /\ Dir(DotUp(d, p)) = d /\ Ino(DotUp(d, p)) = p /\ Nm(DotUp(d, p)) = ".."
    BY ItemIs DEF Dot, DotUp
  <1> QED
    BY <1>1, DirectoryAssumption DEF IsName

\* The kind of i becomes k.
Becomes(K, L, i, k) == L[i] = k /\ \A j \in Inodes \ {i} : L[j] = K[j]

\* A file gets a name in a directory that can be reached.
LEMMA EnterFile ==
    ASSUME NEW U, NEW K, NEW h, Tree(U, K, h), NEW x, NEW L,
           IsName(x), InTree(U, K, Dir(x)), Dir(x) \in Inodes, Ino(x) \in Inodes,
           \A y \in U : ~(Dir(y) = Dir(x) /\ Nm(y) = Nm(x)),
           K[Ino(x)] \in {"none", "file"}, Becomes(K, L, Ino(x), "file")
    PROVE  /\ Tree(U \cup {x}, L, h)
           /\ \A j \in Inodes : InTree(U \cup {x}, L, j) <=> InTree(U, K, j)
  <1> DEFINE V == U \cup {x}
             i == Ino(x)
  <1>1. L[i] = "file" /\ \A j \in Inodes : j # i => L[j] = K[j]
    BY DEF Becomes
  <1>2. \A p, j : Over(U, p, j) => Over(V, p, j)
    BY DEF Over
  <1>3. ASSUME NEW j \in Inodes PROVE InTree(V, L, j) <=> InTree(U, K, j)
    BY <1>1 DEF InTree, Named
  <1>4. NamesOK(V, L)
    <2> USE DEF Tree
    <2>1. L[Root] = "dir"
      BY <1>1, DirectoryAssumption DEF NamesOK
    <2>2. ASSUME NEW y \in V
          PROVE  /\ Dir(y) \in Inodes /\ Ino(y) \in Inodes
                 /\ L[Dir(y)] = "dir" /\ Nm(y) \in Names \cup {".", ".."}
      BY <1>1 DEF NamesOK, IsName, InTree
    <2>3. ASSUME NEW y \in V, NEW z \in V, Dir(y) = Dir(z), Nm(y) = Nm(z) PROVE y = z
      BY <2>3 DEF NamesOK
    <2>4. ASSUME NEW y \in V, IsName(y)
          PROVE  InTree(V, L, Dir(y)) /\ Ino(y) # Root /\ L[Ino(y)] # "none"
      BY <1>1, <1>3, <2>2, <2>4 DEF NamesOK
    <2>5. ASSUME NEW y \in V, NEW z \in V, IsName(y), IsName(z), Ino(y) = Ino(z),
                 L[Ino(y)] = "dir"
          PROVE  y = z
      BY <1>1, <2>2, <2>5 DEF NamesOK
    <2> QED
      BY <2>1, <2>2, <2>3, <2>4, <2>5 DEF NamesOK
  <1>5. DotsOK(V, L, h)
    <2>1. Nm(x) \notin {".", ".."}
      BY DirectoryAssumption DEF IsName
    <2> QED
      BY <1>2, <1>3, <2>1 DEF Tree, DotsOK
  <1>6. RootAbove(V, L)
    BY <1>2, <1>3 DEF Tree, RootAbove
  <1> QED
    BY <1>3, <1>4, <1>5, <1>6 DEF Tree

\* Nothing is in, and nothing refers to, an inode that is free; a directory that is not
\* in the tree has no names; no directory that is in it is its own.
LEMMA Apart ==
    ASSUME NEW U, NEW K, NEW h, Tree(U, K, h)
    PROVE  /\ \A x \in U : K[Dir(x)] = "dir" /\ (InTree(U, K, Dir(x)) => K[Ino(x)] # "none")
           /\ \A x \in U : IsName(x) => InTree(U, K, Dir(x)) /\ Dir(x) # Ino(x)
           /\ InTree(U, K, Root) /\ ~Named(U, Root)
  <1>1. InTree(U, K, Root)
    BY DEF Tree, NamesOK, InTree
  <1>2. ~Named(U, Root)
    BY DEF Tree, NamesOK, Named
  <1>3. ASSUME NEW x \in U, IsName(x)
        PROVE  InTree(U, K, Dir(x)) /\ Dir(x) # Ino(x) /\ K[Ino(x)] # "none"
    <2>1. \/ InTree(U, K, Dir(x)) /\ Dir(x) \in Inodes /\ Dir(x) # Ino(x)
          \/ Dir(x) = Ino(x)
      BY <1>3 DEF Tree, NamesOK
    <2>2. /\ InTree(U, K, Dir(x)) /\ Dir(x) \in Inodes /\ Ino(x) # Root /\ K[Ino(x)] # "none"
          /\ K[Dir(x)] = "dir"
      BY <1>3 DEF Tree, NamesOK
    <2>3. CASE Dir(x) = Ino(x)
      <3>1. {Dir(x)} \in SUBSET (Inodes \ {Root})
        BY <2>2, <2>3
      <3>2. PICK c \in {Dir(x)}, p \in Inodes \ {Dir(x)} : Over(U, p, c)
        BY <2>2, <3>1 DEF Tree, RootAbove
      <3>3. PICK y \in U : IsName(y) /\ Dir(y) = p /\ Ino(y) = Dir(x)
        BY <3>2 DEF Over
      <3>4. y = x
        BY <1>3, <2>2, <2>3, <3>3 DEF Tree, NamesOK
      <3> QED
        BY <3>2, <3>3, <3>4
    <2> QED
      BY <2>2, <2>3
  <1>4. ASSUME NEW x \in U PROVE K[Dir(x)] = "dir" /\ (InTree(U, K, Dir(x)) => K[Ino(x)] # "none")
    <2>1. K[Dir(x)] = "dir" /\ Dir(x) \in Inodes /\ Nm(x) \in Names \cup {".", ".."}
      BY DEF Tree, NamesOK
    <2>2. CASE IsName(x)
      BY <1>3, <2>1, <2>2
    <2>3. CASE Nm(x) = "."
      <3>1. x = Dot(Dir(x))
        BY <2>3 DEF Tree, DotsOK
      <3>2. Ino(x) = Dir(x)
        BY <3>1, DotIs
      <3> QED
        BY <2>1, <3>2
    <2>4. CASE Nm(x) = ".." /\ InTree(U, K, Dir(x))
      <3>1. h /\ x = DotUp(Dir(x), Ino(x))
        BY <2>4 DEF Tree, DotsOK
      <3>2. PICK p \in Inodes : /\ DotUp(Dir(x), p) \in U
                                /\ IF Dir(x) = Root THEN p = Root ELSE Over(U, p, Dir(x))
        BY <2>1, <2>4, <3>1 DEF Tree, DotsOK
      <3>3. x = DotUp(Dir(x), p)
        <4>1. Dir(DotUp(Dir(x), p)) = Dir(x) /\ Nm(DotUp(Dir(x), p)) = Nm(x)
          BY <2>4, DotIs
        <4> QED
          BY <3>2, <4>1 DEF Tree, NamesOK
      <3>4. Ino(x) = p
        BY <3>3, DotIs
      <3>5. K[p] = "dir"
        <4>1. CASE Dir(x) = Root
          BY <3>2, <4>1 DEF Tree, NamesOK
        <4>2. CASE Dir(x) # Root
          BY <3>2, <4>2 DEF Over, Tree, NamesOK
        <4> QED
          BY <4>1, <4>2
      <3> QED
        BY <2>1, <3>4, <3>5
    <2> QED
      BY <2>1, <2>2, <2>3, <2>4 DEF IsName
  <1> QED
    BY <1>1, <1>2, <1>3, <1>4

\* A new directory gets a name, and its dots.
LEMMA EnterDir ==
    ASSUME NEW U, NEW K, NEW h \in BOOLEAN, Tree(U, K, h), NEW x, NEW L,
           IsName(x), InTree(U, K, Dir(x)), Dir(x) \in Inodes, Ino(x) \in Inodes,
           \A y \in U : ~(Dir(y) = Dir(x) /\ Nm(y) = Nm(x)),
           K[Ino(x)] = "none", Becomes(K, L, Ino(x), "dir")
    PROVE  /\ Tree(U \cup DotsOf(h, Ino(x), Dir(x)) \cup {x}, L, h)
           /\ \A j \in Inodes : InTree(U \cup DotsOf(h, Ino(x), Dir(x)) \cup {x}, L, j)
                                <=> InTree(U, K, j) \/ j = Ino(x)
  <1> DEFINE B == DotsOf(h, Ino(x), Dir(x))
             V == U \cup B \cup {x}
             i == Ino(x)
             d == Dir(x)
  <1>1. L[i] = "dir" /\ \A j \in Inodes : j # i => L[j] = K[j]
    BY DEF Becomes
  <1>2. \A p, j : Over(U, p, j) => Over(V, p, j)
    BY DEF Over
  <1>3. \A y \in B : /\ h /\ Dir(y) = i /\ ~IsName(y)
                     /\ \/ Nm(y) = "." /\ y = Dot(i) /\ Ino(y) = i
                        \/ Nm(y) = ".." /\ y = DotUp(i, d) /\ Ino(y) = d
    BY DotIs DEF DotsOf
  <1>4. Over(V, d, i)
    BY DEF Over
  <1>5. d # i /\ i # Root /\ (\A y \in U : Dir(y) # i) /\ \A y \in U : IsName(y) => Ino(y) # i
    BY Apart DEF InTree
  <1>6. ASSUME NEW j \in Inodes PROVE InTree(V, L, j) <=> InTree(U, K, j) \/ j = i
    BY <1>1, <1>3 DEF InTree, Named
  <1>7. NamesOK(V, L)
    <2>1. L[Root] = "dir"
      BY <1>1, <1>5, DirectoryAssumption DEF NamesOK, Tree
    <2>2. ASSUME NEW y \in V
          PROVE  /\ Dir(y) \in Inodes /\ Ino(y) \in Inodes
                 /\ L[Dir(y)] = "dir" /\ Nm(y) \in Names \cup {".", ".."}
      <3>1. CASE y \in U
        BY <1>1, <3>1 DEF NamesOK, Tree
      <3>2. CASE y \in B
        BY <1>1, <1>3, <3>2
      <3>3. CASE y = x
        BY <1>1, <1>5, <3>3 DEF IsName, InTree
      <3> QED
        BY <3>1, <3>2, <3>3
    <2>3. ASSUME NEW y \in V, NEW z \in V, Dir(y) = Dir(z), Nm(y) = Nm(z) PROVE y = z
      <3>1. CASE y \in U /\ z \in U
        BY <2>3, <3>1 DEF NamesOK, Tree
      <3>2. CASE y \in B \/ z \in B
        BY <1>3, <1>5, <2>3, <3>2
      <3> QED
        BY <2>3, <3>1, <3>2
    <2>4. ASSUME NEW y \in V, IsName(y)
          PROVE  InTree(V, L, Dir(y)) /\ Ino(y) # Root /\ L[Ino(y)] # "none"
      <3>1. CASE y \in U
        BY <1>1, <1>6, <2>4, <2>2, <3>1 DEF NamesOK, Tree
      <3>2. CASE y = x
        BY <1>1, <1>5, <1>6, <3>2
      <3> QED
        BY <1>3, <2>4, <3>1, <3>2
    <2>5. ASSUME NEW y \in V, NEW z \in V, IsName(y), IsName(z), Ino(y) = Ino(z),
                 L[Ino(y)] = "dir"
          PROVE  y = z
      <3>1. y \in U \cup {x} /\ z \in U \cup {x}
        BY <1>3, <2>5
      <3>2. CASE y \in U /\ z \in U
        BY <1>1, <1>5, <2>2, <2>5, <3>2 DEF NamesOK, Tree
      <3> QED
        BY <1>5, <2>5, <3>1, <3>2
    <2> QED
      BY <2>1, <2>2, <2>3, <2>4, <2>5 DEF NamesOK
  <1>8. DotsOK(V, L, h)
    <2>1. Nm(x) \notin {".", ".."}
      BY DirectoryAssumption DEF IsName
    <2>2. \A y \in V : Nm(y) = "." => h /\ y = Dot(Dir(y))
      BY <1>3, <2>1 DEF Tree, DotsOK
    <2>3. \A y \in V : Nm(y) = ".." => h /\ y = DotUp(Dir(y), Ino(y))
      BY <1>3, <2>1 DEF Tree, DotsOK
    <2>4. ASSUME NEW j \in Inodes, h, InTree(V, L, j)
          PROVE  /\ Dot(j) \in V
                 /\ \E p \in Inodes : DotUp(j, p) \in V /\ IF j = Root THEN p = Root ELSE Over(V, p, j)
      <3>1. CASE j = i
        BY <1>4, <1>5, <2>4, <3>1 DEF DotsOf
      <3>2. CASE j # i
        BY <1>2, <1>6, <2>4, <3>2 DEF Tree, DotsOK
      <3> QED
        BY <3>1, <3>2
    <2> QED
      BY <2>2, <2>3, <2>4 DEF DotsOK
  <1>9. RootAbove(V, L)
    <2> SUFFICES ASSUME NEW j \in Inodes, InTree(V, L, j),
                        NEW C \in SUBSET (Inodes \ {Root}), j \in C
                 PROVE  \E c \in C, p \in Inodes \ C : Over(V, p, c)
      BY DEF RootAbove
    <2>1. CASE j = i /\ d \notin C
      BY <1>4, <2>1
    <2>2. CASE j = i /\ d \in C
      BY <1>2, <2>2 DEF Tree, RootAbove
    <2>3. CASE j # i
      BY <1>2, <1>6, <2>3 DEF Tree, RootAbove
    <2> QED
      BY <2>1, <2>2, <2>3
  <1> QED
    BY <1>6, <1>7, <1>8, <1>9 DEF Tree

\* A new directory gets some of its dots, and no name.
LEMMA StrayDir ==
    ASSUME NEW U, NEW K, NEW h, Tree(U, K, h), h, NEW i \in Inodes, NEW d \in Inodes, NEW L,
           K[i] = "none", Becomes(K, L, i, "dir"), NEW B \in SUBSET {Dot(i), DotUp(i, d)}
    PROVE  /\ Tree(U \cup B, L, h)
           /\ \A j \in Inodes : InTree(U \cup B, L, j) <=> InTree(U, K, j)
           /\ ~InTree(U, K, i)
  <1> DEFINE V == U \cup B
  <1>1. L[i] = "dir" /\ \A j \in Inodes : j # i => L[j] = K[j]
    BY DEF Becomes
  <1>2. \A p, j : Over(U, p, j) => Over(V, p, j)
    BY DEF Over
  <1>3. \A y \in B : /\ Dir(y) = i /\ ~IsName(y)
                     /\ \/ Nm(y) = "." /\ y = Dot(i) /\ Ino(y) = i
                        \/ Nm(y) = ".." /\ y = DotUp(i, d) /\ Ino(y) = d
    BY DotIs
  <1>4. /\ ~InTree(U, K, i) /\ i # Root /\ (\A y \in U : Dir(y) # i)
        /\ \A y \in U : IsName(y) => Ino(y) # i
    BY Apart DEF InTree
  <1>5. ASSUME NEW j \in Inodes PROVE InTree(V, L, j) <=> InTree(U, K, j)
    <2>1. Named(V, j) <=> Named(U, j)
      BY <1>3 DEF Named
    <2>2. ~Named(U, i)
      BY <1>4 DEF Named
    <2> QED
      BY <1>1, <1>4, <2>1, <2>2 DEF InTree
  <1>7. NamesOK(V, L)
    <2>1. L[Root] = "dir"
      BY <1>1, <1>4, DirectoryAssumption DEF NamesOK, Tree
    <2>2. ASSUME NEW y \in V
          PROVE  /\ Dir(y) \in Inodes /\ Ino(y) \in Inodes
                 /\ L[Dir(y)] = "dir" /\ Nm(y) \in Names \cup {".", ".."}
      BY <1>1, <1>3 DEF NamesOK, Tree
    <2>3. ASSUME NEW y \in V, NEW z \in V, Dir(y) = Dir(z), Nm(y) = Nm(z) PROVE y = z
      <3>1. CASE y \in U /\ z \in U
        BY <2>3, <3>1 DEF NamesOK, Tree
      <3>2. CASE y \in B \/ z \in B
        BY <1>3, <1>4, <2>3, <3>2
      <3> QED
        BY <2>3, <3>1, <3>2
    <2>4. ASSUME NEW y \in V, IsName(y)
          PROVE  InTree(V, L, Dir(y)) /\ Ino(y) # Root /\ L[Ino(y)] # "none"
      BY <1>1, <1>3, <1>5, <2>2, <2>4 DEF NamesOK, Tree
    <2>5. ASSUME NEW y \in V, NEW z \in V, IsName(y), IsName(z), Ino(y) = Ino(z),
                 L[Ino(y)] = "dir"
          PROVE  y = z
      BY <1>1, <1>3, <1>4, <2>2, <2>5 DEF NamesOK, Tree
    <2> QED
      BY <2>1, <2>2, <2>3, <2>4, <2>5 DEF NamesOK
  <1>8. DotsOK(V, L, h)
    <2>2. \A y \in V : Nm(y) = "." => h /\ y = Dot(Dir(y))
      BY <1>3 DEF Tree, DotsOK
    <2>3. \A y \in V : Nm(y) = ".." => h /\ y = DotUp(Dir(y), Ino(y))
      BY <1>3 DEF Tree, DotsOK
    <2> QED
      BY <1>2, <1>5, <2>2, <2>3 DEF Tree, DotsOK
  <1>9. RootAbove(V, L)
    BY <1>2, <1>5 DEF Tree, RootAbove
  <1> QED
    BY <1>4, <1>5, <1>7, <1>8, <1>9 DEF Tree

\* A name of a file goes.
LEMMA LeaveFile ==
    ASSUME NEW U, NEW K, NEW h, Tree(U, K, h), NEW x \in U, IsName(x), K[Ino(x)] # "dir"
    PROVE  /\ Tree(U \ {x}, K, h)
           /\ \A j \in Inodes : InTree(U \ {x}, K, j) <=> InTree(U, K, j)
  <1> DEFINE V == U \ {x}
  <1>1. \A p, j : Over(U, p, j) /\ K[j] = "dir" => Over(V, p, j)
    BY DEF Over
  <1>2. ASSUME NEW j \in Inodes PROVE InTree(V, K, j) <=> InTree(U, K, j)
    BY DEF InTree, Named
  <1>3. NamesOK(V, K)
    BY <1>2 DEF Tree, NamesOK
  <1>4. DotsOK(V, K, h)
    <2>1. Nm(x) \notin {".", ".."}
      BY DirectoryAssumption DEF IsName
    <2>2. \A j : Dot(j) # x /\ \A p : DotUp(j, p) # x
      BY <2>1, DotIs
    <2>3. \A y \in V : Nm(y) = "." => h /\ y = Dot(Dir(y))
      BY DEF Tree, DotsOK
    <2>4. \A y \in V : Nm(y) = ".." => h /\ y = DotUp(Dir(y), Ino(y))
      BY DEF Tree, DotsOK
    <2>5. ASSUME NEW j \in Inodes, h, InTree(V, K, j)
          PROVE  /\ Dot(j) \in V
                 /\ \E p \in Inodes : DotUp(j, p) \in V /\ IF j = Root THEN p = Root ELSE Over(V, p, j)
      <3>1. InTree(U, K, j) /\ K[j] = "dir"
        BY <1>2, <2>5 DEF InTree
      <3> QED
        BY <1>1, <2>2, <2>5, <3>1 DEF Tree, DotsOK
    <2> QED
      BY <2>3, <2>4, <2>5 DEF DotsOK
  <1>5. RootAbove(V, K)
    <2> SUFFICES ASSUME NEW j \in Inodes, InTree(V, K, j),
                        NEW C \in SUBSET (Inodes \ {Root}), j \in C
                 PROVE  \E c \in C, p \in Inodes \ C : Over(V, p, c)
      BY DEF RootAbove
    <2> DEFINE D == { c \in C : K[c] = "dir" }
    <2>1. InTree(U, K, j) /\ j \in D /\ D \in SUBSET (Inodes \ {Root})
      BY <1>2 DEF InTree
    <2>2. PICK c \in D, p \in Inodes \ D : Over(U, p, c)
      BY <2>1 DEF Tree, RootAbove
    <2>3. K[p] = "dir"
      BY <2>2 DEF Over, Tree, NamesOK
    <2> QED
      BY <1>1, <2>2, <2>3
  <1> QED
    BY <1>2, <1>3, <1>4, <1>5 DEF Tree

\* The name of a directory without names goes.
LEMMA LeaveDir ==
    ASSUME NEW U, NEW K, NEW h, Tree(U, K, h), NEW x \in U, IsName(x), K[Ino(x)] = "dir",
           \A y \in U : Dir(y) = Ino(x) => ~IsName(y)
    PROVE  /\ Tree(U \ {x}, K, h)
           /\ \A j \in Inodes : InTree(U \ {x}, K, j) <=> InTree(U, K, j) /\ j # Ino(x)
  <1> DEFINE V == U \ {x}
             i == Ino(x)
  <1>0. i \in Inodes /\ i # Root
    BY DEF Tree, NamesOK
  <1>1. \A p, j : Over(U, p, j) /\ j # i => Over(V, p, j)
    BY DEF Over
  <1>6. \A y \in U : IsName(y) /\ Ino(y) = i => y = x
    BY DEF Tree, NamesOK
  <1>2. ASSUME NEW j \in Inodes PROVE InTree(V, K, j) <=> InTree(U, K, j) /\ j # i
    BY <1>0, <1>6 DEF InTree, Named
  <1>3. NamesOK(V, K)
    <2>1. \A y \in V : IsName(y) => InTree(V, K, Dir(y)) /\ Ino(y) # Root /\ K[Ino(y)] # "none"
      BY <1>2 DEF Tree, NamesOK
    <2> QED
      BY <2>1 DEF Tree, NamesOK
  <1>4. DotsOK(V, K, h)
    <2>1. Nm(x) \notin {".", ".."}
      BY DirectoryAssumption DEF IsName
    <2>2. \A j : Dot(j) # x /\ \A p : DotUp(j, p) # x
      BY <2>1, DotIs
    <2>3. \A y \in V : Nm(y) = "." => h /\ y = Dot(Dir(y))
      BY DEF Tree, DotsOK
    <2>4. \A y \in V : Nm(y) = ".." => h /\ y = DotUp(Dir(y), Ino(y))
      BY DEF Tree, DotsOK
    <2>5. ASSUME NEW j \in Inodes, h, InTree(V, K, j)
          PROVE  /\ Dot(j) \in V
                 /\ \E p \in Inodes : DotUp(j, p) \in V /\ IF j = Root THEN p = Root ELSE Over(V, p, j)
      <3>1. InTree(U, K, j) /\ j # i
        BY <1>2, <2>5
      <3> QED
        BY <1>1, <2>2, <2>5, <3>1 DEF Tree, DotsOK
    <2> QED
      BY <2>3, <2>4, <2>5 DEF DotsOK
  <1>5. RootAbove(V, K)
    <2> SUFFICES ASSUME NEW j \in Inodes, InTree(V, K, j),
                        NEW C \in SUBSET (Inodes \ {Root}), j \in C
                 PROVE  \E c \in C, p \in Inodes \ C : Over(V, p, c)
      BY DEF RootAbove
    <2> DEFINE D == C \ {i}
    <2>1. InTree(U, K, j) /\ j \in D /\ D \in SUBSET (Inodes \ {Root})
      BY <1>2
    <2>2. PICK c \in D, p \in Inodes \ D : Over(U, p, c)
      BY <2>1 DEF Tree, RootAbove
    <2>3. p # i
      BY <2>2 DEF Over
    <2> QED
      BY <1>1, <2>2, <2>3
  <1> QED
    BY <1>2, <1>3, <1>4, <1>5 DEF Tree

MayFree(K, L, i) == L = K \/ Becomes(K, L, i, "none")

\* What has no name loses its entries, and may become free.
LEMMA Clear ==
    ASSUME NEW U, NEW K, NEW h, Tree(U, K, h), NEW i \in Inodes, i # Root, ~Named(U, i), NEW L,
           MayFree(K, L, i)
    PROVE  /\ Tree({ x \in U : Dir(x) # i }, L, h)
           /\ \A j \in Inodes : InTree({ x \in U : Dir(x) # i }, L, j) <=> InTree(U, K, j)
           /\ ~InTree(U, K, i)
  <1> DEFINE V == { x \in U : Dir(x) # i }
  <1>1. /\ ~InTree(U, K, i) /\ \A y \in U : IsName(y) => Dir(y) # i /\ Ino(y) # i
    BY DEF InTree, Named, Tree, NamesOK
  <1>2. \A p, j : Over(U, p, j) => Over(V, p, j)
    BY <1>1 DEF Over
  <1>3. \A j \in Inodes : j # i => L[j] = K[j]
    BY DEF MayFree, Becomes
  <1>4. L[i] = "none" \/ L[i] = K[i]
    BY DEF MayFree, Becomes
  <1>5. ASSUME NEW j \in Inodes PROVE InTree(V, L, j) <=> InTree(U, K, j)
    <2>1. Named(V, j) <=> Named(U, j)
      BY <1>1 DEF Named
    <2> QED
      BY <1>1, <1>3, <2>1 DEF InTree
  <1>7. NamesOK(V, L)
    <2>1. L[Root] = "dir"
      BY <1>3, DirectoryAssumption DEF NamesOK, Tree
    <2>2. ASSUME NEW y \in V
          PROVE  /\ Dir(y) \in Inodes /\ Ino(y) \in Inodes
                 /\ L[Dir(y)] = "dir" /\ Nm(y) \in Names \cup {".", ".."}
      BY <1>3 DEF NamesOK, Tree
    <2>4. ASSUME NEW y \in V, IsName(y)
          PROVE  InTree(V, L, Dir(y)) /\ Ino(y) # Root /\ L[Ino(y)] # "none"
      BY <1>1, <1>3, <1>5, <2>2, <2>4 DEF NamesOK, Tree
    <2>5. ASSUME NEW y \in V, NEW z \in V, IsName(y), IsName(z), Ino(y) = Ino(z),
                 L[Ino(y)] = "dir"
          PROVE  y = z
      BY <1>1, <1>3, <2>2, <2>5 DEF NamesOK, Tree
    <2> QED
      BY <2>1, <2>2, <2>4, <2>5 DEF NamesOK, Tree
  <1>8. DotsOK(V, L, h)
    <2>1. ASSUME NEW j \in Inodes, h, InTree(V, L, j)
          PROVE  /\ Dot(j) \in V
                 /\ \E p \in Inodes : DotUp(j, p) \in V /\ IF j = Root THEN p = Root ELSE Over(V, p, j)
      <3>1. InTree(U, K, j) /\ j # i
        BY <1>1, <1>5, <2>1
      <3> QED
        BY <1>2, <2>1, <3>1, DotIs DEF Tree, DotsOK
    <2> QED
      BY <2>1 DEF Tree, DotsOK
  <1>9. RootAbove(V, L)
    BY <1>2, <1>5 DEF Tree, RootAbove
  <1> QED
    BY <1>1, <1>5, <1>7, <1>8, <1>9 DEF Tree

\* ".." of a directory names the one that has its name.
LEMMA DotUpIs ==
    ASSUME NEW U, NEW K, NEW h, Tree(U, K, h), h, NEW x \in U, IsName(x), K[Ino(x)] = "dir"
    PROVE  Dot(Ino(x)) \in U /\ DotUp(Ino(x), Dir(x)) \in U
  <1>1. Ino(x) \in Inodes /\ Ino(x) # Root /\ InTree(U, K, Ino(x))
    BY DEF Tree, NamesOK, InTree, Named
  <1>2. PICK p \in Inodes : DotUp(Ino(x), p) \in U /\ Over(U, p, Ino(x))
    BY <1>1 DEF Tree, DotsOK
  <1>3. p = Dir(x)
    BY <1>2 DEF Tree, NamesOK, Over
  <1> QED
    BY <1>1, <1>2, <1>3 DEF Tree, DotsOK

\* The entries when a directory has moved: x is its name before, z after.
Moved(U, h, x, z) ==
    (U \ ({x} \cup UpOf(h, Ino(x), Dir(x)))) \cup {z} \cup UpOf(h, Ino(x), Dir(z))

\* No way up leads out of A.
Closed(U, A) == \A c \in A, p \in Inodes \ A : ~Over(U, p, c)

\* A directory moves.  The directory of z is not below it:
\* all ways up from there stay in a set without it.
LEMMA MoveDir ==
    ASSUME NEW U, NEW K, NEW h \in BOOLEAN, Tree(U, K, h),
           NEW x \in U, IsName(x), K[Ino(x)] = "dir",
           NEW z, IsName(z), Ino(z) = Ino(x), InTree(U, K, Dir(z)), Dir(z) \in Inodes,
           \A y \in U : ~(Dir(y) = Dir(z) /\ Nm(y) = Nm(z)),
           NEW A \in SUBSET (Inodes \ {Ino(x)}), Dir(z) \in A,
           Closed(U, A)
    PROVE  /\ Tree(Moved(U, h, x, z), K, h)
           /\ \A j \in Inodes : InTree(Moved(U, h, x, z), K, j) <=> InTree(U, K, j)
  <1> DEFINE W == UpOf(h, Ino(x), Dir(x))
             X == UpOf(h, Ino(x), Dir(z))
             V == (U \ ({x} \cup W)) \cup {z} \cup X
             i == Ino(x)
             d == Dir(x)
             e == Dir(z)
  <1>1. /\ i \in Inodes /\ i # Root /\ d \in Inodes /\ InTree(U, K, i) /\ K[i] # "none"
        /\ \A y \in U : IsName(y) /\ Ino(y) = i => y = x
    BY DEF Tree, NamesOK, InTree, Named
  <1>2. e # i
    OBVIOUS
  <1>3. /\ \A y \in W : Dir(y) = i /\ ~IsName(y) /\ Nm(y) = ".."
        /\ \A y \in X : Dir(y) = i /\ ~IsName(y) /\ Nm(y) = ".." /\ Ino(y) = e /\ h
                        /\ y = DotUp(i, e)
    BY DotIs DEF UpOf
  <1>4. \A p, j : Over(U, p, j) /\ j # i => Over(V, p, j)
    BY <1>3 DEF Over
  <1>5. Over(V, e, i)
    BY DEF Over
  <1>6. ASSUME NEW j \in Inodes PROVE InTree(V, K, j) <=> InTree(U, K, j)
    <2>1. CASE j = i
      BY <1>1, <2>1 DEF InTree, Named
    <2>2. CASE j # i
      <3>1. Named(V, j) <=> Named(U, j)
        BY <1>3, <2>2 DEF Named
      <3> QED
        BY <3>1 DEF InTree
    <2> QED
      BY <2>1, <2>2
  <1>7. \A y \in U : Dir(y) = i /\ Nm(y) = ".." => y \in W
    <2> SUFFICES ASSUME NEW y \in U, Dir(y) = i, Nm(y) = ".." PROVE y \in W
      OBVIOUS
    <2>1. h
      BY DEF Tree, DotsOK
    <2>2. DotUp(i, d) \in U
      BY <2>1, DotUpIs
    <2>3. y = DotUp(i, d)
      BY <2>2, DotIs DEF Tree, NamesOK
    <2> QED
      BY <2>1, <2>3 DEF UpOf
  <1>8. NamesOK(V, K)
    <2>2. ASSUME NEW y \in V
          PROVE  /\ Dir(y) \in Inodes /\ Ino(y) \in Inodes
                 /\ K[Dir(y)] = "dir" /\ Nm(y) \in Names \cup {".", ".."}
      <3>1. CASE y \in U
        BY <3>1 DEF NamesOK, Tree
      <3>2. CASE y = z
        BY <1>1, <3>2 DEF IsName, InTree
      <3>3. CASE y \in X
        BY <1>1, <1>3, <3>3
      <3> QED
        BY <3>1, <3>2, <3>3
    <2>3. ASSUME NEW y \in V, NEW c \in V, Dir(y) = Dir(c), Nm(y) = Nm(c) PROVE y = c
      <3>1. CASE y \in U /\ c \in U
        BY <2>3, <3>1 DEF NamesOK, Tree
      <3>2. CASE y \in X \/ c \in X
        BY <1>2, <1>3, <1>7, <2>3, <3>2
      <3> QED
        BY <2>3, <3>1, <3>2
    <2>4. ASSUME NEW y \in V, IsName(y)
          PROVE  InTree(V, K, Dir(y)) /\ Ino(y) # Root /\ K[Ino(y)] # "none"
      BY <1>1, <1>3, <1>6, <2>2, <2>4 DEF NamesOK, Tree
    <2>5. ASSUME NEW y \in V, NEW c \in V, IsName(y), IsName(c), Ino(y) = Ino(c),
                 K[Ino(y)] = "dir"
          PROVE  y = c
      <3>1. y \in (U \ {x}) \cup {z} /\ c \in (U \ {x}) \cup {z}
        BY <1>3, <2>5
      <3>2. CASE y \in U /\ c \in U
        BY <2>5, <3>2 DEF NamesOK, Tree
      <3> QED
        BY <1>1, <2>5, <3>1, <3>2
    <2> QED
      BY <2>2, <2>3, <2>4, <2>5 DEF NamesOK, Tree
  <1>9. DotsOK(V, K, h)
    <2>1. Nm(x) \notin {".", ".."} /\ Nm(z) \notin {".", ".."}
      BY DirectoryAssumption DEF IsName
    <2>2. \A j : Dot(j) # x /\ Dot(j) \notin W
      BY <1>3, <2>1, DotIs
    <2>3. \A j, p : j # i => DotUp(j, p) # x /\ DotUp(j, p) \notin W
      BY <1>3, <2>1, DotIs
    <2>4. \A y \in V : Nm(y) = "." => h /\ y = Dot(Dir(y))
      BY <1>3, <2>1 DEF Tree, DotsOK
    <2>5. \A y \in V : Nm(y) = ".." => h /\ y = DotUp(Dir(y), Ino(y))
      BY <1>3, <2>1 DEF Tree, DotsOK
    <2>6. ASSUME NEW j \in Inodes, h, InTree(V, K, j)
          PROVE  /\ Dot(j) \in V
                 /\ \E p \in Inodes : DotUp(j, p) \in V /\ IF j = Root THEN p = Root ELSE Over(V, p, j)
      <3>1. Dot(j) \in V
        BY <1>6, <2>2, <2>6 DEF Tree, DotsOK
      <3>2. CASE j = i
        BY <1>1, <1>5, <2>6, <3>1, <3>2 DEF UpOf
      <3>3. CASE j # i
        BY <1>4, <1>6, <2>3, <2>6, <3>1, <3>3 DEF Tree, DotsOK
      <3> QED
        BY <3>2, <3>3
    <2> QED
      BY <2>4, <2>5, <2>6 DEF DotsOK
  <1>10. RootAbove(V, K)
    <2> SUFFICES ASSUME NEW j \in Inodes, InTree(V, K, j),
                        NEW C \in SUBSET (Inodes \ {Root}), j \in C
                 PROVE  \E c \in C, p \in Inodes \ C : Over(V, p, c)
      BY DEF RootAbove
    <2>1. PICK c \in C, p \in Inodes \ C : Over(U, p, c)
      BY <1>6 DEF Tree, RootAbove
    <2>2. CASE c # i
      BY <1>4, <2>1, <2>2
    <2>3. CASE c = i /\ e \notin C
      BY <1>5, <2>1, <2>3
    <2>4. CASE c = i /\ e \in C
      <3>1. C \cap A \in SUBSET (Inodes \ {Root}) /\ e \in C \cap A
        BY <2>4
      <3>2. PICK b \in C \cap A, q \in Inodes \ (C \cap A) : Over(U, q, b)
        BY <3>1 DEF Tree, RootAbove
      <3>3. q \in A /\ q \notin C
        BY <3>2 DEF Closed
      <3> QED
        BY <1>4, <3>2, <3>3
    <2> QED
      BY <2>2, <2>3, <2>4
  <1> QED
    BY <1>6, <1>8, <1>9, <1>10 DEF Tree, Moved

-----------------------------------------------------------------------------
(* What Directory says, and the entries                                     *)

\* The tree is in order; there may be too many or too few links.
Sane == slots \in Files /\ Tree(Used, kind, has_dots)

LEMMA OverIs ==
    ASSUME Sane
    PROVE  /\ \A p, i \in Inodes : ParentOf(p, i) <=> Over(Used, p, i)
           /\ \A i \in Inodes : HasName(i) <=> Named(Used, i)
           /\ \A d \in Inodes : Live(d) <=> InTree(Used, kind, d)
  <1> USE DEF Sane
  <1>1. ASSUME NEW p \in Inodes, NEW i \in Inodes, ParentOf(p, i) PROVE Over(Used, p, i)
    <2>1. PICK k \in DOMAIN slots[p] : slots[p][k].ino = i /\ ~IsDot(slots[p][k])
      BY <1>1 DEF ParentOf
    <2>2. InUse(slots[p][k])
      BY <2>1, DirectoryAssumption DEF InUse
    <2>3. PICK x \in Used : x = <<p, slots[p][k], k>>
      BY <2>2, AllThere DEF Used
    <2>4. Dir(x) = p /\ Ino(x) = i /\ Nm(x) \notin {".", ".."}
      BY <2>1, <2>3 DEF Dir, Ino, Nm, IsDot
    <2>5. IsName(x)
      BY <2>4 DEF IsName, Tree, NamesOK
    <2> QED
      BY <2>4, <2>5 DEF Over
  <1>2. ASSUME NEW p \in Inodes, NEW i \in Inodes, Over(Used, p, i) PROVE ParentOf(p, i)
    <2>1. PICK x \in Used : IsName(x) /\ Dir(x) = p /\ Ino(x) = i
      BY <1>2 DEF Over
    <2>2. x[3] \in DOMAIN slots[p] /\ x[2] = slots[p][x[3]]
      BY <2>1, AllHas DEF Used
    <2>3. slots[p][x[3]].ino = i /\ ~IsDot(slots[p][x[3]])
      BY <2>1, <2>2, DirectoryAssumption DEF Ino, Nm, IsName, IsDot
    <2> QED
      BY <2>2, <2>3 DEF ParentOf
  <1>3. ASSUME NEW i \in Inodes PROVE HasName(i) <=> Named(Used, i)
    <2>1. Named(Used, i) <=> \E p \in Inodes : Over(Used, p, i)
      BY DEF Named, Over, Tree, NamesOK
    <2> QED
      BY <1>1, <1>2, <2>1 DEF HasName
  <1> QED
    BY <1>1, <1>2, <1>3 DEF Live, InTree

LEMMA FoundIs ==
    ASSUME slots \in Files, NEW d \in Inodes, NEW n \in Names
    PROVE  /\ Found(d, n) => \E x \in Used : /\ Dir(x) = d /\ Nm(x) = n /\ IsName(x)
                                             /\ Ino(x) = Lookup(d, n) /\ x[3] = At(d, n)
                                             /\ Ino(x) \in Inodes /\ Ino(x) # Free
           /\ ~Found(d, n) => /\ Lookup(d, n) = Free
                              /\ \A y \in Used : ~(Dir(y) = d /\ Nm(y) = n)
  <1> DEFINE M == Match(d, n)
             k == First(M)
  <1>1. M \in SUBSET Nat /\ M = { j \in DOMAIN slots[d] : InUse(slots[d][j]) /\ slots[d][j].name = n }
    BY DEF Files, Match
  <1>2. Found(d, n) <=> M # {}
    BY <1>1 DEF Found
  <1> HIDE DEF M
  <1>3. ASSUME Found(d, n)
        PROVE  \E x \in Used : /\ Dir(x) = d /\ Nm(x) = n /\ IsName(x)
                               /\ Ino(x) = Lookup(d, n) /\ x[3] = At(d, n)
                               /\ Ino(x) \in Inodes /\ Ino(x) # Free
    <2>1. k \in M
      BY <1>1, <1>2, <1>3, FirstOf
    <2> HIDE DEF k
    <2>2. k \in DOMAIN slots[d] /\ InUse(slots[d][k]) /\ slots[d][k].name = n
      BY <1>1, <2>1
    <2>3. PICK x \in Used : x = <<d, slots[d][k], k>>
      BY <2>2, AllThere DEF Used
    <2>4. Lookup(d, n) = slots[d][k].ino /\ At(d, n) = k
      BY <1>2, <1>3 DEF Lookup, At, M, k
    <2>5. Dir(x) = d /\ Nm(x) = n /\ Ino(x) = Lookup(d, n) /\ x[3] = At(d, n)
      BY <2>2, <2>3, <2>4 DEF Dir, Nm, Ino
    <2>6. Ino(x) \in Inodes /\ Ino(x) # Free
      BY AllHas, DirectoryAssumption DEF Used
    <2> QED
      BY <2>5, <2>6 DEF IsName
  <1>4. ASSUME ~Found(d, n) PROVE Lookup(d, n) = Free
    BY <1>2, <1>4 DEF Lookup, M
  <1>5. ASSUME ~Found(d, n), NEW y \in Used PROVE ~(Dir(y) = d /\ Nm(y) = n)
    <2>1. PICK c, j : c \in Inodes /\ j \in DOMAIN slots[c] /\ InUse(slots[c][j]) /\ y = <<c, slots[c][j], j>>
      BY AllIs DEF Used
    <2> QED
      BY <1>5, <2>1 DEF Found, Dir, Nm
  <1> QED
    BY <1>3, <1>4, <1>5

LEMMA EmptyIs ==
    ASSUME Sane, NEW i \in Inodes
    PROVE  IsEmpty(slots[i]) <=> \A y \in Used : Dir(y) = i => ~IsName(y)
  <1> USE DEF Sane
  <1>1. ASSUME IsEmpty(slots[i]), NEW y \in Used, Dir(y) = i PROVE ~IsName(y)
    <2>1. PICK c, j : c \in Inodes /\ j \in DOMAIN slots[c] /\ InUse(slots[c][j]) /\ y = <<c, slots[c][j], j>>
      BY AllIs DEF Used
    <2>2. IsDot(slots[c][j])
      BY <1>1, <2>1 DEF IsEmpty, Dir
    <2> QED
      BY <2>1, <2>2, DirectoryAssumption DEF IsDot, IsName, Nm
  <1>2. ASSUME \A y \in Used : Dir(y) = i => ~IsName(y) PROVE IsEmpty(slots[i])
    <2> SUFFICES ASSUME NEW k \in DOMAIN slots[i], InUse(slots[i][k]) PROVE IsDot(slots[i][k])
      BY DEF IsEmpty
    <2>1. PICK x \in Used : x = <<i, slots[i][k], k>>
      BY AllThere DEF Used
    <2>2. Dir(x) = i /\ Nm(x) = slots[i][k].name
      BY <2>1 DEF Dir, Nm
    <2>3. Nm(x) \in {".", ".."}
      BY <1>2, <2>2 DEF Tree, NamesOK, IsName
    <2> QED
      BY <2>2, <2>3 DEF IsDot
  <1> QED
    BY <1>1, <1>2

LEMMA BelowIs ==
    ASSUME Sane, NEW e \in Inodes, NEW i \in Inodes, ~Below(e, i)
    PROVE  \E A \in SUBSET (Inodes \ {i}) :
              e \in A /\ Closed(Used, A)
  BY OverIs DEF Below, Closed

-----------------------------------------------------------------------------
(* What a step does to the entries                                          *)

LEMMA AddLinkIn ==
    ASSUME NEW t \in Seq(Slot), NEW i \in Inodes, NEW n \in Names
    PROVE  AddLink(t, n, i) \in Seq(Slot)
  <1>1. Vacancy(t) \in 1 .. Len(t) + 1
    BY Vacant
  <1>2. DE(i, n) \in Slot
    BY EntryIs
  <1> QED
    BY <1>1, <1>2, PutIs DEF AddLink

LEMMA RoomIs ==
    ASSUME has_dots \in BOOLEAN, slots \in Files, NEW d \in Inodes, HasRoom(d)
    PROVE  Vacancy(slots[d]) <= Room + 2
  <1>1. Len(Dots(d, d)) = 2 \/ Len(Dots(d, d)) = 0
    BY DEF Dots
  <1>2. Vacancy(slots[d]) \in Nat
    <2>1. slots[d] \in Seq(Slot)
      BY DEF Files
    <2> QED
      BY <2>1, Vacant
  <1>3. Vacancy(slots[d]) <= Room + Len(Dots(d, d)) /\ Room \in Nat
    BY DirectoryAssumption DEF HasRoom
  <1>4. CASE Len(Dots(d, d)) = 2
    BY <1>2, <1>3, <1>4
  <1>5. CASE Len(Dots(d, d)) = 0
    BY <1>2, <1>3, <1>5
  <1> QED
    BY <1>1, <1>4, <1>5

\* A name is added.
LEMMA AddStep ==
    ASSUME slots \in Files, Short(slots), has_dots \in BOOLEAN,
           NEW d \in Inodes, NEW i \in Inodes, NEW n \in Names, HasRoom(d)
    PROVE  \E x : /\ IsName(x) /\ Dir(x) = d /\ Ino(x) = i /\ Nm(x) = n /\ x \notin Used
                  /\ [slots EXCEPT ![d] = AddLink(slots[d], n, i)] \in Files
                  /\ Short([slots EXCEPT ![d] = AddLink(slots[d], n, i)])
                  /\ All([slots EXCEPT ![d] = AddLink(slots[d], n, i)]) = Used \cup {x}
  <1>1. PICK r : r = [slots EXCEPT ![d] = AddLink(slots[d], n, i)]
    OBVIOUS
  <1>2. Turns(slots, r, d, AddLink(slots[d], n, i))
    <2>1. AddLink(slots[d], n, i) \in Seq(Slot)
      BY AddLinkIn DEF Files
    <2> QED
      BY <1>1, <2>1, ExceptTurns
  <1>3. PICK v \in Nat \ {0} :
              /\ v = Vacancy(slots[d])
              /\ r \in Files /\ All(r) = All(slots) \cup {<<d, DE(i, n), v>>}
              /\ \A x \in All(slots) : ~(Dir(x) = d /\ x[3] = v)
              /\ Short(slots) /\ v <= Room + 2 => Short(r)
    BY <1>2, AddIs
  <1>4. PICK x : x = <<d, DE(i, n), v>>
    OBVIOUS
  <1>5. Dir(x) = d /\ Ino(x) = i /\ Nm(x) = n /\ x[3] = v
    BY <1>4, ItemIs
  <1>6. x \notin Used
    BY <1>3, <1>5 DEF Used
  <1>7. Short(r)
    BY <1>3, RoomIs
  <1>8. IsName(x)
    BY <1>5 DEF IsName
  <1> QED
    BY <1>1, <1>3, <1>4, <1>5, <1>6, <1>7, <1>8 DEF Used

\* An entry is marked as deleted.
LEMMA LeaveStep ==
    ASSUME NEW s \in Files, NEW x \in All(s)
    PROVE  /\ [s EXCEPT ![Dir(x)][x[3]] = Deleted] \in Files
           /\ Short(s) => Short([s EXCEPT ![Dir(x)][x[3]] = Deleted])
           /\ All([s EXCEPT ![Dir(x)][x[3]] = Deleted]) = All(s) \ {x}
  <1>1. PICK r : r = [s EXCEPT ![Dir(x)][x[3]] = Deleted]
    OBVIOUS
  <1>2. PICK d \in Inodes, k \in Nat \ {0} : d = Dir(x) /\ k = x[3] /\ k \in DOMAIN s[d]
    BY AllHas
  <1>3. s[d] \in Seq(Slot)
    BY DEF Files
  <1>4. [s[d] EXCEPT ![k] = Deleted] \in Seq(Slot)
    BY <1>2, <1>3, DeletedIs
  <1>5. Turns(s, r, d, [s[d] EXCEPT ![k] = Deleted])
    <2>1. r = [s EXCEPT ![d] = [s[d] EXCEPT ![k] = Deleted]]
      BY <1>1, <1>2
    <2> QED
      BY <1>4, <2>1, ExceptTurns
  <1> QED
    BY <1>1, <1>2, <1>5, DeleteIs

\* An entry gets another number.
LEMMA SetStep ==
    ASSUME NEW s \in Files, NEW x \in All(s), NEW i \in Inodes \cup {Free}
    PROVE  /\ [s EXCEPT ![Dir(x)][x[3]].ino = i] \in Files
           /\ Short(s) => Short([s EXCEPT ![Dir(x)][x[3]].ino = i])
           /\ All([s EXCEPT ![Dir(x)][x[3]].ino = i])
                = (All(s) \ {x}) \cup (IF i = Free THEN {} ELSE {<<Dir(x), DE(i, Nm(x)), x[3]>>})
  <1>1. PICK r : r = [s EXCEPT ![Dir(x)][x[3]].ino = i]
    OBVIOUS
  <1>2. PICK d \in Inodes, k \in Nat \ {0} : d = Dir(x) /\ k = x[3] /\ k \in DOMAIN s[d]
    BY AllHas
  <1>3. s[d] \in Seq(Slot)
    BY DEF Files
  <1>6. s[d][k] \in Slot
    BY <1>2, <1>3
  <1>7. [s[d][k] EXCEPT !.ino = i] \in Slot
    BY <1>6 DEF Slot
  <1>8. [s[d] EXCEPT ![k].ino = i] = [s[d] EXCEPT ![k] = [s[d][k] EXCEPT !.ino = i]]
    OBVIOUS
  <1>4. [s[d] EXCEPT ![k].ino = i] \in Seq(Slot)
    BY <1>2, <1>3, <1>7, <1>8
  <1>5. Turns(s, r, d, [s[d] EXCEPT ![k].ino = i])
    <2>1. r = [s EXCEPT ![d] = [s[d] EXCEPT ![k].ino = i]]
      BY <1>1, <1>2
    <2> QED
      BY <1>4, <2>1, ExceptTurns
  <1>9. Turns(s, r, Dir(x), [s[Dir(x)] EXCEPT ![x[3]].ino = i])
    BY <1>2, <1>5
  <1>10. /\ r \in Files /\ (Short(s) => Short(r))
         /\ All(r) = (All(s) \ {x})
                     \cup (IF i = Free THEN {} ELSE {<<Dir(x), DE(i, Nm(x)), x[3]>>})
    BY <1>9, SetIs
  <1> QED
    BY <1>1, <1>10

\* A directory file is cleared.
LEMMA ClearStep ==
    ASSUME NEW s \in Files, NEW i \in Inodes
    PROVE  /\ [s EXCEPT ![i] = <<>>] \in Files
           /\ Short(s) => Short([s EXCEPT ![i] = <<>>])
           /\ All([s EXCEPT ![i] = <<>>]) = { x \in All(s) : Dir(x) # i }
  <1>1. PICK t \in Seq(Slot) : t = <<>>
    <2>1. <<>> \in Seq(Slot)
      OBVIOUS
    <2> QED
      BY <2>1
  <1>2. PICK r : r = [s EXCEPT ![i] = t]
    OBVIOUS
  <1>3. Turns(s, r, i, <<>>)
    BY <1>1, <1>2, ExceptTurns
  <1> QED
    BY <1>1, <1>2, <1>3, ClearIs

-----------------------------------------------------------------------------
(* The invariant is kept                                                    *)

LEMMA FilesIn ==
    ASSUME NEW s \in Files
    PROVE  \A d \in Inodes : \A k \in DOMAIN s[d] : s[d][k] \in Slot
  BY DEF Files

\* What holds before a step.
LEMMA Before ==
    ASSUME DirInv, sound
    PROVE  /\ Sane /\ Tree(Used, kind, has_dots) /\ slots \in Files /\ Short(slots)
           /\ kind \in [Inodes -> {"none", "file", "dir"}] /\ has_dots \in BOOLEAN
           /\ nlink \in [Inodes -> Nat] /\ i_nlink \in [Inodes -> Nat]
           /\ \A i \in Inodes : CountOK(RefsTo(Used, kind, i), i)
           /\ \A d \in Inodes : Live(d) => InTree(Used, kind, d)
  BY OverIs DEF DirInv, TypeOK, TreeInv, Sane, Short

LEMMA AddNext ==
    ASSUME slots \in Files, Short(slots), has_dots \in BOOLEAN,
           NEW d \in Inodes, NEW i \in Inodes, NEW n \in Names, HasRoom(d),
           slots' = [slots EXCEPT ![d] = AddLink(slots[d], n, i)]
    PROVE  \E x : /\ IsName(x) /\ Dir(x) = d /\ Ino(x) = i /\ Nm(x) = n /\ x \notin Used
                  /\ slots' \in Files /\ Short(slots') /\ Used' = Used \cup {x}
  <1>1. \E x : /\ IsName(x) /\ Dir(x) = d /\ Ino(x) = i /\ Nm(x) = n /\ x \notin Used
               /\ [slots EXCEPT ![d] = AddLink(slots[d], n, i)] \in Files
               /\ Short([slots EXCEPT ![d] = AddLink(slots[d], n, i)])
               /\ All([slots EXCEPT ![d] = AddLink(slots[d], n, i)]) = Used \cup {x}
    BY AddStep
  <1> QED
    BY <1>1 DEF Used

LEMMA CreateKeeps ==
    ASSUME DirInv, sound, NEW d \in Inodes, NEW n \in Names, NEW i \in Inodes,
           Live(d), ~Found(d, n), Create(d, n, i)
    PROVE  DirInv'
  <1>0. /\ kind[i] = "none" /\ HasRoom(d)
        /\ kind' = [kind EXCEPT ![i] = "file"]
        /\ slots' = [slots EXCEPT ![d] = AddLink(slots[d], n, i)]
        /\ nlink' = [nlink EXCEPT ![i] = 1, ![d] = i_nlink[d]]
        /\ i_nlink' = [i_nlink EXCEPT ![i] = 1]
        /\ UNCHANGED <<opened, has_dots, sound, clean>>
    BY DEF Create
  <1>1. /\ Sane /\ Tree(Used, kind, has_dots) /\ slots \in Files /\ Short(slots)
        /\ kind \in [Inodes -> {"none", "file", "dir"}] /\ has_dots \in BOOLEAN
        /\ nlink \in [Inodes -> Nat] /\ i_nlink \in [Inodes -> Nat]
        /\ \A j \in Inodes : CountOK(RefsTo(Used, kind, j), j)
        /\ InTree(Used, kind, d)
    BY Before
  <1>2. PICK x : /\ IsName(x) /\ Dir(x) = d /\ Ino(x) = i /\ Nm(x) = n /\ x \notin Used
                 /\ slots' \in Files /\ Short(slots') /\ Used' = Used \cup {x}
    BY ZenonT(60), <1>0, <1>1, AddNext
  <1>3. \A y \in Used : ~(Dir(y) = d /\ Nm(y) = n)
    BY <1>1, FoundIs
  <1>4. Becomes(kind, kind', i, "file")
    BY <1>0, <1>1 DEF Becomes
  <1>5. /\ Tree(Used \cup {x}, kind', has_dots)
        /\ \A j \in Inodes : InTree(Used \cup {x}, kind', j) <=> InTree(Used, kind, j)
    BY <1>0, <1>1, <1>2, <1>3, <1>4, EnterFile
  <1>6. \A j \in Inodes : RefsTo(Used', kind', j) = RefsTo(Used, kind, j) \cup (IF j = i THEN {x} ELSE {})
    <2>1. \A y \in Used : Dir(y) \in Inodes
      BY <1>1 DEF Tree, NamesOK
    <2> QED
      BY <1>1, <1>2, <1>5, <2>1 DEF RefsTo
  <1>7. ASSUME NEW j \in Inodes PROVE CountOK(RefsTo(Used, kind, j), j)'
    <2>1. CASE j = i
      <3>1. RefsTo(Used, kind, i) = {}
        BY <1>0, <1>1, Apart DEF RefsTo
      <3>2. RefsTo(Used', kind', i) = {x}
        BY <1>6, <3>1
      <3>3. nlink'[i] = 1 /\ i_nlink'[i] = 1
        BY <1>0, <1>1 DEF InTree
      <3>4. IsFiniteSet({x}) /\ Cardinality({x}) = 1
        BY FS_Singleton
      <3> QED
        BY <2>1, <3>2, <3>3, <3>4 DEF CountOK
    <2>2. CASE j # i
      <3>1. RefsTo(Used', kind', j) = RefsTo(Used, kind, j)
        BY <1>6, <2>2
      <3>2. nlink'[j] = (IF j = d THEN i_nlink[d] ELSE nlink[j]) /\ i_nlink'[j] = i_nlink[j]
            /\ kind'[j] = kind[j] /\ (j = d => kind[j] = "dir")
        BY <1>0, <1>1, <2>2 DEF InTree
      <3>3. CountOK(RefsTo(Used, kind, j), j) /\ clean' = clean
        BY <1>0, <1>1
      <3> QED
        BY <3>1, <3>2, <3>3 DEF CountOK
    <2> QED
      BY <2>1, <2>2
  <1>8. TypeOK'
    <2>1. kind' \in [Inodes -> {"none", "file", "dir"}]
      BY <1>0, <1>1
    <2>2. nlink' \in [Inodes -> Nat] /\ i_nlink' \in [Inodes -> Nat]
      BY <1>0, <1>1
    <2> QED
      BY <1>0, <1>2, <2>1, <2>2, FilesIn DEF TypeOK, DirInv, Short
  <1> QED
    BY <1>0, <1>2, <1>5, <1>7, <1>8 DEF DirInv, TreeInv

LEMMA LinkKeeps ==
    ASSUME DirInv, sound, NEW d \in Inodes, NEW n \in Names, NEW i \in Inodes,
           Live(d), ~Found(d, n), Link(d, n, i)
    PROVE  DirInv'
  <1>0. /\ HasRoom(d) /\ kind[i] = "file"
        /\ slots' = [slots EXCEPT ![d] = AddLink(slots[d], n, i)]
        /\ nlink' = [nlink EXCEPT ![i] = nlink[i] + 1, ![d] = i_nlink[d]]
        /\ i_nlink' = [i_nlink EXCEPT ![i] = nlink[i] + 1]
        /\ UNCHANGED <<kind, opened, has_dots, sound, clean>>
    BY DEF Link
  <1>1. /\ Sane /\ Tree(Used, kind, has_dots) /\ slots \in Files /\ Short(slots)
        /\ kind \in [Inodes -> {"none", "file", "dir"}] /\ has_dots \in BOOLEAN
        /\ nlink \in [Inodes -> Nat] /\ i_nlink \in [Inodes -> Nat]
        /\ \A j \in Inodes : CountOK(RefsTo(Used, kind, j), j)
        /\ InTree(Used, kind, d)
    BY Before
  <1>2. PICK x : /\ IsName(x) /\ Dir(x) = d /\ Ino(x) = i /\ Nm(x) = n /\ x \notin Used
                 /\ slots' \in Files /\ Short(slots') /\ Used' = Used \cup {x}
    BY ZenonT(60), <1>0, <1>1, AddNext
  <1>3. \A y \in Used : ~(Dir(y) = d /\ Nm(y) = n)
    BY <1>1, FoundIs
  <1>4. Becomes(kind, kind, i, "file")
    BY <1>0, <1>1 DEF Becomes
  <1>5. /\ Tree(Used \cup {x}, kind, has_dots)
        /\ \A j \in Inodes : InTree(Used \cup {x}, kind, j) <=> InTree(Used, kind, j)
    BY <1>0, <1>1, <1>2, <1>3, <1>4, EnterFile
  <1>6. \A j \in Inodes : RefsTo(Used', kind', j) = RefsTo(Used, kind, j) \cup (IF j = i THEN {x} ELSE {})
    <2>1. \A y \in Used : Dir(y) \in Inodes
      BY <1>1 DEF Tree, NamesOK
    <2> QED
      BY <1>0, <1>1, <1>2, <1>5, <2>1 DEF RefsTo
  <1>7. ASSUME NEW j \in Inodes PROVE CountOK(RefsTo(Used, kind, j), j)'
    <2>1. CountOK(RefsTo(Used, kind, j), j) /\ clean' = clean /\ kind' = kind
      BY <1>0, <1>1
    <2>2. CASE j = i
      <3>1. RefsTo(Used', kind', i) = RefsTo(Used, kind, i) \cup {x} /\ x \notin RefsTo(Used, kind, i)
        BY <1>2, <1>6 DEF RefsTo
      <3>2. /\ IsFiniteSet(RefsTo(Used', kind', i))
            /\ Cardinality(RefsTo(Used', kind', i)) = Cardinality(RefsTo(Used, kind, i)) + 1
        BY <2>1, <2>2, <3>1, FS_AddElement DEF CountOK
      <3>3. nlink'[i] = nlink[i] + 1 /\ i_nlink'[i] = nlink[i] + 1 /\ nlink[i] \in Nat
        BY <1>0, <1>1 DEF InTree
      <3>4. Cardinality(RefsTo(Used, kind, i)) \in Nat
        BY <2>1, <2>2, FS_CardinalityType DEF CountOK
      <3> QED
        BY <2>1, <2>2, <3>2, <3>3, <3>4 DEF CountOK
    <2>3. CASE j # i
      <3>1. RefsTo(Used', kind', j) = RefsTo(Used, kind, j)
        BY <1>6, <2>3
      <3>2. nlink'[j] = (IF j = d THEN i_nlink[d] ELSE nlink[j]) /\ i_nlink'[j] = i_nlink[j]
            /\ (j = d => kind[j] = "dir")
        BY <1>0, <1>1, <2>3 DEF InTree
      <3> QED
        BY <2>1, <3>1, <3>2 DEF CountOK
    <2> QED
      BY <2>2, <2>3
  <1>8. TypeOK'
    <2>2. nlink' \in [Inodes -> Nat] /\ i_nlink' \in [Inodes -> Nat]
      BY <1>0, <1>1
    <2> QED
      BY <1>0, <1>1, <1>2, <2>2, FilesIn DEF TypeOK, DirInv, Short
  <1> QED
    BY <1>0, <1>2, <1>5, <1>7, <1>8 DEF DirInv, TreeInv

LEMMA UnlinkKeeps ==
    ASSUME DirInv, sound, NEW d \in Inodes, NEW n \in Names, Found(d, n), Unlink(d, n)
    PROVE  DirInv'
  <1>1. /\ Sane /\ Tree(Used, kind, has_dots) /\ slots \in Files /\ Short(slots)
        /\ kind \in [Inodes -> {"none", "file", "dir"}] /\ has_dots \in BOOLEAN
        /\ nlink \in [Inodes -> Nat] /\ i_nlink \in [Inodes -> Nat]
        /\ \A j \in Inodes : CountOK(RefsTo(Used, kind, j), j)
    BY Before
  <1>2. PICK x \in Used : /\ Dir(x) = d /\ Nm(x) = n /\ IsName(x)
                          /\ Ino(x) = Lookup(d, n) /\ x[3] = At(d, n) /\ Ino(x) \in Inodes
    BY <1>1, FoundIs
  <1>3. PICK i \in Inodes : i = Ino(x)
    BY <1>2
  <1>4. /\ kind[i] = "file"
        /\ slots' = [slots EXCEPT ![Dir(x)][x[3]] = Deleted]
        /\ nlink' = [nlink EXCEPT ![i] = nlink[i] - 1, ![d] = i_nlink[d]]
        /\ UNCHANGED <<kind, i_nlink, opened, has_dots, sound, clean>>
    BY <1>2, <1>3 DEF Unlink
  <1>5. slots' \in Files /\ Short(slots') /\ Used' = Used \ {x}
    BY <1>1, <1>4, LeaveStep DEF Used
  <1>6. /\ Tree(Used \ {x}, kind, has_dots)
        /\ \A j \in Inodes : InTree(Used \ {x}, kind, j) <=> InTree(Used, kind, j)
    BY <1>1, <1>2, <1>3, <1>4, LeaveFile
  <1>7. \A j \in Inodes : RefsTo(Used', kind', j) = RefsTo(Used, kind, j) \ {x}
    <2>1. \A y \in Used : Dir(y) \in Inodes
      BY <1>1 DEF Tree, NamesOK
    <2> QED
      BY <1>4, <1>5, <1>6, <2>1 DEF RefsTo
  <1>8. InTree(Used, kind, d) /\ x \in RefsTo(Used, kind, i) /\ d # i
    BY <1>1, <1>2, <1>3, Apart DEF RefsTo
  <1>9. \A j \in Inodes : /\ IsFiniteSet(RefsTo(Used, kind, j))
                          /\ Cardinality(RefsTo(Used, kind, j)) \in Nat
    BY <1>1, FS_CardinalityType DEF CountOK
  <1>10. /\ IsFiniteSet(RefsTo(Used', kind', i))
         /\ Cardinality(RefsTo(Used', kind', i)) = Cardinality(RefsTo(Used, kind, i)) - 1
         /\ Cardinality(RefsTo(Used', kind', i)) \in Nat
    BY <1>7, <1>8, <1>9, FS_RemoveElement, FS_CardinalityType
  <1>11. nlink[i] - 1 \in Nat /\ nlink[i] \in Nat
    <2>1. nlink[i] >= Cardinality(RefsTo(Used, kind, i)) /\ nlink[i] \in Nat
      BY <1>1 DEF CountOK
    <2> QED
      BY <1>9, <1>10, <2>1
  <1>12. ASSUME NEW j \in Inodes PROVE CountOK(RefsTo(Used, kind, j), j)'
    <2>1. CountOK(RefsTo(Used, kind, j), j) /\ clean' = clean /\ kind' = kind
      BY <1>1, <1>4
    <2>2. CASE j = i
      <3>1. nlink'[i] = nlink[i] - 1 /\ i_nlink'[i] = i_nlink[i] /\ i_nlink[i] \in Nat
        BY <1>1, <1>4, <1>8
      <3> QED
        BY <1>4, <1>9, <1>10, <1>11, <2>1, <2>2, <3>1 DEF CountOK
    <2>3. CASE j # i
      <3>1. RefsTo(Used', kind', j) = RefsTo(Used, kind, j)
        BY <1>3, <1>7, <2>3 DEF RefsTo
      <3>2. nlink'[j] = (IF j = d THEN i_nlink[d] ELSE nlink[j]) /\ i_nlink'[j] = i_nlink[j]
            /\ (j = d => kind[j] = "dir")
        BY <1>1, <1>4, <1>8, <2>3 DEF InTree
      <3> QED
        BY <2>1, <3>1, <3>2 DEF CountOK
    <2> QED
      BY <2>2, <2>3
  <1>13. TypeOK'
    <2>2. nlink' \in [Inodes -> Nat]
      BY <1>1, <1>4, <1>11
    <2> QED
      BY <1>1, <1>4, <1>5, <2>2, FilesIn DEF TypeOK, DirInv, Short
  <1> QED
    BY <1>4, <1>5, <1>6, <1>12, <1>13 DEF DirInv, TreeInv

\* The files after a mkdir.
Made(d, n, i) == [slots EXCEPT ![i] = Dots(i, d), ![d] = AddLink(slots[d], n, i)]

LEMMA MkdirStep ==
    ASSUME slots \in Files, Short(slots), has_dots \in BOOLEAN,
           NEW d \in Inodes, NEW i \in Inodes, NEW n \in Names, HasRoom(d), i # d
    PROVE  \E x : /\ IsName(x) /\ Dir(x) = d /\ Ino(x) = i /\ Nm(x) = n /\ x \notin Used
                  /\ Made(d, n, i) \in Files /\ Short(Made(d, n, i))
                  /\ All(Made(d, n, i)) = { y \in Used \cup {x} : Dir(y) # i } \cup DotsOf(has_dots, i, d)
  <1>1. PICK x : /\ IsName(x) /\ Dir(x) = d /\ Ino(x) = i /\ Nm(x) = n /\ x \notin Used
                 /\ [slots EXCEPT ![d] = AddLink(slots[d], n, i)] \in Files
                 /\ Short([slots EXCEPT ![d] = AddLink(slots[d], n, i)])
                 /\ All([slots EXCEPT ![d] = AddLink(slots[d], n, i)]) = Used \cup {x}
    BY AddStep
  <1>2. PICK s : s = [slots EXCEPT ![d] = AddLink(slots[d], n, i)]
    OBVIOUS
  <1>3. s \in Files /\ Short(s) /\ All(s) = Used \cup {x}
    BY <1>1, <1>2
  <1>4. PICK t \in Seq(Slot) : t = Dots(i, d)
    <2>1. DE(i, ".") \in Slot /\ DE(d, "..") \in Slot
      BY EntryIs
    <2>2. <<DE(i, "."), DE(d, "..")>> \in Seq(Slot) /\ <<>> \in Seq(Slot)
      BY <2>1
    <2>3. Dots(i, d) \in Seq(Slot)
      BY <2>2 DEF Dots
    <2> QED
      BY <2>3
  <1>5. PICK r : r = [s EXCEPT ![i] = t]
    OBVIOUS
  <1>6. Turns(s, r, i, t)
    BY <1>3, <1>5, ExceptTurns
  <1>7. Turns(s, r, i, Dots(i, d))
    BY <1>4, <1>6
  <1>8. /\ r \in Files /\ (Short(s) => Short(r))
        /\ All(r) = { y \in All(s) : Dir(y) # i } \cup DotsOf(has_dots, i, d)
    BY <1>3, <1>7, DotsIs DEF DotsOf
  <1>9. r = Made(d, n, i)
    BY <1>2, <1>4, <1>5 DEF Made, Files
  <1> QED
    BY <1>1, <1>3, <1>8, <1>9

LEMMA MkdirKeeps ==
    ASSUME DirInv, sound, NEW d \in Inodes, NEW n \in Names, NEW i \in Inodes,
           Live(d), ~Found(d, n), Mkdir(d, n, i)
    PROVE  DirInv'
  <1>1. /\ Sane /\ Tree(Used, kind, has_dots) /\ slots \in Files /\ Short(slots)
        /\ kind \in [Inodes -> {"none", "file", "dir"}] /\ has_dots \in BOOLEAN
        /\ nlink \in [Inodes -> Nat] /\ i_nlink \in [Inodes -> Nat]
        /\ \A j \in Inodes : CountOK(RefsTo(Used, kind, j), j)
        /\ InTree(Used, kind, d)
    BY Before
  <1>0. i # d
    BY <1>1 DEF Mkdir, InTree
  <1>2. /\ HasRoom(d) /\ kind[i] = "none"
        /\ kind' = [kind EXCEPT ![i] = "dir"]
        /\ slots' = Made(d, n, i)
        /\ i_nlink' = [i_nlink EXCEPT ![i] = 1 + Up,
                                      ![d] = IF has_dots THEN nlink[d] + 1 ELSE i_nlink[d]]
        /\ nlink' = [nlink EXCEPT ![i] = 1 + Up, ![d] = i_nlink'[d]]
        /\ UNCHANGED <<opened, has_dots, sound, clean>>
    BY <1>0, <1>1 DEF Mkdir, Files, Made
  <1>3. PICK x : /\ IsName(x) /\ Dir(x) = d /\ Ino(x) = i /\ Nm(x) = n /\ x \notin Used
                 /\ slots' \in Files /\ Short(slots')
                 /\ Used' = { y \in Used \cup {x} : Dir(y) # i } \cup DotsOf(has_dots, i, d)
    BY <1>0, <1>1, <1>2, MkdirStep DEF Used
  <1> DEFINE B == DotsOf(has_dots, i, d)
  <1>4. B = IF has_dots THEN {Dot(i), DotUp(i, d)} ELSE {}
    BY DEF DotsOf
  <1> HIDE DEF B
  <1>5. (\A y \in Used : Dir(y) # i) /\ RefsTo(Used, kind, i) = {}
    BY <1>1, <1>2, Apart DEF RefsTo
  <1>6. Used' = Used \cup B \cup {x}
    BY <1>0, <1>3, <1>5 DEF B
  <1>7. \A y \in Used : ~(Dir(y) = d /\ Nm(y) = n)
    BY <1>1, FoundIs
  <1>8. Becomes(kind, kind', i, "dir")
    BY <1>1, <1>2 DEF Becomes
  <1>9. /\ Tree(Used \cup B \cup {x}, kind', has_dots)
        /\ \A j \in Inodes :
              InTree(Used \cup B \cup {x}, kind', j) <=> InTree(Used, kind, j) \/ j = i
    <2>1. /\ IsName(x) /\ InTree(Used, kind, Dir(x)) /\ Dir(x) \in Inodes /\ Ino(x) \in Inodes
          /\ (\A y \in Used : ~(Dir(y) = Dir(x) /\ Nm(y) = Nm(x)))
          /\ kind[Ino(x)] = "none" /\ Becomes(kind, kind', Ino(x), "dir")
      BY <1>1, <1>2, <1>3, <1>7, <1>8
    <2>2. has_dots \in BOOLEAN /\ Tree(Used, kind, has_dots) /\ Ino(x) = i
      BY <1>1, <1>3
    <2>3. /\ Tree(Used \cup DotsOf(has_dots, Ino(x), Dir(x)) \cup {x}, kind', has_dots)
          /\ \A j \in Inodes : InTree(Used \cup DotsOf(has_dots, Ino(x), Dir(x)) \cup {x}, kind', j)
                               <=> InTree(Used, kind, j) \/ j = Ino(x)
      BY <2>1, <2>2, EnterDir
    <2> QED
      BY <1>3, <2>3 DEF B
  <1>10. \A j \in Inodes : RefsTo(Used', kind', j)
                           = RefsTo(Used, kind, j) \cup { y \in B \cup {x} : Ino(y) = j }
    <2>1. \A y \in Used : Dir(y) \in Inodes
      BY <1>1 DEF Tree, NamesOK
    <2>2. \A y \in B : Dir(y) = i
      BY <1>4, DotIs
    <2> QED
      BY SMTT(30), <1>1, <1>3, <1>5, <1>6, <1>9, <2>1, <2>2 DEF RefsTo
  <1>11. /\ Up = (IF has_dots THEN 1 ELSE 0) /\ Up \in Nat
    BY <1>1 DEF Up
  <1>12. ASSUME NEW j \in Inodes PROVE CountOK(RefsTo(Used, kind, j), j)'
    <2>1. CountOK(RefsTo(Used, kind, j), j) /\ clean' = clean
      BY <1>1, <1>2
    <2>2. CASE j = i
      <3>1. RefsTo(Used', kind', i) = { y \in B \cup {x} : Ino(y) = i }
        BY <1>5, <1>10
      <3>2. { y \in B \cup {x} : Ino(y) = i } = {x} \cup (IF has_dots THEN {Dot(i)} ELSE {})
        BY <1>0, <1>3, <1>4, DotIs
      <3>3. x # Dot(i)
        BY <1>3, DotIs
      <3>4. /\ IsFiniteSet({x}) /\ Cardinality({x}) = 1
            /\ IsFiniteSet({x} \cup {Dot(i)}) /\ Cardinality({x} \cup {Dot(i)}) = 2
        <4>1. IsFiniteSet({x}) /\ Cardinality({x}) = 1
          BY FS_Singleton
        <4>2. IsFiniteSet({x} \cup {Dot(i)}) /\ Cardinality({x} \cup {Dot(i)}) = 1 + 1
          BY <3>3, <4>1, FS_AddElement
        <4> QED
          BY <4>1, <4>2
      <3>5. /\ IsFiniteSet(RefsTo(Used', kind', i))
            /\ Cardinality(RefsTo(Used', kind', i)) = 1 + Up
        BY <1>11, <3>1, <3>2, <3>4
      <3>6. nlink'[i] = 1 + Up /\ i_nlink'[i] = 1 + Up
        BY <1>0, <1>1, <1>2
      <3> QED
        BY <1>11, <2>2, <3>5, <3>6 DEF CountOK
    <2>3. CASE j = d
      <3>1. RefsTo(Used', kind', d) = RefsTo(Used, kind, d) \cup { y \in B \cup {x} : Ino(y) = d }
        BY <1>10
      <3>2. { y \in B \cup {x} : Ino(y) = d } = IF has_dots THEN {DotUp(i, d)} ELSE {}
        BY <1>0, <1>3, <1>4, DotIs
      <3>3. DotUp(i, d) \notin RefsTo(Used, kind, d)
        BY <1>5, DotIs DEF RefsTo
      <3>4. /\ IsFiniteSet(RefsTo(Used', kind', d))
            /\ Cardinality(RefsTo(Used', kind', d)) = Cardinality(RefsTo(Used, kind, d)) + Up
            /\ Cardinality(RefsTo(Used, kind, d)) \in Nat
        <4>1. /\ IsFiniteSet(RefsTo(Used, kind, d)) /\ Cardinality(RefsTo(Used, kind, d)) \in Nat
          BY <2>1, <2>3, FS_CardinalityType DEF CountOK
        <4>2. CASE has_dots
          <5>1. RefsTo(Used', kind', d) = RefsTo(Used, kind, d) \cup {DotUp(i, d)}
            BY <3>1, <3>2, <4>2
          <5> QED
            BY <1>11, <3>3, <4>1, <4>2, <5>1, FS_AddElement
        <4>3. CASE ~has_dots
          <5>1. RefsTo(Used', kind', d) = RefsTo(Used, kind, d)
            BY <3>1, <3>2, <4>3
          <5> QED
            BY <1>11, <4>1, <4>3, <5>1
        <4> QED
          BY <1>1, <4>2, <4>3
      <3>5. /\ nlink'[d] = i_nlink'[d]
            /\ i_nlink'[d] = (IF has_dots THEN nlink[d] + 1 ELSE i_nlink[d])
            /\ nlink[d] \in Nat /\ i_nlink[d] \in Nat /\ kind'[d] = kind[d] /\ kind[d] = "dir"
        BY <1>0, <1>1, <1>2 DEF InTree
      <3> QED
        BY <1>11, <2>1, <2>3, <3>4, <3>5 DEF CountOK
    <2>4. CASE j # i /\ j # d
      <3>1. RefsTo(Used', kind', j) = RefsTo(Used, kind, j)
        <4>1. Ino(x) = i /\ Ino(Dot(i)) = i /\ Ino(DotUp(i, d)) = d
          BY <1>3, DotIs
        <4>2. { y \in B \cup {x} : Ino(y) = j } = {}
          BY <1>4, <2>4, <4>1
        <4> QED
          BY <1>10, <4>2
      <3>2. nlink'[j] = nlink[j] /\ i_nlink'[j] = i_nlink[j] /\ kind'[j] = kind[j]
        BY <1>1, <1>2, <2>4
      <3> QED
        BY <2>1, <3>1, <3>2 DEF CountOK
    <2> QED
      BY <2>2, <2>3, <2>4
  <1>13. TypeOK'
    <2>1. kind' \in [Inodes -> {"none", "file", "dir"}]
      BY <1>1, <1>2
    <2>2. i_nlink' \in [Inodes -> Nat]
      BY <1>1, <1>2, <1>11
    <2>3. nlink' \in [Inodes -> Nat]
      BY <1>1, <1>2, <1>11, <2>2
    <2> QED
      BY <1>1, <1>2, <1>3, <2>1, <2>2, <2>3, FilesIn DEF TypeOK, DirInv, Short
  <1> QED
    BY <1>2, <1>3, <1>6, <1>9, <1>12, <1>13 DEF DirInv, TreeInv

LEMMA MkdirNoInodeKeeps ==
    ASSUME DirInv, sound, NEW d \in Inodes, Live(d), MkdirNoInode(d)
    PROVE  DirInv'
  <1>1. /\ Sane /\ Tree(Used, kind, has_dots) /\ slots \in Files /\ Short(slots)
        /\ nlink \in [Inodes -> Nat] /\ i_nlink \in [Inodes -> Nat]
        /\ \A j \in Inodes : CountOK(RefsTo(Used, kind, j), j)
    BY Before
  <1>2. /\ i_nlink' = [i_nlink EXCEPT ![d] = nlink[d] + 1]
        /\ clean' = FALSE
        /\ UNCHANGED <<kind, slots, nlink, opened, has_dots, sound>>
    BY DEF MkdirNoInode
  <1>3. ASSUME NEW j \in Inodes PROVE CountOK(RefsTo(Used, kind, j), j)'
    <2>1. CountOK(RefsTo(Used, kind, j), j) /\ RefsTo(Used', kind', j) = RefsTo(Used, kind, j)
      BY <1>1, <1>2 DEF Used
    <2>2. nlink'[j] = nlink[j] /\ nlink[j] \in Nat
      BY <1>1, <1>2
    <2>3. i_nlink'[j] = IF j = d THEN nlink[j] + 1 ELSE i_nlink[j]
      BY <1>1, <1>2
    <2>4. Cardinality(RefsTo(Used, kind, j)) \in Nat
      BY <2>1, FS_CardinalityType DEF CountOK
    <2> QED
      BY <1>2, <2>1, <2>2, <2>3, <2>4 DEF CountOK
  <1>4. i_nlink' \in [Inodes -> Nat]
    BY <1>1, <1>2
  <1>5. TypeOK'
    BY <1>2, <1>4 DEF TypeOK, DirInv
  <1> QED
    BY <1>1, <1>2, <1>3, <1>5 DEF DirInv, TreeInv, Used

LEMMA MkdirFailsKeeps ==
    ASSUME DirInv, sound, NEW d \in Inodes, NEW i \in Inodes, Live(d), MkdirFails(d, i)
    PROVE  DirInv'
  <1>1. /\ Sane /\ Tree(Used, kind, has_dots) /\ slots \in Files /\ Short(slots)
        /\ kind \in [Inodes -> {"none", "file", "dir"}] /\ has_dots \in BOOLEAN
        /\ nlink \in [Inodes -> Nat] /\ i_nlink \in [Inodes -> Nat]
        /\ \A j \in Inodes : CountOK(RefsTo(Used, kind, j), j)
        /\ InTree(Used, kind, d)
    BY Before
  <1>2. PICK k \in 0 .. 2 : slots' = [slots EXCEPT ![i] = SubSeq(Dots(i, d), 1, k)]
    BY DEF MkdirFails
  <1>3. /\ has_dots /\ kind[i] = "none"
        /\ kind' = [kind EXCEPT ![i] = "dir"]
        /\ nlink' = [nlink EXCEPT ![i] = 1, ![d] = nlink[d] + 1]
        /\ i_nlink' = [i_nlink EXCEPT ![i] = 1, ![d] = nlink[d] + 1]
        /\ clean' = FALSE /\ d # i
        /\ UNCHANGED <<opened, has_dots, sound>>
    BY <1>1 DEF MkdirFails, InTree
  <1>4. PICK B \in SUBSET {Dot(i), DotUp(i, d)} :
           slots' \in Files /\ Short(slots') /\ Used' = { x \in Used : Dir(x) # i } \cup B
    <2>1. PICK t \in Seq(Slot) : t = SubSeq(Dots(i, d), 1, k)
      <3>1. DE(i, ".") \in Slot /\ DE(d, "..") \in Slot
        BY EntryIs
      <3>2. PICK u \in Seq(Slot) : u = Dots(i, d) /\ Len(u) = 2
        <4>1. <<DE(i, "."), DE(d, "..")>> \in Seq(Slot)
          BY <3>1
        <4> QED
          BY <1>3, <4>1 DEF Dots
      <3>3. SubSeq(u, 1, k) \in Seq(Slot)
        BY SMTT(30), <3>2
      <3> QED
        BY <3>2, <3>3
    <2>2. Turns(slots, slots', i, SubSeq(Dots(i, d), 1, k))
      <3>1. slots' = [slots EXCEPT ![i] = t]
        BY <1>2, <2>1
      <3>2. Turns(slots, slots', i, t)
        BY <1>1, <3>1, ExceptTurns
      <3> QED
        BY <2>1, <3>2
    <2>3. /\ slots' \in Files /\ (Short(slots) => Short(slots'))
          /\ All(slots') = { x \in All(slots) : Dir(x) # i }
                           \cup { x \in {Dot(i), DotUp(i, d)} : x[3] <= k }
      BY <1>1, <1>3, <2>2, DotsFill
    <2> QED
      BY <1>1, <2>3 DEF Used
  <1>5. (\A y \in Used : Dir(y) # i) /\ RefsTo(Used, kind, i) = {}
    BY <1>1, <1>3, Apart DEF RefsTo
  <1>6. Used' = Used \cup B
    BY <1>4, <1>5
  <1>7. Becomes(kind, kind', i, "dir")
    BY <1>1, <1>3 DEF Becomes
  <1>8. /\ Tree(Used \cup B, kind', has_dots)
        /\ \A j \in Inodes : InTree(Used \cup B, kind', j) <=> InTree(Used, kind, j)
        /\ ~InTree(Used, kind, i)
    BY ZenonT(60), <1>1, <1>3, <1>4, <1>7, StrayDir
  <1>9. \A j \in Inodes : RefsTo(Used', kind', j) = RefsTo(Used, kind, j)
    <2>1. \A y \in Used : Dir(y) \in Inodes
      BY <1>1 DEF Tree, NamesOK
    <2>2. \A y \in B : Dir(y) = i
      BY <1>4, DotIs
    <2> QED
      BY <1>6, <1>8, <2>1, <2>2 DEF RefsTo
  <1>10. ASSUME NEW j \in Inodes PROVE CountOK(RefsTo(Used, kind, j), j)'
    <2>1. CountOK(RefsTo(Used, kind, j), j) /\ RefsTo(Used', kind', j) = RefsTo(Used, kind, j)
      BY <1>1, <1>9
    <2>2. Cardinality(RefsTo(Used, kind, j)) \in Nat
      BY <2>1, FS_CardinalityType DEF CountOK
    <2>3. CASE j = i
      <3>1. Cardinality(RefsTo(Used, kind, i)) = 0
        BY <1>5, FS_EmptySet
      <3>2. nlink'[i] = 1 /\ i_nlink'[i] = 1
        BY <1>1, <1>3
      <3> QED
        BY <1>3, <2>1, <2>3, <3>1, <3>2 DEF CountOK
    <2>4. CASE j = d
      <3>1. nlink'[d] = nlink[d] + 1 /\ i_nlink'[d] = nlink[d] + 1 /\ nlink[d] \in Nat
        BY <1>1, <1>3
      <3> QED
        BY <1>3, <2>1, <2>2, <2>4, <3>1 DEF CountOK
    <2>5. CASE j # i /\ j # d
      <3>1. nlink'[j] = nlink[j] /\ i_nlink'[j] = i_nlink[j]
        BY <1>1, <1>3, <2>5
      <3> QED
        BY <1>3, <2>1, <3>1 DEF CountOK
    <2> QED
      BY <2>3, <2>4, <2>5
  <1>11. TypeOK'
    <2>1. kind' \in [Inodes -> {"none", "file", "dir"}]
      BY <1>1, <1>3
    <2>2. i_nlink' \in [Inodes -> Nat] /\ nlink' \in [Inodes -> Nat]
      BY <1>1, <1>3
    <2> QED
      BY <1>1, <1>3, <1>4, <2>1, <2>2, FilesIn DEF TypeOK, DirInv, Short
  <1> QED
    BY <1>3, <1>4, <1>6, <1>8, <1>10, <1>11 DEF DirInv, TreeInv

LEMMA ReadWriteKeeps ==
    ASSUME DirInv, sound, NEW i \in Inodes, ReadWrite(i)
    PROVE  DirInv'
  <1>1. /\ nlink' = [nlink EXCEPT ![i] = i_nlink[i]]
        /\ sound' = (nlink[i] = i_nlink[i])
        /\ UNCHANGED <<kind, slots, i_nlink, opened, has_dots, clean>>
    BY DEF ReadWrite
  <1>2. nlink \in [Inodes -> Nat] /\ i_nlink \in [Inodes -> Nat]
    BY DEF DirInv, TypeOK
  <1>3. TypeOK'
    <2>1. nlink' \in [Inodes -> Nat]
      BY <1>1, <1>2
    <2> QED
      BY <1>1, <2>1 DEF TypeOK, DirInv
  <1>4. sound' => nlink' = nlink
    BY <1>1, <1>2
  <1> QED
    BY <1>1, <1>3, <1>4 DEF DirInv, TreeInv, CountOK, Used

LEMMA WriteBackKeeps ==
    ASSUME DirInv, sound, NEW i \in Inodes, WriteBack(i)
    PROVE  DirInv'
  <1>1. /\ Sane /\ Tree(Used, kind, has_dots) /\ slots \in Files /\ Short(slots)
        /\ nlink \in [Inodes -> Nat] /\ i_nlink \in [Inodes -> Nat]
        /\ \A j \in Inodes : CountOK(RefsTo(Used, kind, j), j)
    BY Before
  <1>2. /\ i_nlink' = [i_nlink EXCEPT ![i] = nlink[i]]
        /\ UNCHANGED <<kind, slots, nlink, opened, has_dots, sound, clean>>
    BY DEF WriteBack
  <1>3. ASSUME NEW j \in Inodes PROVE CountOK(RefsTo(Used, kind, j), j)'
    <2>1. CountOK(RefsTo(Used, kind, j), j) /\ RefsTo(Used', kind', j) = RefsTo(Used, kind, j)
      BY <1>1, <1>2 DEF Used
    <2>2. i_nlink'[j] = IF j = i THEN nlink[j] ELSE i_nlink[j]
      BY <1>1, <1>2
    <2> QED
      BY <1>2, <2>1, <2>2 DEF CountOK
  <1>4. i_nlink' \in [Inodes -> Nat]
    BY <1>1, <1>2
  <1>5. TypeOK'
    BY <1>2, <1>4 DEF TypeOK, DirInv
  <1> QED
    BY <1>1, <1>2, <1>3, <1>5 DEF DirInv, TreeInv, Used

LEMMA EvictKeeps ==
    ASSUME DirInv, sound, NEW i \in Inodes, Evict(i)
    PROVE  DirInv' /\ ~Named(Used, i)
  <1>1. /\ Sane /\ Tree(Used, kind, has_dots) /\ slots \in Files /\ Short(slots)
        /\ kind \in [Inodes -> {"none", "file", "dir"}] /\ has_dots \in BOOLEAN
        /\ nlink \in [Inodes -> Nat] /\ i_nlink \in [Inodes -> Nat]
        /\ \A j \in Inodes : CountOK(RefsTo(Used, kind, j), j)
    BY Before
  <1>2. /\ i # Root /\ nlink[i] = 0
        /\ kind' = [kind EXCEPT ![i] = "none"]
        /\ slots' = [slots EXCEPT ![i] = <<>>]
        /\ i_nlink' = [i_nlink EXCEPT ![i] = 0]
        /\ UNCHANGED <<nlink, opened, has_dots, sound, clean>>
    BY DEF Evict
  <1>3. RefsTo(Used, kind, i) = {} /\ Cardinality(RefsTo(Used, kind, i)) = 0
    <2>1. IsFiniteSet(RefsTo(Used, kind, i)) /\ 0 >= Cardinality(RefsTo(Used, kind, i))
      BY <1>1, <1>2 DEF CountOK
    <2> QED
      BY <2>1, FS_CardinalityType, FS_EmptySet
  <1>4. ~Named(Used, i)
    BY <1>1, <1>3, Apart DEF Named, RefsTo
  <1>5. /\ slots' \in Files /\ Short(slots') /\ Used' = { x \in Used : Dir(x) # i }
    BY <1>1, <1>2, ClearStep DEF Used
  <1>6. MayFree(kind, kind', i)
    BY <1>1, <1>2 DEF MayFree, Becomes
  <1>7. /\ Tree({ x \in Used : Dir(x) # i }, kind', has_dots)
        /\ \A j \in Inodes : InTree({ x \in Used : Dir(x) # i }, kind', j) <=> InTree(Used, kind, j)
        /\ ~InTree(Used, kind, i)
    <2>1. PICK L : L = kind'
      OBVIOUS
    <2>2. Tree(Used, kind, has_dots) /\ i # Root /\ ~Named(Used, i) /\ MayFree(kind, L, i)
      BY <1>1, <1>2, <1>4, <1>6, <2>1
    <2>3. Tree({ x \in Used : Dir(x) # i }, L, has_dots)
      BY <2>2, Clear
    <2>4. \A j \in Inodes : InTree({ x \in Used : Dir(x) # i }, L, j) <=> InTree(Used, kind, j)
      BY <2>2, Clear
    <2>5. ~InTree(Used, kind, i)
      BY <2>2, Clear
    <2> QED
      BY <2>1, <2>3, <2>4, <2>5
  <1>8. \A j \in Inodes : RefsTo(Used', kind', j) = RefsTo(Used, kind, j)
    <2>1. \A y \in Used : Dir(y) \in Inodes
      BY <1>1 DEF Tree, NamesOK
    <2> QED
      BY <1>5, <1>7, <2>1 DEF RefsTo
  <1>9. ASSUME NEW j \in Inodes PROVE CountOK(RefsTo(Used, kind, j), j)'
    <2>1. CountOK(RefsTo(Used, kind, j), j) /\ RefsTo(Used', kind', j) = RefsTo(Used, kind, j)
      BY <1>1, <1>8
    <2>2. i_nlink'[j] = (IF j = i THEN 0 ELSE i_nlink[j]) /\ nlink'[j] = nlink[j]
          /\ kind'[j] = (IF j = i THEN "none" ELSE kind[j])
      BY <1>1, <1>2
    <2> QED
      BY <1>2, <1>3, <2>1, <2>2 DEF CountOK
  <1>10. TypeOK'
    <2>1. kind' \in [Inodes -> {"none", "file", "dir"}]
      BY <1>1, <1>2
    <2>2. i_nlink' \in [Inodes -> Nat]
      BY <1>1, <1>2
    <2> QED
      BY <1>1, <1>2, <1>5, <2>1, <2>2, FilesIn DEF TypeOK, DirInv, Short
  <1> QED
    BY <1>2, <1>4, <1>5, <1>7, <1>9, <1>10 DEF DirInv, TreeInv

\* The links of a directory: its name, and its dot; "..", in it, is one of another.
LEMMA DirLinks ==
    ASSUME NEW U, NEW K, NEW h \in BOOLEAN, Tree(U, K, h),
           NEW x \in U, IsName(x), K[Ino(x)] = "dir"
    PROVE  /\ Dir(x) # Ino(x) /\ InTree(U, K, Ino(x))
           /\ {x} \cup (IF h THEN {Dot(Ino(x))} ELSE {}) \subseteq RefsTo(U, K, Ino(x))
           /\ h => DotUp(Ino(x), Dir(x)) \in RefsTo(U, K, Dir(x))
  <1>1. Dir(x) # Ino(x) /\ InTree(U, K, Dir(x)) /\ InTree(U, K, Ino(x))
    BY Apart DEF InTree, Named
  <1>2. x \in RefsTo(U, K, Ino(x))
    BY <1>1 DEF RefsTo
  <1>3. h => Dot(Ino(x)) \in U /\ DotUp(Ino(x), Dir(x)) \in U
    BY DotUpIs
  <1>4. h => Dot(Ino(x)) \in RefsTo(U, K, Ino(x)) /\ DotUp(Ino(x), Dir(x)) \in RefsTo(U, K, Dir(x))
    BY <1>1, <1>3, DotIs DEF RefsTo
  <1> QED
    BY <1>1, <1>2, <1>4

\* A directory without names: nothing else refers to it, and it has the dots only.
LEMMA EmptyDir ==
    ASSUME NEW U, NEW K, NEW h \in BOOLEAN, Tree(U, K, h),
           NEW x \in U, IsName(x), K[Ino(x)] = "dir",
           \A y \in U : Dir(y) = Ino(x) => ~IsName(y)
    PROVE  /\ RefsTo(U, K, Ino(x)) = {x} \cup (IF h THEN {Dot(Ino(x))} ELSE {})
           /\ { y \in U : Dir(y) = Ino(x) } = DotsOf(h, Ino(x), Dir(x))
  <1> DEFINE i == Ino(x)
             d == Dir(x)
  <1>1. /\ InTree(U, K, i) /\ i \in Inodes /\ i # Root
        /\ {x} \cup (IF h THEN {Dot(i)} ELSE {}) \subseteq RefsTo(U, K, i)
    BY DirLinks DEF Tree, NamesOK
  <1>2. h => Dot(i) \in U /\ DotUp(i, d) \in U
    BY DotUpIs
  <1>3. ASSUME NEW y \in U, InTree(U, K, Dir(y)), Nm(y) = ".."
        PROVE  Ino(y) # i
    <2>1. h /\ y = DotUp(Dir(y), Ino(y)) /\ Dir(y) \in Inodes
      BY <1>3 DEF Tree, DotsOK, NamesOK
    <2>2. PICK p \in Inodes : /\ DotUp(Dir(y), p) \in U
                              /\ IF Dir(y) = Root THEN p = Root ELSE Over(U, p, Dir(y))
      BY <1>3, <2>1 DEF Tree, DotsOK
    <2>3. Ino(y) = p
      <3>1. /\ Dir(DotUp(Dir(y), p)) = Dir(y) /\ Nm(DotUp(Dir(y), p)) = Nm(y)
            /\ Ino(DotUp(Dir(y), p)) = p
        BY <1>3, DotIs
      <3>2. DotUp(Dir(y), p) = y
        BY <2>2, <3>1 DEF Tree, NamesOK
      <3> QED
        BY <3>1, <3>2
    <2>4. ~Over(U, i, Dir(y))
      BY DEF Over
    <2> QED
      BY <1>1, <2>2, <2>3, <2>4
  <1>4. ASSUME NEW y \in RefsTo(U, K, i) PROVE y \in {x} \cup (IF h THEN {Dot(i)} ELSE {})
    <2>1. y \in U /\ InTree(U, K, Dir(y)) /\ Ino(y) = i
      BY <1>4 DEF RefsTo
    <2>2. CASE IsName(y)
      BY <2>1, <2>2 DEF Tree, NamesOK
    <2>3. CASE Nm(y) = "."
      <3>1. h /\ y = Dot(Dir(y))
        BY <2>1, <2>3 DEF Tree, DotsOK
      <3>2. Dir(y) = i
        BY <2>1, <3>1, DotIs
      <3> QED
        BY <3>1, <3>2
    <2> QED
      BY <1>3, <2>1, <2>2, <2>3 DEF IsName, Tree, NamesOK
  <1>5. ASSUME NEW y \in U, Dir(y) = i PROVE y \in DotsOf(h, i, d)
    <2>1. Nm(y) \in {".", ".."}
      BY <1>5 DEF IsName, Tree, NamesOK
    <2>2. CASE Nm(y) = "."
      BY <1>5, <2>2 DEF Tree, DotsOK, DotsOf
    <2>3. CASE Nm(y) = ".."
      <3>1. h
        BY <2>3 DEF Tree, DotsOK
      <3>2. DotUp(i, d) \in U /\ Dir(DotUp(i, d)) = i /\ Nm(DotUp(i, d)) = ".."
        BY <1>2, <3>1, DotIs
      <3>3. y = DotUp(i, d)
        BY <1>5, <2>3, <3>2 DEF Tree, NamesOK
      <3> QED
        BY <3>1, <3>3 DEF DotsOf
    <2> QED
      BY <2>1, <2>2, <2>3
  <1>6. \A y \in DotsOf(h, i, d) : y \in U /\ Dir(y) = i
    BY <1>2, DotIs DEF DotsOf
  <1> QED
    BY <1>1, <1>4, <1>5, <1>6

\* A directory has enough links to lose those of its name and its dot, and the directory
\* above it one for "..".
LEMMA LinksIs ==
    ASSUME Tree(Used, kind, has_dots), has_dots \in BOOLEAN,
           nlink \in [Inodes -> Nat], i_nlink \in [Inodes -> Nat],
           \A j \in Inodes : CountOK(RefsTo(Used, kind, j), j),
           NEW x \in Used, IsName(x)
    PROVE  /\ Up \in {0, 1} /\ Up = (IF has_dots THEN 1 ELSE 0)
           /\ nlink[Ino(x)] >= 1
           /\ kind[Ino(x)] = "dir" =>
                 nlink[Ino(x)] >= 1 + Up /\ i_nlink[Dir(x)] >= Up /\ nlink[Dir(x)] >= Up
  <1>1. Ino(x) \in Inodes /\ Dir(x) \in Inodes /\ InTree(Used, kind, Dir(x))
    BY DEF Tree, NamesOK
  <1>2. \A j \in Inodes : /\ IsFiniteSet(RefsTo(Used, kind, j))
                          /\ Cardinality(RefsTo(Used, kind, j)) \in Nat
                          /\ nlink[j] >= Cardinality(RefsTo(Used, kind, j))
                          /\ i_nlink[j] >= Cardinality(RefsTo(Used, kind, j))
                          /\ nlink[j] \in Nat /\ i_nlink[j] \in Nat
    BY FS_CardinalityType DEF CountOK
  <1>3. Up \in {0, 1} /\ Up = (IF has_dots THEN 1 ELSE 0)
    BY DEF Up
  <1>4. \A j \in Inodes : \A S : S \subseteq RefsTo(Used, kind, j) =>
            IsFiniteSet(S) /\ Cardinality(S) <= Cardinality(RefsTo(Used, kind, j)) /\ Cardinality(S) \in Nat
    BY <1>2, FS_Subset, FS_CardinalityType
  <1>5. \A y : IsFiniteSet({y}) /\ Cardinality({y}) = 1
    BY FS_Singleton
  <1>6. nlink[Ino(x)] >= 1
    <2>1. {x} \subseteq RefsTo(Used, kind, Ino(x))
      BY <1>1 DEF RefsTo
    <2>2. Cardinality({x}) <= Cardinality(RefsTo(Used, kind, Ino(x)))
      BY <1>1, <1>4, <2>1
    <2>3. Cardinality({x}) = 1
      BY <1>5
    <2>4. /\ nlink[Ino(x)] >= Cardinality(RefsTo(Used, kind, Ino(x))) /\ nlink[Ino(x)] \in Nat
          /\ Cardinality(RefsTo(Used, kind, Ino(x))) \in Nat
      BY <1>1, <1>2
    <2> QED
      BY <2>2, <2>3, <2>4
  <1>7. ASSUME kind[Ino(x)] = "dir"
        PROVE  nlink[Ino(x)] >= 1 + Up /\ i_nlink[Dir(x)] >= Up /\ nlink[Dir(x)] >= Up
    <2>1. CASE has_dots
      <3>1. /\ {x, Dot(Ino(x))} \subseteq RefsTo(Used, kind, Ino(x))
            /\ {DotUp(Ino(x), Dir(x))} \subseteq RefsTo(Used, kind, Dir(x))
        <4>1. /\ {x} \cup (IF has_dots THEN {Dot(Ino(x))} ELSE {}) \subseteq RefsTo(Used, kind, Ino(x))
              /\ has_dots => DotUp(Ino(x), Dir(x)) \in RefsTo(Used, kind, Dir(x))
          BY <1>7, DirLinks
        <4> QED
          BY <2>1, <4>1
      <3>2. Cardinality({x, Dot(Ino(x))}) = 2
        <4>1. x # Dot(Ino(x)) /\ {x, Dot(Ino(x))} = {x} \cup {Dot(Ino(x))}
          BY DotIs
        <4>2. Cardinality({x} \cup {Dot(Ino(x))}) = Cardinality({x}) + 1
          BY <1>5, <4>1, FS_AddElement
        <4> QED
          BY <1>5, <4>1, <4>2
      <3>3. Cardinality(RefsTo(Used, kind, Ino(x))) >= 2
        BY <1>1, <1>2, <1>4, <3>1, <3>2
      <3>4. Cardinality(RefsTo(Used, kind, Dir(x))) >= 1
        BY <1>1, <1>2, <1>4, <1>5, <3>1
      <3> QED
        BY <1>1, <1>2, <1>3, <2>1, <3>3, <3>4
    <2>2. CASE ~has_dots
      BY <1>1, <1>2, <1>3, <1>6, <2>2
    <2> QED
      BY <2>1, <2>2
  <1> QED
    BY <1>3, <1>6, <1>7

\* The files after an rmdir of i, whose name was x.
Removed(x, i) == [slots EXCEPT ![Dir(x)][x[3]] = Deleted, ![i] = <<>>]

LEMMA RemoveStep ==
    ASSUME slots \in Files, NEW x \in Used, NEW i \in Inodes
    PROVE  /\ Removed(x, i) \in Files /\ (Short(slots) => Short(Removed(x, i)))
           /\ All(Removed(x, i)) = { y \in Used \ {x} : Dir(y) # i }
  <1>1. PICK s : s = [slots EXCEPT ![Dir(x)][x[3]] = Deleted]
    OBVIOUS
  <1>2. s \in Files /\ (Short(slots) => Short(s)) /\ All(s) = Used \ {x}
    BY <1>1, LeaveStep DEF Used
  <1>3. PICK r : r = [s EXCEPT ![i] = <<>>]
    OBVIOUS
  <1>4. r \in Files /\ (Short(s) => Short(r)) /\ All(r) = { y \in All(s) : Dir(y) # i }
    BY <1>2, <1>3, ClearStep
  <1>5. r = Removed(x, i)
    BY <1>1, <1>3 DEF Removed
  <1> QED
    BY <1>2, <1>4, <1>5

\* What rmdir does, whatever it removes.
LEMMA RemoveIs ==
    ASSUME DirInv, sound, NEW d \in Inodes, NEW n \in Names, NEW i \in Inodes,
           Found(d, n), i = Lookup(d, n), kind[i] = "dir", Remove(d, n, i),
           sound' \in BOOLEAN, clean' = clean
    PROVE  /\ TypeOK' /\ slots' \in Files
           /\ \E x \in Used :
                 /\ IsName(x) /\ Dir(x) = d /\ Nm(x) = n /\ Ino(x) = i /\ i # d
                 /\ Used' = { y \in Used \ {x} : Dir(y) # i }
                 /\ nlink' = [nlink EXCEPT ![i] = nlink[i] - 1 - Up, ![d] = i_nlink[d] - Up]
                 /\ i_nlink' = [i_nlink EXCEPT ![i] = nlink[i] - 1 - Up, ![d] = i_nlink[d] - Up]
                 /\ UNCHANGED <<kind, opened, has_dots>>
  <1>1. /\ Sane /\ Tree(Used, kind, has_dots) /\ slots \in Files /\ Short(slots)
        /\ kind \in [Inodes -> {"none", "file", "dir"}] /\ has_dots \in BOOLEAN
        /\ nlink \in [Inodes -> Nat] /\ i_nlink \in [Inodes -> Nat]
        /\ \A j \in Inodes : CountOK(RefsTo(Used, kind, j), j)
    BY Before
  <1>2. PICK x \in Used : /\ Dir(x) = d /\ Nm(x) = n /\ IsName(x)
                          /\ Ino(x) = i /\ x[3] = At(d, n)
    BY <1>1, FoundIs
  <1>3. i # d
    BY <1>1, <1>2, Apart
  <1>4. /\ slots' = Removed(x, i)
        /\ nlink' = [nlink EXCEPT ![i] = nlink[i] - 1 - Up, ![d] = i_nlink[d] - Up]
        /\ i_nlink' = [i_nlink EXCEPT ![i] = nlink[i] - 1 - Up, ![d] = i_nlink[d] - Up]
        /\ UNCHANGED <<kind, opened, has_dots>>
    BY <1>2 DEF Remove, Removed
  <1>5. slots' \in Files /\ Short(slots') /\ Used' = { y \in Used \ {x} : Dir(y) # i }
    BY <1>1, <1>4, RemoveStep DEF Used
  <1>6. nlink[i] - 1 - Up \in Nat /\ i_nlink[d] - Up \in Nat
    <2>1. /\ Up \in {0, 1} /\ nlink[i] >= 1 + Up /\ i_nlink[d] >= Up
      BY <1>1, <1>2, LinksIs
    <2>2. nlink[i] \in Nat /\ i_nlink[d] \in Nat
      BY <1>1
    <2> QED
      BY <2>1, <2>2
  <1>7. nlink' \in [Inodes -> Nat] /\ i_nlink' \in [Inodes -> Nat]
    BY <1>1, <1>4, <1>6
  <1>8. TypeOK'
    BY <1>1, <1>4, <1>5, <1>7, FilesIn DEF TypeOK, DirInv, Short
  <1> QED
    BY <1>2, <1>3, <1>4, <1>5, <1>8

LEMMA RmdirBlindKeeps ==
    ASSUME DirInv, sound, NEW d \in Inodes, NEW n \in Names, Found(d, n), RmdirBlind(d, n)
    PROVE  DirInv'
  <1>1. PICK i \in Inodes : i = Lookup(d, n)
    BY FoundIs DEF DirInv
  <1>2. kind[i] = "dir" /\ Remove(d, n, i) /\ sound' = FALSE /\ clean' = clean
    BY <1>1 DEF RmdirBlind
  <1>3. TypeOK' /\ slots' \in Files
    BY <1>1, <1>2, RemoveIs
  <1> QED
    BY <1>2, <1>3 DEF DirInv

LEMMA RmdirKeeps ==
    ASSUME DirInv, sound, NEW d \in Inodes, NEW n \in Names, Found(d, n), Rmdir(d, n)
    PROVE  DirInv'
  <1>1. /\ Sane /\ Tree(Used, kind, has_dots) /\ slots \in Files /\ Short(slots)
        /\ kind \in [Inodes -> {"none", "file", "dir"}] /\ has_dots \in BOOLEAN
        /\ nlink \in [Inodes -> Nat] /\ i_nlink \in [Inodes -> Nat]
        /\ \A j \in Inodes : CountOK(RefsTo(Used, kind, j), j)
    BY Before
  <1>2. PICK i \in Inodes : i = Lookup(d, n)
    BY <1>1, FoundIs
  <1>3. /\ kind[i] = "dir" /\ Remove(d, n, i) /\ IsEmpty(slots[i])
        /\ sound' = sound /\ clean' = clean
    BY <1>2 DEF Rmdir
  <1>4. /\ TypeOK' /\ slots' \in Files
        /\ \E x \in Used :
              /\ IsName(x) /\ Dir(x) = d /\ Nm(x) = n /\ Ino(x) = i /\ i # d
              /\ Used' = { y \in Used \ {x} : Dir(y) # i }
              /\ nlink' = [nlink EXCEPT ![i] = nlink[i] - 1 - Up, ![d] = i_nlink[d] - Up]
              /\ i_nlink' = [i_nlink EXCEPT ![i] = nlink[i] - 1 - Up, ![d] = i_nlink[d] - Up]
              /\ UNCHANGED <<kind, opened, has_dots>>
    BY <1>2, <1>3, RemoveIs
  <1>5. PICK x \in Used :
              /\ IsName(x) /\ Dir(x) = d /\ Nm(x) = n /\ Ino(x) = i /\ i # d
              /\ Used' = { y \in Used \ {x} : Dir(y) # i }
              /\ nlink' = [nlink EXCEPT ![i] = nlink[i] - 1 - Up, ![d] = i_nlink[d] - Up]
              /\ i_nlink' = [i_nlink EXCEPT ![i] = nlink[i] - 1 - Up, ![d] = i_nlink[d] - Up]
              /\ UNCHANGED <<kind, opened, has_dots>>
    BY <1>4
  <1>6. \A y \in Used : Dir(y) = i => ~IsName(y)
    BY <1>1, <1>3, EmptyIs
  <1>7. /\ Tree(Used \ {x}, kind, has_dots)
        /\ \A j \in Inodes : InTree(Used \ {x}, kind, j) <=> InTree(Used, kind, j) /\ j # i
    BY <1>1, <1>3, <1>5, <1>6, LeaveDir
  <1>8. i # Root
    BY <1>1, <1>5 DEF Tree, NamesOK
  <1>9. /\ Tree({ y \in Used \ {x} : Dir(y) # i }, kind, has_dots)
        /\ \A j \in Inodes : InTree({ y \in Used \ {x} : Dir(y) # i }, kind, j)
                             <=> InTree(Used \ {x}, kind, j)
    <2>1. MayFree(kind, kind, i)
      BY DEF MayFree
    <2>2. ~Named(Used \ {x}, i)
      BY <1>1, <1>3, <1>5 DEF Tree, NamesOK, Named
    <2> QED
      BY <1>7, <1>8, <2>1, <2>2, Clear
  <1>10. /\ RefsTo(Used, kind, i) = {x} \cup (IF has_dots THEN {Dot(i)} ELSE {})
         /\ { y \in Used : Dir(y) = i } = DotsOf(has_dots, i, d)
    BY <1>1, <1>3, <1>5, <1>6, EmptyDir
  <1>11. \A j \in Inodes : RefsTo(Used', kind', j)
                           = RefsTo(Used, kind, j) \ ({x} \cup DotsOf(has_dots, i, d))
    <2>1. \A y \in Used : Dir(y) \in Inodes
      BY <1>1 DEF Tree, NamesOK
    <2>2. \A y \in Used : Dir(y) = i <=> y \in DotsOf(has_dots, i, d)
      BY <1>10
    <2> QED
      BY <1>5, <1>7, <1>9, <2>1, <2>2 DEF RefsTo
  <1>12. /\ Ino(Dot(i)) = i /\ Ino(DotUp(i, d)) = d /\ (has_dots => DotUp(i, d) \in RefsTo(Used, kind, d))
    BY <1>1, <1>3, <1>5, DotIs, DirLinks
  <1>13. /\ Up \in {0, 1} /\ Up = (IF has_dots THEN 1 ELSE 0)
         /\ nlink[i] >= 1 + Up /\ i_nlink[d] >= Up
    BY <1>1, <1>3, <1>5, LinksIs
  <1>14. ASSUME NEW j \in Inodes PROVE CountOK(RefsTo(Used, kind, j), j)'
    <2>1. /\ CountOK(RefsTo(Used, kind, j), j) /\ clean' = clean /\ kind' = kind
          /\ nlink[j] \in Nat /\ i_nlink[j] \in Nat
      BY <1>1, <1>3, <1>5
    <2>2. IsFiniteSet(RefsTo(Used, kind, j)) /\ Cardinality(RefsTo(Used, kind, j)) \in Nat
      BY <2>1, FS_CardinalityType DEF CountOK
    <2>3. CASE j = i
      <3>1. RefsTo(Used', kind', i) = {}
        BY <1>10, <1>11 DEF DotsOf
      <3>2. IsFiniteSet({}) /\ Cardinality({}) = 0
        BY FS_EmptySet
      <3>3. Cardinality(RefsTo(Used, kind, i)) = 1 + Up
        <4>1. IsFiniteSet({x}) /\ Cardinality({x}) = 1 /\ x # Dot(i)
          BY <1>5, FS_Singleton, DotIs
        <4>2. Cardinality({x} \cup {Dot(i)}) = 1 + 1
          BY <4>1, FS_AddElement
        <4>3. {x} \cup {} = {x}
          OBVIOUS
        <4> QED
          BY <1>10, <1>13, <4>1, <4>2, <4>3
      <3>4. nlink'[i] = nlink[i] - 1 - Up /\ i_nlink'[i] = nlink[i] - 1 - Up
        BY <1>1, <1>5
      <3> QED
        BY <1>8, <1>13, <2>1, <2>3, <3>1, <3>2, <3>3, <3>4 DEF CountOK
    <2>4. CASE j = d
      <3>1. RefsTo(Used', kind', d) = RefsTo(Used, kind, d) \ UpOf(has_dots, i, d)
        BY <1>5, <1>11, <1>12 DEF DotsOf, UpOf, RefsTo
      <3>2. /\ IsFiniteSet(RefsTo(Used', kind', d))
            /\ Cardinality(RefsTo(Used', kind', d)) = Cardinality(RefsTo(Used, kind, d)) - Up
        <4>1. CASE has_dots
          <5>1. RefsTo(Used', kind', d) = RefsTo(Used, kind, d) \ {DotUp(i, d)}
            BY <3>1, <4>1 DEF UpOf
          <5> QED
            BY <1>12, <1>13, <2>2, <2>4, <4>1, <5>1, FS_RemoveElement
        <4>2. CASE ~has_dots
          <5>1. RefsTo(Used', kind', d) = RefsTo(Used, kind, d)
            BY <3>1, <4>2 DEF UpOf
          <5> QED
            BY <1>13, <2>2, <2>4, <4>2, <5>1
        <4> QED
          BY <1>1, <4>1, <4>2
      <3>3. nlink'[d] = i_nlink[d] - Up /\ i_nlink'[d] = i_nlink[d] - Up /\ kind[d] = "dir"
        BY <1>1, <1>5 DEF Tree, NamesOK
      <3> QED
        BY <1>13, <2>1, <2>2, <2>4, <3>2, <3>3 DEF CountOK
    <2>5. CASE j # i /\ j # d
      <3>1. RefsTo(Used', kind', j) = RefsTo(Used, kind, j)
        BY <1>5, <1>11, <1>12, <2>5 DEF DotsOf, RefsTo
      <3>2. nlink'[j] = nlink[j] /\ i_nlink'[j] = i_nlink[j]
        BY <1>1, <1>5, <2>5
      <3> QED
        BY <2>1, <3>1, <3>2 DEF CountOK
    <2> QED
      BY <2>3, <2>4, <2>5
  <1> QED
    BY <1>3, <1>4, <1>5, <1>9, <1>14 DEF DirInv, TreeInv

-----------------------------------------------------------------------------
(* Renaming: the target goes, and the source moves                          *)

FinRefs(U, K) == \A j \in Inodes : IsFiniteSet(RefsTo(U, K, j))

NoNames(U, i) == \A a \in U : Dir(a) = i => ~IsName(a)

Size(U, K, j) == Cardinality(RefsTo(U, K, j))

\* The links of "..", of which the directory above has one.
Ups(K, h, i) == IF K[i] = "dir" /\ h THEN 1 ELSE 0

LEMMA TargetGoes ==
    ASSUME NEW U, NEW K, NEW h \in BOOLEAN, Tree(U, K, h), FinRefs(U, K),
           NEW y \in U, IsName(y),
           K[Ino(y)] = "dir" => NoNames(U, Ino(y))
    PROVE  /\ Tree(U \ {y}, K, h) /\ FinRefs(U \ {y}, K)
           /\ \A j \in Inodes : InTree(U \ {y}, K, j) <=> InTree(U, K, j) /\ j # Ino(y)
           /\ \A j \in Inodes :
                 Size(U, K, j) = Size(U \ {y}, K, j)
                     + (IF j = Ino(y) THEN 1 + Ups(K, h, Ino(y))
                        ELSE IF j = Dir(y) THEN Ups(K, h, Ino(y)) ELSE 0)
  <1> DEFINE t == Ino(y)
             e == Dir(y)
             V == U \ {y}
  <1>1. t \in Inodes /\ e \in Inodes /\ t # Root /\ e # t /\ InTree(U, K, e) /\ y \in RefsTo(U, K, t)
    BY Apart DEF Tree, NamesOK, RefsTo
  <1>2. \A a \in U : Dir(a) \in Inodes
    BY DEF Tree, NamesOK
  <1>3. CASE K[t] # "dir"
    <2>1. Tree(V, K, h) /\ \A j \in Inodes : InTree(V, K, j) <=> InTree(U, K, j)
      BY <1>3, LeaveFile
    <2>2. ~InTree(U, K, t)
      BY <1>3 DEF InTree
    <2>3. \A j \in Inodes : RefsTo(V, K, j) = RefsTo(U, K, j) \ {y}
      BY <1>2, <2>1 DEF RefsTo
    <2>4. Ups(K, h, t) = 0
      BY <1>3 DEF Ups
    <2>5. ASSUME NEW j \in Inodes
          PROVE  /\ IsFiniteSet(RefsTo(V, K, j))
                 /\ Size(U, K, j) = Size(V, K, j) + (IF j = t THEN 1 ELSE 0)
      <3>1. IsFiniteSet(RefsTo(U, K, j)) /\ Cardinality(RefsTo(U, K, j)) \in Nat
        BY FS_CardinalityType DEF FinRefs
      <3>2. CASE j = t
        <4>1. PICK R : R = RefsTo(U, K, t) /\ y \in R /\ IsFiniteSet(R) /\ Cardinality(R) \in Nat
          BY <1>1, <3>1, <3>2
        <4>2. IsFiniteSet(R \ {y}) /\ Cardinality(R \ {y}) = Cardinality(R) - 1
          BY <4>1, FS_RemoveElement
        <4>3. RefsTo(V, K, t) = R \ {y}
          BY <1>1, <2>3, <4>1
        <4>4. Size(V, K, t) = Size(U, K, t) - 1 /\ Size(U, K, t) \in Nat
          BY <4>1, <4>2, <4>3 DEF Size
        <4>5. IsFiniteSet(RefsTo(V, K, t))
          BY <4>2, <4>3
        <4>6. Size(U, K, t) = Size(V, K, t) + 1
          <5> HIDE DEF V, t
          <5> QED
            BY <4>4
        <4> QED
          BY <3>2, <4>5, <4>6
      <3>3. CASE j # t
        <4>1. RefsTo(V, K, j) = RefsTo(U, K, j)
          BY <2>3, <3>3 DEF RefsTo
        <4> QED
          BY <3>1, <3>3, <4>1 DEF Size
      <3> QED
        BY <3>2, <3>3
    <2> QED
      BY <2>1, <2>2, <2>4, <2>5 DEF FinRefs
  <1>4. CASE K[t] = "dir"
    <2>1. Tree(V, K, h) /\ \A j \in Inodes : InTree(V, K, j) <=> InTree(U, K, j) /\ j # t
      BY <1>4, LeaveDir DEF NoNames
    <2>2. /\ RefsTo(U, K, t) = {y} \cup (IF h THEN {Dot(t)} ELSE {})
          /\ { a \in U : Dir(a) = t } = DotsOf(h, t, e)
      BY <1>4, EmptyDir DEF NoNames
    <2>3. \A j \in Inodes : RefsTo(V, K, j) = RefsTo(U, K, j) \ ({y} \cup DotsOf(h, t, e))
      <3>1. \A a \in U : Dir(a) = t <=> a \in DotsOf(h, t, e)
        BY <2>2
      <3> QED
        BY <1>2, <2>1, <3>1 DEF RefsTo
    <2>4. Ino(Dot(t)) = t /\ Ino(DotUp(t, e)) = e /\ (h => DotUp(t, e) \in RefsTo(U, K, e))
      BY <1>4, DotIs, DirLinks
    <2>5. Ups(K, h, t) = IF h THEN 1 ELSE 0
      BY <1>4 DEF Ups
    <2>6. ASSUME NEW j \in Inodes
          PROVE  /\ IsFiniteSet(RefsTo(V, K, j))
                 /\ Size(U, K, j) = Size(V, K, j)
                     + (IF j = t THEN 1 + Ups(K, h, t) ELSE IF j = e THEN Ups(K, h, t) ELSE 0)
      <3>1. IsFiniteSet(RefsTo(U, K, j)) /\ Cardinality(RefsTo(U, K, j)) \in Nat
        BY FS_CardinalityType DEF FinRefs
      <3>2. CASE j = t
        <4>1. RefsTo(V, K, t) = {}
          <5>1. RefsTo(V, K, t) = RefsTo(U, K, t) \ ({y} \cup DotsOf(h, t, e))
            BY <1>1, <2>3
          <5>2. CASE h
            BY <2>2, <5>1, <5>2 DEF DotsOf
          <5>3. CASE ~h
            BY <2>2, <5>1, <5>3 DEF DotsOf
          <5> QED
            BY <5>2, <5>3
        <4>2. IsFiniteSet({}) /\ Cardinality({}) = 0
          BY FS_EmptySet
        <4>3. IsFiniteSet({y}) /\ Cardinality({y}) = 1 /\ y # Dot(t)
          BY FS_Singleton, DotIs
        <4>4. Cardinality({y} \cup {Dot(t)}) = 1 + 1
          BY <4>3, FS_AddElement
        <4>5. Cardinality(RefsTo(U, K, t)) = IF h THEN 2 ELSE 1
          <5>1. {y} \cup {} = {y}
            OBVIOUS
          <5> QED
            BY <2>2, <4>3, <4>4, <5>1
        <4> QED
          BY <2>5, <3>2, <4>1, <4>2, <4>5 DEF Size
      <3>3. CASE j = e
        <4>1. RefsTo(V, K, e) = RefsTo(U, K, e) \ UpOf(h, t, e)
          BY <1>1, <2>3, <2>4 DEF DotsOf, UpOf, RefsTo
        <4>2. CASE h
          <5>1. RefsTo(V, K, e) = RefsTo(U, K, e) \ {DotUp(t, e)}
            BY <4>1, <4>2 DEF UpOf
          <5> QED
            <6>1. PICK R : /\ R = RefsTo(U, K, e) /\ DotUp(t, e) \in R /\ IsFiniteSet(R)
                           /\ Cardinality(R) \in Nat
              BY <2>4, <3>1, <3>3, <4>2
            <6>2. /\ IsFiniteSet(R \ {DotUp(t, e)})
                  /\ Cardinality(R \ {DotUp(t, e)}) = Cardinality(R) - 1
              BY <6>1, FS_RemoveElement
            <6>3. Size(V, K, e) = Size(U, K, e) - 1 /\ Size(U, K, e) \in Nat
              BY <5>1, <6>1, <6>2 DEF Size
            <6>4. IsFiniteSet(RefsTo(V, K, e))
              BY <5>1, <6>1, <6>2
            <6> QED
              BY <1>1, <2>5, <3>3, <4>2, <6>3, <6>4
        <4>3. CASE ~h
          <5>1. RefsTo(V, K, e) = RefsTo(U, K, e)
            BY <4>1, <4>3 DEF UpOf
          <5> QED
            BY <1>1, <2>5, <3>1, <3>3, <4>3, <5>1 DEF Size
        <4> QED
          BY <4>2, <4>3
      <3>4. CASE j # t /\ j # e
        <4>1. RefsTo(V, K, j) = RefsTo(U, K, j)
          BY <2>3, <2>4, <3>4 DEF DotsOf, RefsTo
        <4> QED
          BY <3>1, <3>4, <4>1 DEF Size
      <3> QED
        BY <3>2, <3>3, <3>4
    <2> QED
      BY <2>1, <2>6 DEF FinRefs
  <1> QED
    BY <1>3, <1>4

LEMMA FileMoves ==
    ASSUME NEW U, NEW K, NEW h \in BOOLEAN, Tree(U, K, h), FinRefs(U, K),
           NEW x \in U, IsName(x), K[Ino(x)] = "file",
           NEW z, IsName(z), Ino(z) = Ino(x), InTree(U, K, Dir(z)), Dir(z) \in Inodes,
           \A a \in U : ~(Dir(a) = Dir(z) /\ Nm(a) = Nm(z))
    PROVE  /\ Tree((U \ {x}) \cup {z}, K, h) /\ FinRefs((U \ {x}) \cup {z}, K)
           /\ \A j \in Inodes : InTree((U \ {x}) \cup {z}, K, j) <=> InTree(U, K, j)
           /\ \A j \in Inodes : Size((U \ {x}) \cup {z}, K, j) = Size(U, K, j)
  <1> DEFINE V == U \ {x}
             X == V \cup {z}
             i == Ino(x)
  <1>1. Tree(V, K, h) /\ \A j \in Inodes : InTree(V, K, j) <=> InTree(U, K, j)
    BY LeaveFile
  <1>2. i \in Inodes /\ \A a \in U : Dir(a) \in Inodes
    BY DEF Tree, NamesOK
  <1>3. Becomes(K, K, i, "file")
    BY DEF Becomes
  <1>4. Tree(X, K, h) /\ \A j \in Inodes : InTree(X, K, j) <=> InTree(V, K, j)
    <2>1. InTree(V, K, Dir(z)) /\ \A a \in V : ~(Dir(a) = Dir(z) /\ Nm(a) = Nm(z))
      BY <1>1
    <2> HIDE DEF V
    <2>2. Tree(V, K, h) /\ Becomes(K, K, Ino(z), "file") /\ K[Ino(z)] \in {"none", "file"}
      BY <1>1, <1>3
    <2> QED
      BY <1>2, <2>1, <2>2, EnterFile
  <1>5. \A j \in Inodes : RefsTo(X, K, j) = (RefsTo(U, K, j) \ {x}) \cup (IF j = i THEN {z} ELSE {})
    BY <1>1, <1>2, <1>4 DEF RefsTo
  <1>6. x \in RefsTo(U, K, i) /\ z \notin U
    BY Apart DEF RefsTo
  <1>7. ASSUME NEW j \in Inodes
        PROVE  IsFiniteSet(RefsTo(X, K, j)) /\ Size(X, K, j) = Size(U, K, j)
    <2>1. IsFiniteSet(RefsTo(U, K, j)) /\ Cardinality(RefsTo(U, K, j)) \in Nat
      BY FS_CardinalityType DEF FinRefs
    <2>2. CASE j = i
      <3>1. PICK R : R = RefsTo(U, K, i) \ {x}
        OBVIOUS
      <3>2. IsFiniteSet(R) /\ Cardinality(R) = Cardinality(RefsTo(U, K, i)) - 1
        BY <1>6, <2>1, <2>2, <3>1, FS_RemoveElement
      <3>3. z \notin R
        BY <1>6, <3>1 DEF RefsTo
      <3>4. IsFiniteSet(R \cup {z}) /\ Cardinality(R \cup {z}) = Cardinality(R) + 1
        BY <3>2, <3>3, FS_AddElement
      <3>5. RefsTo(X, K, i) = R \cup {z}
        BY <1>2, <1>5, <3>1
      <3> QED
        <4>1. Size(X, K, i) = Cardinality(RefsTo(U, K, i)) - 1 + 1
          BY <3>2, <3>4, <3>5 DEF Size
        <4>2. IsFiniteSet(RefsTo(X, K, i))
          BY <3>4, <3>5
        <4> QED
          BY <2>1, <2>2, <4>1, <4>2 DEF Size
    <2>3. CASE j # i
      <3>1. RefsTo(X, K, j) = RefsTo(U, K, j)
        BY <1>5, <2>3 DEF RefsTo
      <3> QED
        BY <2>1, <3>1 DEF Size
    <2> QED
      BY <2>2, <2>3
  <1> QED
    BY <1>1, <1>4, <1>7 DEF FinRefs

LEMMA DirMoves ==
    ASSUME NEW U, NEW K, NEW h \in BOOLEAN, Tree(U, K, h), FinRefs(U, K),
           NEW x \in U, IsName(x), K[Ino(x)] = "dir",
           NEW z, IsName(z), Ino(z) = Ino(x), InTree(U, K, Dir(z)), Dir(z) \in Inodes,
           \A a \in U : ~(Dir(a) = Dir(z) /\ Nm(a) = Nm(z)),
           NEW A \in SUBSET (Inodes \ {Ino(x)}), Dir(z) \in A,
           Closed(U, A)
    PROVE  /\ Tree(Moved(U, h, x, z), K, h) /\ FinRefs(Moved(U, h, x, z), K)
           /\ \A j \in Inodes : InTree(Moved(U, h, x, z), K, j) <=> InTree(U, K, j)
           /\ \A j \in Inodes :
                 Size(Moved(U, h, x, z), K, j) + (IF j = Dir(x) THEN Ups(K, h, Ino(x)) ELSE 0)
                     = Size(U, K, j) + (IF j = Dir(z) THEN Ups(K, h, Ino(x)) ELSE 0)
  <1> DEFINE V == Moved(U, h, x, z)
             i == Ino(x)
             d == Dir(x)
             e == Dir(z)
  <1>1. Tree(V, K, h) /\ \A j \in Inodes : InTree(V, K, j) <=> InTree(U, K, j)
    BY MoveDir
  <1> HIDE DEF V
  <1>2. /\ i \in Inodes /\ d # i /\ e # i /\ d \in Inodes /\ InTree(U, K, i) /\ \A a \in U : Dir(a) \in Inodes
        /\ x \in RefsTo(U, K, i) /\ z \notin U
    BY DirLinks DEF Tree, NamesOK
  <1>3. V = (U \ ({x} \cup UpOf(h, i, d))) \cup {z} \cup UpOf(h, i, e)
    BY DEF V, Moved
  <1>4. /\ Dir(DotUp(i, d)) = i /\ Dir(DotUp(i, e)) = i
        /\ Ino(DotUp(i, d)) = d /\ Ino(DotUp(i, e)) = e
        /\ Nm(DotUp(i, d)) = ".." /\ Nm(DotUp(i, e)) = ".."
        /\ (h => DotUp(i, d) \in RefsTo(U, K, d))
    BY DotIs, DirLinks
  <1>5. \A j \in Inodes : RefsTo(V, K, j)
                  = (RefsTo(U, K, j) \ ({x} \cup UpOf(h, i, d)))
                    \cup (IF j = i THEN {z} ELSE {}) \cup (IF j = e THEN UpOf(h, i, e) ELSE {})
    <2>1. \A a \in UpOf(h, i, e) : Dir(a) = i /\ Ino(a) = e
      BY <1>4 DEF UpOf
    <2> QED
      BY <1>1, <1>2, <1>3, <2>1 DEF RefsTo
  <1>6. \A a \in UpOf(h, i, d) : a \in RefsTo(U, K, d)
    BY <1>4 DEF UpOf
  <1>7. h /\ d # e => DotUp(i, e) \notin U
    <2> SUFFICES ASSUME h, d # e, DotUp(i, e) \in U PROVE FALSE
      OBVIOUS
    <2>1. DotUp(i, d) \in U
      BY DotUpIs
    <2>2. DotUp(i, d) = DotUp(i, e)
      BY <1>4, <2>1 DEF Tree, NamesOK
    <2> QED
      BY <1>4, <2>2
  <1>8. Ups(K, h, i) = IF h THEN 1 ELSE 0
    BY DEF Ups
  <1>9. ASSUME NEW j \in Inodes
        PROVE  /\ IsFiniteSet(RefsTo(V, K, j))
               /\ Size(V, K, j) + (IF j = d THEN Ups(K, h, i) ELSE 0)
                     = Size(U, K, j) + (IF j = e THEN Ups(K, h, i) ELSE 0)
    <2>1. IsFiniteSet(RefsTo(U, K, j)) /\ Cardinality(RefsTo(U, K, j)) \in Nat
      BY FS_CardinalityType DEF FinRefs
    <2>2. CASE j = i
      <3>1. PICK R : R = RefsTo(U, K, i) \ {x}
        OBVIOUS
      <3>2. IsFiniteSet(R) /\ Cardinality(R) = Cardinality(RefsTo(U, K, i)) - 1
        BY <1>2, <2>1, <2>2, <3>1, FS_RemoveElement
      <3>3. z \notin R
        BY <1>2, <3>1 DEF RefsTo
      <3>4. IsFiniteSet(R \cup {z}) /\ Cardinality(R \cup {z}) = Cardinality(R) + 1
        BY <3>2, <3>3, FS_AddElement
      <3>5. RefsTo(V, K, i) = R \cup {z}
        <4>1. RefsTo(U, K, i) \ ({x} \cup UpOf(h, i, d)) = R
          BY <1>2, <1>6, <3>1 DEF RefsTo
        <4> QED
          BY <1>2, <1>5, <4>1
      <3> QED
        BY <1>2, <2>1, <2>2, <3>2, <3>4, <3>5 DEF Size
    <2>3. CASE j = d /\ j = e
      <3>1. RefsTo(V, K, j) = RefsTo(U, K, j)
        <4>1. x \notin RefsTo(U, K, j)
          BY <1>2, <2>3 DEF RefsTo
        <4>2. UpOf(h, i, d) = UpOf(h, i, e) /\ UpOf(h, i, e) \subseteq RefsTo(U, K, j)
          BY <1>6, <2>3
        <4> QED
          BY <1>2, <1>5, <2>3, <4>1, <4>2
      <3> QED
        BY <2>1, <2>3, <3>1 DEF Size
    <2>4. CASE j = d /\ j # e
      <3>1. RefsTo(V, K, d) = RefsTo(U, K, d) \ UpOf(h, i, d)
        BY <1>2, <1>5, <2>4 DEF RefsTo
      <3>2. CASE h
        <4>1. RefsTo(V, K, d) = RefsTo(U, K, d) \ {DotUp(i, d)}
          BY <3>1, <3>2 DEF UpOf
        <4> QED
          <5>1. PICK R : /\ R = RefsTo(U, K, d) /\ DotUp(i, d) \in R /\ IsFiniteSet(R)
                         /\ Cardinality(R) \in Nat
            BY <1>4, <2>1, <2>4, <3>2
          <5>2. /\ IsFiniteSet(R \ {DotUp(i, d)})
                /\ Cardinality(R \ {DotUp(i, d)}) = Cardinality(R) - 1
            BY <5>1, FS_RemoveElement
          <5>3. Size(V, K, d) = Size(U, K, d) - 1 /\ Size(U, K, d) \in Nat
            BY <4>1, <5>1, <5>2 DEF Size
          <5>4. IsFiniteSet(RefsTo(V, K, d))
            BY <4>1, <5>1, <5>2
          <5> QED
            BY <1>8, <2>4, <3>2, <5>3, <5>4
      <3>3. CASE ~h
        <4>1. RefsTo(V, K, d) = RefsTo(U, K, d)
          BY <3>1, <3>3 DEF UpOf
        <4> QED
          BY <1>8, <2>1, <2>4, <3>3, <4>1 DEF Size
      <3> QED
        BY <3>2, <3>3
    <2>5. CASE j = e /\ j # d
      <3>1. RefsTo(V, K, e) = RefsTo(U, K, e) \cup UpOf(h, i, e)
        <4>1. RefsTo(U, K, e) \ ({x} \cup UpOf(h, i, d)) = RefsTo(U, K, e)
          BY <1>2, <1>6, <2>5 DEF RefsTo
        <4> QED
          BY <1>2, <1>5, <2>5, <4>1
      <3>2. CASE h
        <4>1. RefsTo(V, K, e) = RefsTo(U, K, e) \cup {DotUp(i, e)}
          BY <3>1, <3>2 DEF UpOf
        <4>2. DotUp(i, e) \notin RefsTo(U, K, e)
          BY <1>7, <2>5, <3>2 DEF RefsTo
        <4> QED
          <5>1. PICK R : R = RefsTo(U, K, e) /\ IsFiniteSet(R) /\ Cardinality(R) \in Nat
            BY <2>1, <2>5
          <5>2. /\ IsFiniteSet(R \cup {DotUp(i, e)})
                /\ Cardinality(R \cup {DotUp(i, e)}) = Cardinality(R) + 1
            BY <4>2, <5>1, FS_AddElement
          <5>3. Size(V, K, e) = Size(U, K, e) + 1 /\ Size(U, K, e) \in Nat
            BY <4>1, <5>1, <5>2 DEF Size
          <5>4. IsFiniteSet(RefsTo(V, K, e))
            BY <4>1, <5>1, <5>2
          <5> QED
            BY <1>8, <2>5, <3>2, <5>3, <5>4
      <3>3. CASE ~h
        <4>1. RefsTo(V, K, e) = RefsTo(U, K, e)
          BY <3>1, <3>3 DEF UpOf
        <4> QED
          BY <1>8, <2>1, <2>5, <3>3, <4>1 DEF Size
      <3> QED
        BY <3>2, <3>3
    <2>6. CASE j # i /\ j # d /\ j # e
      <3>1. RefsTo(V, K, j) = RefsTo(U, K, j)
        BY <1>5, <1>6, <2>6 DEF RefsTo
      <3> QED
        BY <2>1, <2>6, <3>1 DEF Size
    <2> QED
      BY <2>2, <2>3, <2>4, <2>5, <2>6
  <1> QED
    BY <1>1, <1>9 DEF FinRefs, V

\* The entry of the name m of e, if there is one.
Target(e, m) == { y \in Used : Dir(y) = e /\ Nm(y) = m }

LEMMA EnteredStep ==
    ASSUME Sane, Short(slots), has_dots \in BOOLEAN, NEW e \in Inodes, NEW m \in Names,
           NEW i \in Inodes, Lookup(e, m) # i, Lookup(e, m) = Free => HasRoom(e)
    PROVE  \E z : /\ IsName(z) /\ Dir(z) = e /\ Nm(z) = m /\ Ino(z) = i /\ z \notin Used
                  /\ Entered(e, m, i, Lookup(e, m)) \in Files
                  /\ Short(Entered(e, m, i, Lookup(e, m)))
                  /\ All(Entered(e, m, i, Lookup(e, m))) = (Used \ Target(e, m)) \cup {z}
  <1>1. CASE Lookup(e, m) = Free
    <2>1. Target(e, m) = {}
      BY <1>1, FoundIs DEF Target, Sane
    <2>2. Entered(e, m, i, Lookup(e, m)) = [slots EXCEPT ![e] = AddLink(slots[e], m, i)]
      BY <1>1 DEF Entered
    <2>3. HasRoom(e) /\ slots \in Files
      BY <1>1 DEF Sane
    <2>4. \E z : /\ IsName(z) /\ Dir(z) = e /\ Ino(z) = i /\ Nm(z) = m /\ z \notin Used
                 /\ [slots EXCEPT ![e] = AddLink(slots[e], m, i)] \in Files
                 /\ Short([slots EXCEPT ![e] = AddLink(slots[e], m, i)])
                 /\ All([slots EXCEPT ![e] = AddLink(slots[e], m, i)]) = Used \cup {z}
      BY <2>3, AddStep
    <2> QED
      BY <2>1, <2>2, <2>4
  <1>2. CASE Lookup(e, m) # Free
    <2>1. PICK y \in Used : /\ Dir(y) = e /\ Nm(y) = m /\ IsName(y)
                            /\ Ino(y) = Lookup(e, m) /\ y[3] = At(e, m)
      BY <1>2, FoundIs DEF Sane
    <2>2. Target(e, m) = {y}
      BY <2>1 DEF Target, Sane, Tree, NamesOK
    <2>3. PICK r : r = [slots EXCEPT ![Dir(y)][y[3]].ino = i]
      OBVIOUS
    <2>4. i # Free
      BY DirectoryAssumption
    <2>5. r \in Files /\ Short(r) /\ All(r) = (Used \ {y}) \cup {<<Dir(y), DE(i, Nm(y)), y[3]>>}
      BY <2>3, <2>4, SetStep DEF Used, Sane
    <2>6. PICK z : z = <<Dir(y), DE(i, Nm(y)), y[3]>>
      OBVIOUS
    <2>7. Dir(z) = e /\ Nm(z) = m /\ Ino(z) = i
      BY <2>1, <2>6, ItemIs
    <2>8. z \notin Used
      BY <2>1, <2>7 DEF Sane, Tree, NamesOK
    <2>9. Entered(e, m, i, Lookup(e, m)) = r
      BY <1>2, <2>1, <2>3 DEF Entered
    <2> QED
      BY <2>2, <2>5, <2>6, <2>7, <2>8, <2>9 DEF IsName
  <1> QED
    BY <1>1, <1>2

LEMMA LeftStep ==
    ASSUME NEW s \in Files, NEW d, NEW n, NEW x \in All(s), Dir(x) = d, x[3] = At(d, n)
    PROVE  /\ Left(s, d, n) \in Files /\ (Short(s) => Short(Left(s, d, n)))
           /\ All(Left(s, d, n)) = All(s) \ {x}
  <1>1. Left(s, d, n) = [s EXCEPT ![Dir(x)][x[3]] = Deleted]
    BY DEF Left
  <1> QED
    BY <1>1, LeaveStep

LEMMA DotDotStep ==
    ASSUME NEW s \in Files, NEW i \in Inodes, NEW e \in Inodes,
           \E w \in All(s) : Dir(w) = i /\ Nm(w) = ".."
    PROVE  /\ DotDot(s, i, e) \in Files /\ (Short(s) => Short(DotDot(s, i, e)))
           /\ \E w \in All(s) : /\ Dir(w) = i /\ Nm(w) = ".."
                                /\ All(DotDot(s, i, e)) = (All(s) \ {w})
                                     \cup (IF e = Root THEN {} ELSE {<<i, DE(e, ".."), w[3]>>})
  <1> DEFINE P(k) == k \in DOMAIN s[i] /\ InUse(s[i][k]) /\ s[i][k].name = ".."
             k == CHOOSE k \in DOMAIN s[i] : InUse(s[i][k]) /\ s[i][k].name = ".."
             q == IF e = Root THEN Free ELSE e
  <1>1. PICK v \in All(s) : Dir(v) = i /\ Nm(v) = ".."
    OBVIOUS
  <1>2. v[3] \in DOMAIN s[i] /\ InUse(s[i][v[3]]) /\ s[i][v[3]].name = ".."
    <2>1. PICK c, j : c \in Inodes /\ j \in DOMAIN s[c] /\ InUse(s[c][j]) /\ v = <<c, s[c][j], j>>
      BY AllIs
    <2> QED
      BY <1>1, <2>1 DEF Dir, Nm
  <1>3. k \in DOMAIN s[i] /\ InUse(s[i][k]) /\ s[i][k].name = ".."
    BY <1>2
  <1>9. DotDot(s, i, e) = [s EXCEPT ![i][k].ino = q]
    BY DEF DotDot
  <1> HIDE DEF k, q
  <1>4. PICK w \in All(s) : w = <<i, s[i][k], k>>
    BY <1>3, AllThere
  <1>5. Dir(w) = i /\ Nm(w) = ".." /\ w[3] = k
    BY <1>3, <1>4 DEF Dir, Nm
  <1>6. q \in Inodes \cup {Free} /\ (q = Free <=> e = Root) /\ (e # Root => q = e)
    BY DirectoryAssumption DEF q
  <1>7. PICK r : r = [s EXCEPT ![Dir(w)][w[3]].ino = q]
    OBVIOUS
  <1>8. /\ r \in Files /\ (Short(s) => Short(r))
        /\ All(r) = (All(s) \ {w}) \cup (IF q = Free THEN {} ELSE {<<Dir(w), DE(q, Nm(w)), w[3]>>})
    BY <1>6, <1>7, SetStep
  <1>10. r = DotDot(s, i, e)
    BY <1>5, <1>7, <1>9
  <1> QED
    BY <1>5, <1>6, <1>8, <1>10

\* The entries and inodes a rename is about: x is the name it takes away, y the one that
\* it overwrites.
LEMMA RenameOf ==
    ASSUME DirInv, sound, NEW d \in Inodes, NEW n \in Names, NEW e \in Inodes, NEW m \in Names,
           Found(d, n), Live(e), Renames(d, n, e, m), NEW i, i = Lookup(d, n), NEW t, t = Lookup(e, m)
    PROVE  /\ i \in Inodes /\ i # d /\ i # e /\ i # t /\ InTree(Used, kind, e)
           /\ kind[i] \in {"file", "dir"}
           /\ t = Free => HasRoom(e)
           /\ t # Free => t \in Inodes /\ t # e /\ kind[t] = kind[i]
           /\ t # Free /\ kind[i] = "dir" => d # t /\ NoNames(Used, t)
           /\ \E x \in Used : /\ IsName(x) /\ Dir(x) = d /\ Nm(x) = n /\ Ino(x) = i
                              /\ x[3] = At(d, n) /\ x \notin Target(e, m)
           /\ IF t = Free THEN Target(e, m) = {}
              ELSE \E y \in Used : /\ IsName(y) /\ Dir(y) = e /\ Nm(y) = m /\ Ino(y) = t
                                   /\ Target(e, m) = {y}
  <1>1. /\ Sane /\ Tree(Used, kind, has_dots) /\ slots \in Files
        /\ kind \in [Inodes -> {"none", "file", "dir"}] /\ InTree(Used, kind, e)
    BY Before
  <1>2. /\ <<d, n>> # <<e, m>> /\ t # i
        /\ (t # Free => kind[t] = kind[i])
        /\ (kind[i] = "dir" => ~Below(e, i))
        /\ (t # Free /\ kind[i] = "dir" => IsEmpty(slots[t]))
        /\ (t = Free => HasRoom(e))
    BY DEF Renames, MayRename
  <1>3. PICK x \in Used : /\ IsName(x) /\ Dir(x) = d /\ Nm(x) = n /\ Ino(x) = i
                          /\ x[3] = At(d, n) /\ i \in Inodes
    BY <1>1, FoundIs
  <1>4. x \notin Target(e, m)
    BY <1>2, <1>3 DEF Target
  <1>5. i # d /\ kind[i] \in {"file", "dir"}
    <2>1. i # d /\ kind[i] # "none"
      BY <1>1, <1>3, Apart
    <2> QED
      BY <1>1, <1>3, <2>1
  <1>6. i # e
    <2>1. CASE kind[i] = "dir"
      <3>1. Below(i, i)
        BY DEF Below
      <3> QED
        BY <1>2, <2>1, <3>1
    <2>2. CASE kind[i] = "file"
      BY <1>1, <2>2 DEF InTree
    <2> QED
      BY <1>5, <2>1, <2>2
  <1>7. CASE t = Free
    <2>1. ~Found(e, m)
      <3>1. slots \in Files /\ Lookup(e, m) = Free
        BY <1>1, <1>7
      <3> QED
        BY <3>1, FoundIs
    <2>2. Target(e, m) = {}
      BY <1>1, <2>1, FoundIs DEF Target
    <2> QED
      BY <1>1, <1>2, <1>3, <1>4, <1>5, <1>6, <1>7, <2>2
  <1>8. CASE t # Free
    <2>1. PICK y \in Used : /\ IsName(y) /\ Dir(y) = e /\ Nm(y) = m /\ Ino(y) = t /\ t \in Inodes
      BY <1>1, <1>8, FoundIs
    <2>2. t # e
      BY <1>1, <2>1, Apart
    <2>3. Target(e, m) = {y}
      BY <1>1, <2>1 DEF Target, Tree, NamesOK
    <2>4. kind[i] = "dir" => NoNames(Used, t)
      BY <1>1, <1>2, <1>8, <2>1, EmptyIs DEF NoNames
    <2>5. kind[i] = "dir" => d # t
      BY <1>3, <2>4 DEF NoNames
    <2> QED
      BY <1>1, <1>2, <1>3, <1>4, <1>5, <1>6, <1>8, <2>1, <2>2, <2>3, <2>4, <2>5
  <1> QED
    BY <1>7, <1>8

LEMMA RenameCounts ==
    ASSUME DirInv, sound, NEW d \in Inodes, NEW n \in Names, NEW e \in Inodes, NEW m \in Names,
           Found(d, n), Live(e), Renames(d, n, e, m), NEW i, i = Lookup(d, n), NEW t, t = Lookup(e, m),
           NEW u, u = Ups(kind, has_dots, i), NEW c, c = Counted(e, i, t)
    PROVE  /\ u \in {0, 1} /\ c \in [Inodes -> Nat] /\ c[d] >= u
           /\ \A j \in Inodes : c[j] = IF j = t THEN nlink[j] - 1 - u
                                       ELSE IF j = e THEN i_nlink[j] + (IF t = Free THEN u ELSE 0)
                                       ELSE nlink[j]
           /\ LeftCount(c, d, i) \in [Inodes -> Nat]
           /\ \A j \in Inodes : LeftCount(c, d, i)[j] = IF j = d THEN c[j] - u ELSE c[j]
           /\ Conformed(c, {d, e, i, t}) \in [Inodes -> Nat]
           /\ \A j \in Inodes : Conformed(c, {d, e, i, t})[j]
                                  = IF j \in {d, e, i, t} THEN c[j] ELSE i_nlink[j]
  <1>1. /\ Sane /\ Tree(Used, kind, has_dots) /\ slots \in Files /\ has_dots \in BOOLEAN
        /\ nlink \in [Inodes -> Nat] /\ i_nlink \in [Inodes -> Nat]
        /\ \A j \in Inodes : CountOK(RefsTo(Used, kind, j), j)
    BY Before
  <1>2. /\ i \in Inodes
        /\ t # Free => t \in Inodes /\ t # e /\ kind[t] = kind[i]
        /\ t # Free /\ kind[i] = "dir" => d # t
    BY RenameOf
  <1>3. PICK x \in Used : IsName(x) /\ Dir(x) = d /\ Ino(x) = i
    BY RenameOf
  <1>4. u \in {0, 1} /\ (MovesDots(i) <=> u = 1) /\ (u = 1 => kind[i] = "dir" /\ Up = 1)
    BY DEF Ups, MovesDots, Up
  <1>5. u = 1 => i_nlink[d] >= 1 /\ nlink[d] >= 1
    BY <1>1, <1>3, <1>4, LinksIs
  <1>6. \A j \in Inodes : nlink[j] \in Nat /\ i_nlink[j] \in Nat
    BY <1>1
  <1>7. ASSUME t = Free
        PROVE  /\ c \in [Inodes -> Nat] /\ c[d] >= u
               /\ \A j \in Inodes : c[j] = IF j = t THEN nlink[j] - 1 - u
                                           ELSE IF j = e THEN i_nlink[j] + (IF t = Free THEN u ELSE 0)
                                           ELSE nlink[j]
    <2>1. c = [nlink EXCEPT ![e] = i_nlink[e] + u]
      BY <1>4, <1>7 DEF Counted
    <2>2. t \notin Inodes
      BY <1>7, DirectoryAssumption
    <2>3. \A j \in Inodes : c[j] = IF j = e THEN i_nlink[j] + u ELSE nlink[j]
      BY <1>1, <2>1
    <2>4. c \in [Inodes -> Nat]
      BY <1>1, <1>4, <1>6, <2>1
    <2>5. c[d] >= u
      BY <1>4, <1>5, <1>6, <2>3
    <2>6. \A j \in Inodes : c[j] = IF j = t THEN nlink[j] - 1 - u
                                   ELSE IF j = e THEN i_nlink[j] + (IF t = Free THEN u ELSE 0)
                                   ELSE nlink[j]
      BY <1>7, <2>2, <2>3
    <2> QED
      BY <2>4, <2>5, <2>6
  <1>8. ASSUME t # Free
        PROVE  /\ c \in [Inodes -> Nat] /\ c[d] >= u
               /\ \A j \in Inodes : c[j] = IF j = t THEN nlink[j] - 1 - u
                                           ELSE IF j = e THEN i_nlink[j] + (IF t = Free THEN u ELSE 0)
                                           ELSE nlink[j]
    <2>1. c = [nlink EXCEPT ![e] = i_nlink[e], ![t] = nlink[t] - 1 - u]
      BY <1>2, <1>4, <1>8 DEF Counted
    <2>2. PICK y \in Used : IsName(y) /\ Dir(y) = e /\ Ino(y) = t
      BY <1>8, RenameOf
    <2>3. nlink[t] - 1 - u \in Nat
      <3>1. nlink[t] >= 1 /\ (u = 1 => nlink[t] >= 2) /\ nlink[t] \in Nat
        <4>1. nlink[t] >= 1
          BY <1>1, <2>2, LinksIs
        <4>2. kind[t] = "dir" => nlink[t] >= 1 + Up
          BY <1>1, <2>2, LinksIs
        <4> QED
          BY <1>2, <1>4, <1>6, <1>8, <4>1, <4>2
      <3> QED
        BY <1>4, <3>1
    <2>4. \A j \in Inodes : c[j] = IF j = t THEN nlink[j] - 1 - u ELSE IF j = e THEN i_nlink[j] ELSE nlink[j]
      BY <1>1, <1>2, <1>8, <2>1
    <2>5. c \in [Inodes -> Nat]
      BY <1>1, <1>2, <1>8, <2>1, <2>3
    <2>6. c[d] >= u
      <3>1. CASE u = 1
        BY <1>2, <1>4, <1>5, <1>8, <2>4, <3>1
      <3>2. CASE u = 0
        BY <2>5, <3>2
      <3> QED
        BY <1>4, <3>1, <3>2
    <2>7. \A j \in Inodes : c[j] = IF j = t THEN nlink[j] - 1 - u
                                   ELSE IF j = e THEN i_nlink[j] + (IF t = Free THEN u ELSE 0)
                                   ELSE nlink[j]
      BY <1>6, <1>8, <2>4
    <2> QED
      BY <2>5, <2>6, <2>7
  <1>9. c \in [Inodes -> Nat] /\ c[d] >= u
    BY <1>7, <1>8
  <1>10. LeftCount(c, d, i) = [c EXCEPT ![d] = c[d] - u]
    <2>1. c[d] \in Nat
      BY <1>9
    <2>2. CASE u = 1
      BY <1>4, <2>2 DEF LeftCount
    <2>3. CASE u = 0
      <3>1. c[d] - u = c[d] /\ ~MovesDots(i)
        BY <1>4, <2>1, <2>3
      <3>2. LeftCount(c, d, i) = [c EXCEPT ![d] = c[d]]
        BY <3>1 DEF LeftCount
      <3> QED
        BY <3>1, <3>2
    <2> QED
      BY <1>4, <2>2, <2>3
  <1>11. c[d] - u \in Nat
    BY <1>4, <1>9
  <1>12. /\ LeftCount(c, d, i) \in [Inodes -> Nat]
         /\ \A j \in Inodes : LeftCount(c, d, i)[j] = IF j = d THEN c[j] - u ELSE c[j]
    BY <1>9, <1>10, <1>11
  <1>13. /\ Conformed(c, {d, e, i, t}) \in [Inodes -> Nat]
         /\ \A j \in Inodes : Conformed(c, {d, e, i, t})[j]
                                = IF j \in {d, e, i, t} THEN c[j] ELSE i_nlink[j]
    BY <1>6, <1>9 DEF Conformed
  <1> QED
    BY <1>4, <1>7, <1>8, <1>12, <1>13

\* The two failures of a rename leave counts and files that are well-formed.
LEMMA RenameLosesKeeps ==
    ASSUME DirInv, sound, NEW d \in Inodes, NEW n \in Names, NEW e \in Inodes, NEW m \in Names,
           Found(d, n), Live(e), RenameLoses(d, n, e, m)
    PROVE  DirInv'
  <1>1. PICK i, t, u, c : /\ i = Lookup(d, n) /\ t = Lookup(e, m) /\ u = Ups(kind, has_dots, i)
                          /\ c = Counted(e, i, t)
    OBVIOUS
  <1>2. PICK up \in BOOLEAN : up = (MovesDots(i) /\ d # e)
    BY DEF MovesDots
  <1>3. /\ Renames(d, n, e, m)
        /\ \/ slots' = IF up THEN DotDot(Left(slots, d, n), i, e) ELSE Left(slots, d, n)
           \/ up /\ slots' = Left(Entered(e, m, i, t), d, n)
        /\ nlink' = LeftCount(c, d, i)
        /\ i_nlink' = [Conformed(c, {d, e, i, t}) EXCEPT ![d] = nlink'[d]]
        /\ sound' = FALSE
        /\ UNCHANGED <<kind, opened, has_dots, clean>>
    BY <1>1, <1>2 DEF RenameLoses
  <1>4. /\ Sane /\ Tree(Used, kind, has_dots) /\ slots \in Files /\ Short(slots)
        /\ has_dots \in BOOLEAN
    BY Before
  <1>5. /\ i \in Inodes /\ i # t /\ (t = Free => HasRoom(e))
    BY <1>1, <1>3, RenameOf
  <1>6. PICK x \in Used : /\ IsName(x) /\ Dir(x) = d /\ Nm(x) = n /\ Ino(x) = i
                          /\ x[3] = At(d, n) /\ x \notin Target(e, m)
    BY <1>1, <1>3, RenameOf
  <1>7. LeftCount(c, d, i) \in [Inodes -> Nat] /\ Conformed(c, {d, e, i, t}) \in [Inodes -> Nat]
    BY SMTT(30), <1>1, <1>3, RenameCounts
  <1>8. nlink' \in [Inodes -> Nat] /\ i_nlink' \in [Inodes -> Nat]
    BY <1>3, <1>7
  <1>9. slots' \in Files /\ Short(slots')
    <2>1. PICK s : s = Left(slots, d, n)
      OBVIOUS
    <2>2. s \in Files /\ Short(s) /\ All(s) = Used \ {x}
      BY <1>4, <1>6, <2>1, LeftStep DEF Used
    <2>3. up => DotDot(s, i, e) \in Files /\ Short(DotDot(s, i, e))
      <3> SUFFICES ASSUME up PROVE DotDot(s, i, e) \in Files /\ Short(DotDot(s, i, e))
        OBVIOUS
      <3>1. Match(i, "..") # {}
        BY <1>1, <1>2, <1>3 DEF Renames
      <3>2. PICK w \in Used : Dir(w) = i /\ Nm(w) = ".."
        <4>1. PICK k \in DOMAIN slots[i] : InUse(slots[i][k]) /\ slots[i][k].name = ".."
          BY <3>1 DEF Match
        <4>2. PICK w \in Used : w = <<i, slots[i][k], k>>
          BY <1>5, <4>1, AllThere DEF Used
        <4> QED
          BY <4>1, <4>2 DEF Dir, Nm
      <3>3. w # x
        BY <1>6, <3>2, DirectoryAssumption DEF IsName
      <3>4. \E v \in All(s) : Dir(v) = i /\ Nm(v) = ".."
        BY <2>2, <3>2, <3>3
      <3> QED
        BY <1>5, <2>2, <3>4, DotDotStep
    <2>4. Left(Entered(e, m, i, t), d, n) \in Files /\ Short(Left(Entered(e, m, i, t), d, n))
      <3>1. PICK z : /\ IsName(z) /\ Dir(z) = e /\ Nm(z) = m /\ Ino(z) = i /\ z \notin Used
                     /\ Entered(e, m, i, Lookup(e, m)) \in Files
                     /\ Short(Entered(e, m, i, Lookup(e, m)))
                     /\ All(Entered(e, m, i, Lookup(e, m))) = (Used \ Target(e, m)) \cup {z}
        <4>1. /\ Sane /\ Short(slots) /\ has_dots \in BOOLEAN /\ i \in Inodes /\ Lookup(e, m) # i
              /\ (Lookup(e, m) = Free => HasRoom(e))
          BY <1>1, <1>4, <1>5
        <4> QED
          BY <4>1, EnteredStep
      <3>2. PICK r : r = Entered(e, m, i, t)
        OBVIOUS
      <3>3. r \in Files /\ Short(r) /\ x \in All(r)
        BY <1>1, <1>6, <3>1, <3>2
      <3>4. Left(r, d, n) \in Files /\ Short(Left(r, d, n))
        BY <1>6, <3>3, LeftStep
      <3> QED
        BY <3>2, <3>4
    <2> QED
      BY <1>3, <2>1, <2>2, <2>3, <2>4
  <1>10. TypeOK'
    BY <1>3, <1>8, <1>9, FilesIn DEF TypeOK, DirInv, Short
  <1> QED
    BY <1>3, <1>9, <1>10 DEF DirInv

LEMMA RenameHalfKeeps ==
    ASSUME DirInv, sound, NEW d \in Inodes, NEW n \in Names, NEW e \in Inodes, NEW m \in Names,
           Found(d, n), Live(e), RenameHalf(d, n, e, m)
    PROVE  DirInv'
  <1>1. PICK i, t, u, c : /\ i = Lookup(d, n) /\ t = Lookup(e, m) /\ u = Ups(kind, has_dots, i)
                          /\ c = Counted(e, i, t)
    OBVIOUS
  <1>2. /\ Renames(d, n, e, m)
        /\ slots' = Entered(e, m, i, t)
        /\ nlink' = c
        /\ i_nlink' = Conformed(c, {d, e, i, t})
        /\ sound' = FALSE
        /\ UNCHANGED <<kind, opened, has_dots, clean>>
    BY <1>1 DEF RenameHalf
  <1>3. /\ Sane /\ slots \in Files /\ Short(slots) /\ has_dots \in BOOLEAN
    BY Before
  <1>4. /\ i \in Inodes /\ i # t /\ (t = Free => HasRoom(e))
    BY <1>1, <1>2, RenameOf
  <1>5. nlink' \in [Inodes -> Nat] /\ i_nlink' \in [Inodes -> Nat]
    BY <1>1, <1>2, RenameCounts
  <1>6. slots' \in Files /\ Short(slots')
    <2>1. PICK z : /\ Entered(e, m, i, Lookup(e, m)) \in Files
                   /\ Short(Entered(e, m, i, Lookup(e, m)))
      BY <1>1, <1>3, <1>4, EnteredStep
    <2> QED
      BY <1>1, <1>2, <2>1
  <1>7. TypeOK'
    BY <1>2, <1>5, <1>6, FilesIn DEF TypeOK, DirInv, Short
  <1> QED
    BY <1>2, <1>6, <1>7 DEF DirInv

\* The names that a rename moves, in the tree without the target.
LEMMA RenameTree ==
    ASSUME DirInv, sound, NEW d \in Inodes, NEW n \in Names, NEW e \in Inodes, NEW m \in Names,
           Found(d, n), Live(e), Renames(d, n, e, m), NEW i, i = Lookup(d, n), NEW t, t = Lookup(e, m),
           NEW x \in Used, IsName(x), Dir(x) = d, Ino(x) = i, x \notin Target(e, m),
           NEW z, IsName(z), Dir(z) = e, Nm(z) = m, Ino(z) = i,
           NEW U, U = Used \ Target(e, m),
           NEW V, V = IF kind[i] = "dir" THEN Moved(U, has_dots, x, z) ELSE (U \ {x}) \cup {z},
           NEW u, u = Ups(kind, has_dots, i)
    PROVE  /\ Tree(V, kind, has_dots) /\ FinRefs(V, kind)
           /\ \A j \in Inodes :
                 Size(V, kind, j) + (IF j = d THEN u ELSE 0)
                     + (IF j = t THEN 1 + u ELSE IF t # Free /\ j = e THEN u ELSE 0)
                   = Size(Used, kind, j) + (IF j = e THEN u ELSE 0)
  <1>1. /\ Sane /\ Tree(Used, kind, has_dots) /\ has_dots \in BOOLEAN
        /\ \A j \in Inodes : CountOK(RefsTo(Used, kind, j), j)
    BY Before
  <1>2. FinRefs(Used, kind)
    BY <1>1 DEF FinRefs, CountOK
  <1>3. /\ i \in Inodes /\ i # d /\ i # e /\ i # t /\ InTree(Used, kind, e)
        /\ kind[i] \in {"file", "dir"}
        /\ t # Free => t \in Inodes /\ t # e /\ kind[t] = kind[i]
        /\ t # Free /\ kind[i] = "dir" => d # t /\ NoNames(Used, t)
    BY RenameOf
  <1>4. u \in {0, 1}
    BY DEF Ups
  <1>5. /\ Tree(U, kind, has_dots) /\ FinRefs(U, kind) /\ InTree(U, kind, e)
        /\ \A j \in Inodes : Size(Used, kind, j)
                   = Size(U, kind, j) + (IF j = t THEN 1 + u ELSE IF t # Free /\ j = e THEN u ELSE 0)
    <2>1. CASE t = Free
      <3>1. U = Used
        <4>1. Target(e, m) = {}
          <5>1. IF t = Free THEN Target(e, m) = {}
                ELSE \E y \in Used : /\ IsName(y) /\ Dir(y) = e /\ Nm(y) = m /\ Ino(y) = t
                                     /\ Target(e, m) = {y}
            BY RenameOf
          <5> QED
            BY <2>1, <5>1
        <4> QED
          BY <4>1
      <3>2. \A j \in Inodes : j # t
        BY <2>1, DirectoryAssumption
      <3>3. \A j \in Inodes : Size(Used, kind, j) \in Nat
        BY <1>2, FS_CardinalityType DEF FinRefs, Size
      <3> QED
        BY <1>1, <1>2, <1>3, <2>1, <3>1, <3>2, <3>3
    <2>2. CASE t # Free
      <3>1. PICK y \in Used : IsName(y) /\ Dir(y) = e /\ Ino(y) = t /\ Target(e, m) = {y}
        BY <2>2, RenameOf
      <3>2. U = Used \ {y}
        BY <3>1
      <3>3. kind[Ino(y)] = "dir" => NoNames(Used, Ino(y))
        BY <1>3, <2>2, <3>1
      <3>4. /\ Tree(Used \ {y}, kind, has_dots) /\ FinRefs(Used \ {y}, kind)
            /\ \A j \in Inodes : InTree(Used \ {y}, kind, j) <=> InTree(Used, kind, j) /\ j # Ino(y)
            /\ \A j \in Inodes :
                  Size(Used, kind, j) = Size(Used \ {y}, kind, j)
                      + (IF j = Ino(y) THEN 1 + Ups(kind, has_dots, Ino(y))
                         ELSE IF j = Dir(y) THEN Ups(kind, has_dots, Ino(y)) ELSE 0)
        <4>1. /\ Tree(Used, kind, has_dots) /\ has_dots \in BOOLEAN /\ FinRefs(Used, kind)
              /\ IsName(y) /\ (kind[Ino(y)] = "dir" => NoNames(Used, Ino(y)))
          BY <1>1, <1>2, <3>1, <3>3
        <4>2. Tree(Used \ {y}, kind, has_dots) /\ FinRefs(Used \ {y}, kind)
          BY SMTT(30), <4>1, TargetGoes
        <4>3. \A j \in Inodes : InTree(Used \ {y}, kind, j) <=> InTree(Used, kind, j) /\ j # Ino(y)
          BY SMTT(30), <4>1, TargetGoes
        <4>4. \A j \in Inodes :
                  Size(Used, kind, j) = Size(Used \ {y}, kind, j)
                      + (IF j = Ino(y) THEN 1 + Ups(kind, has_dots, Ino(y))
                         ELSE IF j = Dir(y) THEN Ups(kind, has_dots, Ino(y)) ELSE 0)
          BY SMTT(30), <4>1, TargetGoes
        <4> QED
          BY <4>2, <4>3, <4>4
      <3>5. Ups(kind, has_dots, Ino(y)) = u
        BY <1>3, <2>2, <3>1 DEF Ups
      <3> QED
        BY <1>3, <2>2, <3>1, <3>2, <3>4, <3>5
    <2> QED
      BY <2>1, <2>2
  <1>6. x \in U /\ \A a \in U : ~(Dir(a) = e /\ Nm(a) = m)
    BY DEF Target
  <1>7. /\ Tree(V, kind, has_dots) /\ FinRefs(V, kind)
        /\ \A j \in Inodes : Size(V, kind, j) + (IF j = d THEN u ELSE 0)
                               = Size(U, kind, j) + (IF j = e THEN u ELSE 0)
    <2>1. CASE kind[i] = "file"
      <3>1. V = (U \ {x}) \cup {z}
        BY <2>1
      <3>2. \A j \in Inodes : Size(V, kind, j) = Size(U, kind, j)
        BY SMTT(30), <1>1, <1>5, <1>6, <2>1, <3>1, FileMoves
      <3>3. Tree(V, kind, has_dots) /\ FinRefs(V, kind)
        BY <1>1, <1>5, <1>6, <2>1, <3>1, FileMoves
      <3>4. u = 0
        BY <2>1 DEF Ups
      <3>5. \A j \in Inodes : Size(U, kind, j) \in Nat
        BY <1>5, FS_CardinalityType DEF FinRefs, Size
      <3> QED
        BY <3>2, <3>3, <3>4, <3>5
    <2>2. CASE kind[i] = "dir"
      <3>1. V = Moved(U, has_dots, x, z)
        BY <2>2
      <3>2. ~Below(e, i)
        BY <2>2 DEF Renames, MayRename
      <3>3. PICK A \in SUBSET (Inodes \ {i}) : e \in A /\ Closed(Used, A)
        BY <1>1, <1>3, <3>2, BelowIs
      <3>4. Closed(U, A)
        BY <3>3 DEF Closed, Over
      <3>5. /\ Tree(Moved(U, has_dots, x, z), kind, has_dots)
            /\ FinRefs(Moved(U, has_dots, x, z), kind)
            /\ \A j \in Inodes :
                  Size(Moved(U, has_dots, x, z), kind, j)
                      + (IF j = Dir(x) THEN Ups(kind, has_dots, Ino(x)) ELSE 0)
                    = Size(U, kind, j) + (IF j = Dir(z) THEN Ups(kind, has_dots, Ino(x)) ELSE 0)
        <4>1. /\ Tree(U, kind, has_dots) /\ FinRefs(U, kind) /\ has_dots \in BOOLEAN
              /\ x \in U /\ IsName(x) /\ kind[Ino(x)] = "dir"
              /\ IsName(z) /\ Ino(z) = Ino(x) /\ InTree(U, kind, Dir(z)) /\ Dir(z) \in Inodes
              /\ \A a \in U : ~(Dir(a) = Dir(z) /\ Nm(a) = Nm(z))
              /\ A \in SUBSET (Inodes \ {Ino(x)}) /\ Dir(z) \in A /\ Closed(U, A)
          BY <1>1, <1>5, <1>6, <2>2, <3>3, <3>4
        <4>2. /\ Tree(Moved(U, has_dots, x, z), kind, has_dots)
              /\ FinRefs(Moved(U, has_dots, x, z), kind)
          BY <4>1, DirMoves
        <4>3. \A j \in Inodes :
                  Size(Moved(U, has_dots, x, z), kind, j)
                      + (IF j = Dir(x) THEN Ups(kind, has_dots, Ino(x)) ELSE 0)
                    = Size(U, kind, j) + (IF j = Dir(z) THEN Ups(kind, has_dots, Ino(x)) ELSE 0)
          BY <4>1, DirMoves
        <4> QED
          BY <4>2, <4>3
      <3> QED
        BY <3>1, <3>5
    <2> QED
      BY <1>3, <2>1, <2>2
  <1>8. \A j \in Inodes : Size(Used, kind, j) \in Nat /\ Size(U, kind, j) \in Nat /\ Size(V, kind, j) \in Nat
    BY <1>2, <1>5, <1>7, FS_CardinalityType DEF FinRefs, Size
  <1>9. ASSUME NEW j \in Inodes
        PROVE  Size(V, kind, j) + (IF j = d THEN u ELSE 0)
                   + (IF j = t THEN 1 + u ELSE IF t # Free /\ j = e THEN u ELSE 0)
                 = Size(Used, kind, j) + (IF j = e THEN u ELSE 0)
    <2>1. PICK p \in Nat, q \in Nat, r \in Nat :
              p = Size(Used, kind, j) /\ q = Size(U, kind, j) /\ r = Size(V, kind, j)
      BY <1>8
    <2>2. PICK a \in {0, 1}, b \in {0, 1}, g \in {0, 1, 2} :
              /\ a = (IF j = d THEN u ELSE 0) /\ b = (IF j = e THEN u ELSE 0)
              /\ g = (IF j = t THEN 1 + u ELSE IF t # Free /\ j = e THEN u ELSE 0)
      BY <1>4
    <2>3. p = q + g /\ r + a = q + b
      BY <1>5, <1>7, <2>1, <2>2
    <2>4. r + a + g = p + b
      BY <2>3
    <2> QED
      BY <2>1, <2>2, <2>4
  <1> QED
    BY <1>7, <1>9

\* The entries after a rename.
LEMMA RenameUsed ==
    ASSUME DirInv, sound, NEW d \in Inodes, NEW n \in Names, NEW e \in Inodes, NEW m \in Names,
           Found(d, n), Live(e), Rename(d, n, e, m), NEW i, i = Lookup(d, n), NEW U, U = Used \ Target(e, m)
    PROVE  /\ slots' \in Files /\ Short(slots')
           /\ sound' => \E x \in Used : \E z :
                 /\ IsName(x) /\ Dir(x) = d /\ Nm(x) = n /\ Ino(x) = i /\ x \notin Target(e, m)
                 /\ IsName(z) /\ Dir(z) = e /\ Nm(z) = m /\ Ino(z) = i /\ z \notin Used
                 /\ Used' = IF kind[i] = "dir" THEN Moved(U, has_dots, x, z) ELSE (U \ {x}) \cup {z}
  <1>1. PICK t : t = Lookup(e, m)
    OBVIOUS
  <1>2. PICK up \in BOOLEAN : up = (MovesDots(i) /\ d # e)
    BY DEF MovesDots
  <1>3. /\ Renames(d, n, e, m)
        /\ slots' = IF up THEN DotDot(Left(Entered(e, m, i, t), d, n), i, e)
                    ELSE Left(Entered(e, m, i, t), d, n)
        /\ sound' = (up => e # Root)
    BY <1>1, <1>2 DEF Rename
  <1>4. /\ Sane /\ Tree(Used, kind, has_dots) /\ slots \in Files /\ Short(slots)
        /\ has_dots \in BOOLEAN
    BY Before
  <1>5. /\ i \in Inodes /\ i # t /\ (t = Free => HasRoom(e)) /\ i # d /\ i # e
    BY <1>1, <1>3, RenameOf
  <1>6. PICK x \in Used : /\ IsName(x) /\ Dir(x) = d /\ Nm(x) = n /\ Ino(x) = i
                          /\ x[3] = At(d, n) /\ x \notin Target(e, m)
    BY <1>1, <1>3, RenameOf
  <1>7. PICK z : /\ IsName(z) /\ Dir(z) = e /\ Nm(z) = m /\ Ino(z) = i /\ z \notin Used
                 /\ Entered(e, m, i, Lookup(e, m)) \in Files
                 /\ Short(Entered(e, m, i, Lookup(e, m)))
                 /\ All(Entered(e, m, i, Lookup(e, m))) = (Used \ Target(e, m)) \cup {z}
    <2>1. /\ Sane /\ Short(slots) /\ has_dots \in BOOLEAN /\ i \in Inodes /\ Lookup(e, m) # i
          /\ (Lookup(e, m) = Free => HasRoom(e))
      BY <1>1, <1>4, <1>5
    <2> QED
      BY <2>1, EnteredStep
  <1>8. PICK r : r = Entered(e, m, i, t)
    OBVIOUS
  <1>9. r \in Files /\ Short(r) /\ All(r) = U \cup {z} /\ x \in All(r)
    BY <1>1, <1>6, <1>7, <1>8
  <1>10. PICK s : s = Left(r, d, n)
    OBVIOUS
  <1>11. s \in Files /\ Short(s) /\ All(s) = (U \cup {z}) \ {x}
    BY <1>6, <1>9, <1>10, LeftStep
  <1>12. x # z /\ x \in U /\ U \subseteq Used
    BY <1>6, <1>7
  <1>13. All(s) = (U \ {x}) \cup {z}
    BY <1>11, <1>12
  <1>14. \A a \in Used : Nm(a) = ".." => a \in U /\ a # x
    BY <1>6, DirectoryAssumption DEF Target, IsName
  <1>15. /\ slots' \in Files /\ Short(slots')
         /\ up /\ e # Root =>
               Used' = (((U \ {x}) \cup {z}) \ {DotUp(i, d)}) \cup {DotUp(i, e)}
         /\ ~up => Used' = (U \ {x}) \cup {z}
    <2>1. CASE up
      <3>1. Match(i, "..") # {}
        BY <1>1, <1>2, <1>3, <2>1 DEF Renames
      <3>2. PICK w \in Used : Dir(w) = i /\ Nm(w) = ".."
        <4>1. PICK k \in DOMAIN slots[i] : InUse(slots[i][k]) /\ slots[i][k].name = ".."
          BY <3>1 DEF Match
        <4>2. PICK w \in Used : w = <<i, slots[i][k], k>>
          BY <1>5, <4>1, AllThere DEF Used
        <4> QED
          BY <4>1, <4>2 DEF Dir, Nm
      <3>3. w \in All(s)
        BY <1>13, <1>14, <3>2
      <3>4. \E v \in All(s) : Dir(v) = i /\ Nm(v) = ".."
        BY <3>2, <3>3
      <3>5. /\ DotDot(s, i, e) \in Files /\ (Short(s) => Short(DotDot(s, i, e)))
            /\ \E v \in All(s) : /\ Dir(v) = i /\ Nm(v) = ".."
                                 /\ All(DotDot(s, i, e)) = (All(s) \ {v})
                                      \cup (IF e = Root THEN {} ELSE {<<i, DE(e, ".."), v[3]>>})
        BY <1>5, <1>11, <3>4, DotDotStep
      <3>6. slots' = DotDot(s, i, e)
        BY <1>3, <1>8, <1>10, <2>1
      <3>7. PICK v \in All(s) : /\ Dir(v) = i /\ Nm(v) = ".."
                                /\ All(DotDot(s, i, e)) = (All(s) \ {v})
                                      \cup (IF e = Root THEN {} ELSE {<<i, DE(e, ".."), v[3]>>})
        BY <3>5
      <3>8. v = DotUp(i, d)
        <4>1. kind[i] = "dir" /\ has_dots
          BY <1>2, <2>1 DEF MovesDots
        <4>2. DotUp(i, d) \in Used
          BY <1>4, <1>6, <4>1, DotUpIs
        <4>3. v # z
          BY <1>7, <3>7, DirectoryAssumption DEF IsName
        <4>4. v \in Used
          BY <1>12, <1>13, <4>3
        <4>5. Dir(DotUp(i, d)) = i /\ Nm(DotUp(i, d)) = ".."
          BY DotIs
        <4> QED
          BY <1>4, <3>7, <4>2, <4>4, <4>5 DEF Tree, NamesOK
      <3>9. v[3] = 2
        BY <3>8 DEF DotUp
      <3>10. Used' = All(slots')
        BY DEF Used
      <3>11. e # Root => Used' = (((U \ {x}) \cup {z}) \ {DotUp(i, d)}) \cup {DotUp(i, e)}
        BY <1>13, <3>6, <3>7, <3>8, <3>9, <3>10 DEF DotUp
      <3> QED
        BY <1>11, <2>1, <3>5, <3>6, <3>11
    <2>2. CASE ~up
      <3>1. slots' = s
        BY <1>3, <1>8, <1>10, <2>2
      <3> QED
        BY <1>11, <1>13, <2>2, <3>1 DEF Used
    <2> QED
      BY <2>1, <2>2
  <1>16. ASSUME sound'
         PROVE  Used' = IF kind[i] = "dir" THEN Moved(U, has_dots, x, z) ELSE (U \ {x}) \cup {z}
    <2>1. CASE up
      <3>1. kind[i] = "dir" /\ has_dots /\ e # Root
        BY <1>2, <1>3, <1>16, <2>1 DEF MovesDots
      <3>2. z # DotUp(i, d)
        BY <1>7, DotIs
      <3>3. UpOf(has_dots, i, d) = {DotUp(i, d)} /\ UpOf(has_dots, i, e) = {DotUp(i, e)}
        BY <3>1 DEF UpOf
      <3>4. Moved(U, has_dots, x, z) = (U \ ({x} \cup {DotUp(i, d)})) \cup {z} \cup {DotUp(i, e)}
        BY <1>6, <1>7, <3>3 DEF Moved
      <3> QED
        BY <1>15, <2>1, <3>1, <3>2, <3>4
    <2>2. CASE ~up /\ kind[i] = "dir" /\ has_dots
      <3>1. d = e
        BY <1>2, <2>2 DEF MovesDots
      <3>2. DotUp(i, d) \in U /\ DotUp(i, d) # x
        <4>1. DotUp(i, d) \in Used
          BY <1>4, <1>6, <2>2, DotUpIs
        <4> QED
          BY <1>14, <4>1, DotIs
      <3>3. UpOf(has_dots, i, d) = {DotUp(i, d)}
        BY <2>2 DEF UpOf
      <3>4. Moved(U, has_dots, x, z) = (U \ ({x} \cup {DotUp(i, d)})) \cup {z} \cup {DotUp(i, d)}
        BY <1>6, <1>7, <3>1, <3>3 DEF Moved
      <3> QED
        BY <1>15, <2>2, <3>2, <3>4
    <2>3. CASE ~up /\ (kind[i] # "dir" \/ ~has_dots)
      <3>1. ~has_dots => Moved(U, has_dots, x, z) = (U \ {x}) \cup {z}
        BY DEF Moved, UpOf
      <3> QED
        BY <1>15, <2>3, <3>1
    <2> QED
      BY <1>4, <2>1, <2>2, <2>3
  <1> QED
    BY <1>6, <1>7, <1>15, <1>16

LEMMA RenameKeeps ==
    ASSUME DirInv, sound, NEW d \in Inodes, NEW n \in Names, NEW e \in Inodes, NEW m \in Names,
           Found(d, n), Live(e), Rename(d, n, e, m)
    PROVE  DirInv'
  <1>1. PICK i, t, u, c, U : /\ i = Lookup(d, n) /\ t = Lookup(e, m) /\ u = Ups(kind, has_dots, i)
                             /\ c = Counted(e, i, t) /\ U = Used \ Target(e, m)
    OBVIOUS
  <1>2. /\ Renames(d, n, e, m)
        /\ nlink' = LeftCount(c, d, i)
        /\ i_nlink' = [Conformed(c, {d, e, i, t}) EXCEPT ![d] = nlink'[d]]
        /\ sound' \in BOOLEAN
        /\ UNCHANGED <<kind, opened, has_dots, clean>>
    BY <1>1 DEF Rename
  <1>3. /\ Sane /\ Tree(Used, kind, has_dots) /\ has_dots \in BOOLEAN
        /\ nlink \in [Inodes -> Nat] /\ i_nlink \in [Inodes -> Nat]
        /\ \A j \in Inodes : CountOK(RefsTo(Used, kind, j), j)
    BY Before
  <1>4. /\ i \in Inodes /\ i # d /\ i # e /\ i # t
        /\ kind[i] \in {"file", "dir"}
        /\ t # Free => t \in Inodes /\ t # e /\ kind[t] = kind[i]
        /\ t # Free /\ kind[i] = "dir" => d # t
    BY <1>1, <1>2, RenameOf
  <1>5. slots' \in Files /\ Short(slots')
    BY <1>1, RenameUsed
  <1>6. /\ u \in {0, 1} /\ c \in [Inodes -> Nat] /\ c[d] >= u
        /\ \A j \in Inodes : c[j] = IF j = t THEN nlink[j] - 1 - u
                                    ELSE IF j = e THEN i_nlink[j] + (IF t = Free THEN u ELSE 0)
                                    ELSE nlink[j]
        /\ LeftCount(c, d, i) \in [Inodes -> Nat]
        /\ \A j \in Inodes : LeftCount(c, d, i)[j] = IF j = d THEN c[j] - u ELSE c[j]
        /\ Conformed(c, {d, e, i, t}) \in [Inodes -> Nat]
        /\ \A j \in Inodes : Conformed(c, {d, e, i, t})[j]
                               = IF j \in {d, e, i, t} THEN c[j] ELSE i_nlink[j]
    BY SMTT(30), <1>1, <1>2, RenameCounts
  <1>7. nlink' \in [Inodes -> Nat] /\ i_nlink' \in [Inodes -> Nat]
    BY <1>2, <1>6
  <1>8. /\ \A j \in Inodes : nlink'[j] = IF j = d THEN c[j] - u ELSE c[j]
        /\ \A j \in Inodes : i_nlink'[j] = IF j \in {d, e, i, t} THEN nlink'[j] ELSE i_nlink[j]
    BY <1>2, <1>6
  <1>9. ASSUME sound' PROVE TreeInv'
    <2>0. PICK x \in Used : \E z :
              /\ IsName(x) /\ Dir(x) = d /\ Nm(x) = n /\ Ino(x) = i /\ x \notin Target(e, m)
              /\ IsName(z) /\ Dir(z) = e /\ Nm(z) = m /\ Ino(z) = i /\ z \notin Used
              /\ Used' = IF kind[i] = "dir" THEN Moved(U, has_dots, x, z) ELSE (U \ {x}) \cup {z}
      BY <1>1, <1>9, RenameUsed
    <2>1. PICK z :
              /\ IsName(x) /\ Dir(x) = d /\ Nm(x) = n /\ Ino(x) = i /\ x \notin Target(e, m)
              /\ IsName(z) /\ Dir(z) = e /\ Nm(z) = m /\ Ino(z) = i /\ z \notin Used
              /\ Used' = IF kind[i] = "dir" THEN Moved(U, has_dots, x, z) ELSE (U \ {x}) \cup {z}
      BY <2>0
    <2>2. /\ Tree(Used', kind, has_dots) /\ FinRefs(Used', kind)
          /\ \A j \in Inodes :
                Size(Used', kind, j) + (IF j = d THEN u ELSE 0)
                    + (IF j = t THEN 1 + u ELSE IF t # Free /\ j = e THEN u ELSE 0)
                  = Size(Used, kind, j) + (IF j = e THEN u ELSE 0)
      <3>1. PICK V : V = IF kind[i] = "dir" THEN Moved(U, has_dots, x, z) ELSE (U \ {x}) \cup {z}
        OBVIOUS
      <3>2. /\ Renames(d, n, e, m) /\ i = Lookup(d, n) /\ t = Lookup(e, m)
            /\ IsName(x) /\ Dir(x) = d /\ Ino(x) = i /\ x \notin Target(e, m)
            /\ IsName(z) /\ Dir(z) = e /\ Nm(z) = m /\ Ino(z) = i
            /\ U = Used \ Target(e, m) /\ u = Ups(kind, has_dots, i)
        BY <1>1, <1>2, <2>1
      <3>3. Tree(V, kind, has_dots) /\ FinRefs(V, kind)
        BY <3>1, <3>2, RenameTree
      <3>4. \A j \in Inodes :
                Size(V, kind, j) + (IF j = d THEN u ELSE 0)
                    + (IF j = t THEN 1 + u ELSE IF t # Free /\ j = e THEN u ELSE 0)
                  = Size(Used, kind, j) + (IF j = e THEN u ELSE 0)
        BY <3>1, <3>2, RenameTree
      <3> QED
        BY <2>1, <3>1, <3>3, <3>4
    <2>3. kind[d] = "dir" /\ kind[e] = "dir"
      <3>1. kind[d] = "dir"
        BY <1>3, <2>1 DEF Tree, NamesOK
      <3> QED
        BY <1>1, <1>2, <3>1, RenameOf DEF InTree
    <2>4. \A j \in Inodes : nlink[j] \in Nat /\ i_nlink[j] \in Nat
      BY <1>3
    <2>5. ASSUME NEW j \in Inodes PROVE CountOK(RefsTo(Used, kind, j), j)'
      <3>1. PICK p \in Nat, r \in Nat : p = Size(Used, kind, j) /\ r = Size(Used', kind, j)
        BY <1>3, <2>2, FS_CardinalityType DEF FinRefs, Size, CountOK
      <3>2. PICK k \in Nat, l \in Nat, k1 \in Nat, l1 \in Nat :
                k = nlink[j] /\ l = i_nlink[j] /\ k1 = nlink'[j] /\ l1 = i_nlink'[j]
        BY <1>7, <2>4
      <3>3. /\ k >= p /\ l >= p
            /\ clean /\ j # Root => k = p
            /\ clean /\ j # Root /\ kind[j] = "dir" => l = k
        BY <1>3, <3>1, <3>2 DEF CountOK, Size
      <3>4. r + (IF j = d THEN u ELSE 0)
              + (IF j = t THEN 1 + u ELSE IF t # Free /\ j = e THEN u ELSE 0)
              = p + (IF j = e THEN u ELSE 0)
        BY <2>2, <3>1
      <3>5. /\ k1 = (IF j = t THEN k - 1 - u
                     ELSE IF j = e THEN l + (IF t = Free THEN u ELSE 0) ELSE k)
                     - (IF j = d THEN u ELSE 0)
            /\ l1 = IF j \in {d, e, i, t} THEN k1 ELSE l
        <4>1. c[j] = IF j = t THEN k - 1 - u
                     ELSE IF j = e THEN l + (IF t = Free THEN u ELSE 0) ELSE k
          BY <1>6, <3>2
        <4>2. k1 = c[j] - (IF j = d THEN u ELSE 0)
          <5>1. c[j] \in Nat
            BY <1>6
          <5> QED
            BY <1>8, <3>2, <5>1
        <4> QED
          BY <1>8, <3>2, <4>1, <4>2
      <3>6. /\ k1 >= r /\ l1 >= r
            /\ clean /\ j # Root => k1 = r
            /\ clean /\ j # Root /\ kind[j] = "dir" => l1 = k1
        <4>1. CASE j = t
          <5>1. t # Free /\ j # e /\ (u = 1 => j # d)
            BY <1>1, <1>4, <4>1, DirectoryAssumption DEF Ups
          <5>2. r + 1 + u = p /\ k1 = k - 1 - u /\ l1 = k1
            BY <1>6, <3>4, <3>5, <4>1, <5>1
          <5> QED
            BY <1>6, <3>3, <5>2
        <4>2. CASE j # t /\ j = e
          <5>1. l1 = k1
            BY <3>5, <4>2
          <5>2. PICK a \in {0, 1}, b \in {0, 1} :
                    a = (IF j = d THEN u ELSE 0) /\ b = (IF t = Free THEN u ELSE 0)
            BY <1>6
          <5>3. r + a + (u - b) = p + u
            BY <1>6, <3>4, <4>2, <5>2
          <5>4. k1 = l + b - a
            BY <3>5, <4>2, <5>2
          <5>5. l - p = k1 - r
            BY <1>6, <5>2, <5>3, <5>4
          <5>6. clean /\ j # Root => l = p
            BY <2>3, <3>3, <4>2
          <5> QED
            BY <3>3, <5>1, <5>5, <5>6
        <4>3. CASE j # t /\ j # e
          <5>1. r + (IF j = d THEN u ELSE 0) = p
            BY <1>6, <3>4, <4>3
          <5>2. k1 = k - (IF j = d THEN u ELSE 0)
            BY <3>5, <4>3
          <5>3. l1 = k1 \/ (j # d /\ l1 = l)
            BY <3>5
          <5> QED
            BY <1>6, <3>3, <5>1, <5>2, <5>3
        <4> QED
          BY <4>1, <4>2, <4>3
      <3>7. RefsTo(Used, kind, j)' = RefsTo(Used', kind, j) /\ IsFiniteSet(RefsTo(Used', kind, j))
        BY <1>2, <2>2 DEF FinRefs, RefsTo, InTree, Named
      <3> QED
        BY <1>2, <3>1, <3>2, <3>6, <3>7 DEF CountOK, Size
    <2>6. Tree(Used, kind, has_dots)'
      BY <1>2, <2>2
    <2> QED
      BY <2>5, <2>6 DEF TreeInv
  <1>10. TypeOK'
    BY <1>2, <1>5, <1>7, FilesIn DEF TypeOK, DirInv, Short
  <1> QED
    BY <1>5, <1>9, <1>10 DEF DirInv

LEMMA UseKeeps ==
    ASSUME DirInv, sound, NEW i \in Inodes, Open(i) \/ Close(i)
    PROVE  DirInv'
  <1>1. /\ opened' \subseteq Inodes
        /\ UNCHANGED <<kind, slots, nlink, i_nlink, has_dots, sound, clean>>
    BY DEF Open, Close, DirInv, TypeOK
  <1>2. TypeOK'
    BY <1>1 DEF TypeOK, DirInv
  <1> QED
    BY <1>1, <1>2 DEF DirInv, TreeInv, CountOK, Used

-----------------------------------------------------------------------------
(* The invariant holds                                                      *)

LEMMA InitUsed ==
    ASSUME Init
    PROVE  slots \in Files /\ Short(slots) /\ Used = DotsOf(has_dots, Root, Root)
  <1>1. has_dots \in BOOLEAN /\ Root \in Inodes
    BY DirectoryAssumption DEF Init
  <1>2. PICK s : s = [i \in Inodes |-> <<>>]
    OBVIOUS
  <1>3. <<>> \in Seq(Slot) /\ Len(<<>>) = 0
    OBVIOUS
  <1>4. s \in Files
    BY <1>2, <1>3 DEF Files
  <1>5. Short(s)
    <2>1. \A i \in Inodes : Len(s[i]) = 0
      BY <1>2, <1>3
    <2> QED
      BY <2>1, DirectoryAssumption DEF Short
  <1>6. All(s) = {}
    <2>1. ASSUME NEW x \in All(s) PROVE FALSE
      <3>1. PICK d \in Inodes : \E k \in DOMAIN s[d] : TRUE
        BY AllIs
      <3>2. s[d] = <<>>
        BY <1>2
      <3> QED
        BY <3>1, <3>2
    <2> QED
      BY <2>1
  <1>7. Dots(Root, Root) \in Seq(Slot)
    <2>1. DE(Root, ".") \in Slot /\ DE(Root, "..") \in Slot
      BY <1>1, EntryIs
    <2> QED
      BY <1>3, <2>1 DEF Dots
  <1>8. slots = [s EXCEPT ![Root] = Dots(Root, Root)]
    BY <1>1, <1>2 DEF Init
  <1>9. Turns(s, slots, Root, Dots(Root, Root))
    BY <1>1, <1>4, <1>7, <1>8, ExceptTurns
  <1>10. slots \in Files /\ Short(slots)
    BY <1>1, <1>4, <1>5, <1>9, DotsIs
  <1>11. All(slots) = { x \in All(s) : Dir(x) # Root }
                       \cup (IF has_dots THEN {Dot(Root), DotUp(Root, Root)} ELSE {})
    BY <1>1, <1>4, <1>9, DotsIs
  <1> QED
    BY <1>6, <1>10, <1>11 DEF Used, DotsOf

LEMMA InitInv ==
    ASSUME Init
    PROVE  DirInv
  <1>1. slots \in Files /\ Short(slots) /\ Used = DotsOf(has_dots, Root, Root)
    BY InitUsed
  <1>2. /\ has_dots \in BOOLEAN /\ Root \in Inodes /\ opened = {} /\ sound = TRUE /\ clean = TRUE
        /\ kind = [i \in Inodes |-> IF i = Root THEN "dir" ELSE "none"]
        /\ nlink = [i \in Inodes |-> IF i # Root THEN 0 ELSE IF has_dots THEN 2 ELSE 1]
        /\ i_nlink = nlink
    BY DirectoryAssumption DEF Init
  <1>3. /\ kind[Root] = "dir" /\ kind \in [Inodes -> {"none", "file", "dir"}]
        /\ \A i \in Inodes \ {Root} : kind[i] = "none"
        /\ nlink \in [Inodes -> Nat] /\ i_nlink \in [Inodes -> Nat]
    BY <1>2
  <1>4. \A x \in Used : has_dots /\ (x = Dot(Root) \/ x = DotUp(Root, Root))
    BY <1>1 DEF DotsOf
  <1>5. \A x \in Used : /\ Dir(x) = Root /\ Ino(x) = Root /\ Nm(x) \in {".", ".."} /\ ~IsName(x)
                        /\ (Nm(x) = "." => x = Dot(Root)) /\ (Nm(x) = ".." => x = DotUp(Root, Root))
    BY <1>4, DotIs
  <1>6. NamesOK(Used, kind)
    BY <1>2, <1>3, <1>5 DEF NamesOK
  <1>7. \A d \in Inodes : InTree(Used, kind, d) <=> d = Root
    BY <1>3, <1>5 DEF InTree, Named
  <1>8. DotsOK(Used, kind, has_dots)
    <2>1. has_dots => Dot(Root) \in Used /\ DotUp(Root, Root) \in Used
      BY <1>1 DEF DotsOf
    <2>2. \A x \in Used : Nm(x) = "." => has_dots /\ x = Dot(Dir(x))
      BY <1>4, <1>5
    <2>3. \A x \in Used : Nm(x) = ".." => has_dots /\ x = DotUp(Dir(x), Ino(x))
      BY <1>4, <1>5
    <2>4. ASSUME NEW d \in Inodes, has_dots, InTree(Used, kind, d)
          PROVE  /\ Dot(d) \in Used
                 /\ \E p \in Inodes : DotUp(d, p) \in Used
                                      /\ IF d = Root THEN p = Root ELSE Over(Used, p, d)
      BY <1>2, <1>7, <2>1, <2>4
    <2> QED
      BY <2>2, <2>3, <2>4 DEF DotsOK
  <1>9. RootAbove(Used, kind)
    BY <1>7 DEF RootAbove
  <1>10. ASSUME NEW i \in Inodes PROVE CountOK(RefsTo(Used, kind, i), i)
    <2>1. CASE i = Root /\ has_dots
      <3>1. RefsTo(Used, kind, i) = {Dot(Root), DotUp(Root, Root)}
        BY <1>1, <1>2, <1>5, <1>7, <2>1 DEF RefsTo, DotsOf
      <3>2. Dot(Root) # DotUp(Root, Root)
        BY DotIs
      <3>3. /\ IsFiniteSet({Dot(Root), DotUp(Root, Root)})
            /\ Cardinality({Dot(Root), DotUp(Root, Root)}) = 2
        <4>1. IsFiniteSet({Dot(Root)}) /\ Cardinality({Dot(Root)}) = 1
          BY FS_Singleton
        <4>2. DotUp(Root, Root) \notin {Dot(Root)}
          BY <3>2
        <4>3. PICK R : R = {Dot(Root)} \cup {DotUp(Root, Root)}
          OBVIOUS
        <4>4. IsFiniteSet(R) /\ Cardinality(R) = 2
          BY <4>1, <4>2, <4>3, FS_AddElement
        <4>5. R = {Dot(Root), DotUp(Root, Root)}
          BY <4>3
        <4> QED
          BY <4>4, <4>5
      <3>4. nlink[i] = 2 /\ i_nlink[i] = 2
        BY <1>2, <2>1
      <3> QED
        BY <2>1, <3>1, <3>3, <3>4 DEF CountOK
    <2>2. CASE ~(i = Root /\ has_dots)
      <3>1. RefsTo(Used, kind, i) = {}
        BY <1>4, <1>5, <2>2 DEF RefsTo
      <3>2. IsFiniteSet({}) /\ Cardinality({}) = 0
        BY FS_EmptySet
      <3>3. nlink[i] >= 0 /\ i_nlink[i] = nlink[i] /\ (i # Root => nlink[i] = 0)
        BY <1>2
      <3> QED
        BY <3>1, <3>2, <3>3 DEF CountOK
    <2> QED
      BY <2>1, <2>2
  <1>11. TypeOK
    BY <1>1, <1>2, <1>3, FilesIn DEF TypeOK, Short
  <1> QED
    BY <1>1, <1>6, <1>8, <1>9, <1>10, <1>11 DEF DirInv, TreeInv, Tree

LEMMA NextInv ==
    ASSUME DirInv, [Next]_vars
    PROVE  DirInv'
  <1>1. CASE UNCHANGED vars
    BY <1>1 DEF vars, DirInv, TypeOK, TreeInv, CountOK, Used
  <1>2. ASSUME sound, NEW d \in Inodes, Live(d), Operation(d)
        PROVE  DirInv'
    <2>1. ASSUME NEW n \in Names, Enters(d, n) PROVE DirInv'
      BY <1>2, <2>1, CreateKeeps, LinkKeeps, MkdirKeeps DEF Enters
    <2>2. ASSUME NEW n \in Names, Leaves(d, n) PROVE DirInv'
      BY <1>2, <2>2, UnlinkKeeps, RmdirKeeps, RmdirBlindKeeps DEF Leaves
    <2>3. ASSUME NEW n \in Names, Moves(d, n) PROVE DirInv'
      BY <1>2, <2>3, RenameKeeps, RenameLosesKeeps, RenameHalfKeeps DEF Moves
    <2>4. ASSUME MkdirNoInode(d) PROVE DirInv'
      BY <1>2, <2>4, MkdirNoInodeKeeps
    <2>5. ASSUME NEW i \in Inodes, MkdirFails(d, i) PROVE DirInv'
      BY <1>2, <2>5, MkdirFailsKeeps
    <2> QED
      BY <1>2, <2>1, <2>2, <2>3, <2>4, <2>5 DEF Operation
  <1>3. ASSUME sound, NEW i \in Inodes, Use(i)
        PROVE  DirInv'
    BY <1>3, UseKeeps, ReadWriteKeeps, WriteBackKeeps, EvictKeeps DEF Use
  <1> QED
    BY <1>1, <1>2, <1>3 DEF Next

-----------------------------------------------------------------------------
(* Theorems                                                                 *)

\* What is in the directories, their tree and the counts of links agree after any sequence
\* of operations of fileops.c and fs/namei.c that has not ended in one of the known ways
\* of breaking them; the other properties follow from it.
THEOREM DirCorrect == Spec => []DirInv
  <1>1. Init => DirInv
    BY InitInv
  <1>2. DirInv /\ [Next]_vars => DirInv'
    BY NextInv
  <1> QED
    BY <1>1, <1>2, PTL DEF Spec

\* The directory files hold entries, and no more than they have room for; no count of
\* links goes below 0, though unlink, rmdir and rename take links away without a check.
THEOREM TypeCorrect == Spec => []TypeOK
  <1>1. DirInv => TypeOK
    BY DEF DirInv
  <1> QED
    BY <1>1, DirCorrect, PTL

\* What Refs counts are the entries that the invariant counts.
LEMMA RefsIs ==
    ASSUME Sane, NEW i \in Inodes
    PROVE  { x \in Entries : x[2].ino = i } = RefsTo(Used, kind, i)
  <1>1. \A d \in Inodes : Live(d) <=> InTree(Used, kind, d)
    BY OverIs
  <1>2. ASSUME NEW x, x \in Entries, x[2].ino = i PROVE x \in RefsTo(Used, kind, i)
    <2>1. PICK d \in Inodes : Live(d) /\ \E k \in DOMAIN slots[d] : x = <<d, slots[d][k], k>>
      BY <1>2 DEF Entries
    <2>2. PICK k \in DOMAIN slots[d] : x = <<d, slots[d][k], k>>
      BY <2>1
    <2>3. InUse(slots[d][k]) /\ Dir(x) = d /\ Ino(x) = i
      BY <1>2, <2>2, DirectoryAssumption DEF InUse, Dir, Ino
    <2>4. x \in Used
      BY <2>2, <2>3, AllThere DEF Used
    <2> QED
      BY <1>1, <2>1, <2>3, <2>4 DEF RefsTo
  <1>3. ASSUME NEW x, x \in RefsTo(Used, kind, i) PROVE x \in Entries /\ x[2].ino = i
    <2>1. x \in Used /\ InTree(Used, kind, Dir(x)) /\ x[2].ino = i
      BY <1>3 DEF RefsTo, Ino
    <2>2. PICK d, k : d \in Inodes /\ k \in DOMAIN slots[d] /\ x = <<d, slots[d][k], k>>
      BY <2>1, AllIs DEF Used
    <2>3. Live(d)
      BY <1>1, <2>1, <2>2 DEF Dir
    <2> QED
      BY <2>1, <2>2, <2>3 DEF Entries
  <1> QED
    BY <1>2, <1>3

\* When no mkdir has failed, an inode has as many links as entries name it: the counts
\* that create, link, unlink, mkdir, rmdir and rename keep apart from the directory files
\* never drift from these, so that evict_inode deletes a file with its last name.
THEOREM ExactLinksCorrect == Spec => []ExactLinks
  <1>1. DirInv => ExactLinks
    <2> SUFFICES ASSUME DirInv, sound, clean, NEW i \in Inodes \ {Root}
                 PROVE  nlink[i] = Refs(Entries, i)
      BY DEF ExactLinks
    <2>1. Sane /\ CountOK(RefsTo(Used, kind, i), i)
      BY Before
    <2> QED
      BY <2>1, RefsIs DEF CountOK, Refs
  <1> QED
    BY <1>1, DirCorrect, PTL

\* After failures of mkdir, too, both counts of an inode, that of the kernel and that of
\* the C++ side, are at least as high as the number of entries that name it: nothing that
\* has a name is deleted.
THEOREM EnoughLinksCorrect == Spec => []EnoughLinks
  <1>1. DirInv => EnoughLinks
    <2> SUFFICES ASSUME DirInv, sound, NEW i \in Inodes
                 PROVE  nlink[i] >= Refs(Entries, i) /\ i_nlink[i] >= Refs(Entries, i)
      BY DEF EnoughLinks
    <2>1. Sane /\ CountOK(RefsTo(Used, kind, i), i)
      BY Before
    <2> QED
      BY <2>1, RefsIs DEF CountOK, Refs
  <1> QED
    BY <1>1, DirCorrect, PTL

\* The directories stay a tree below the root with correct "." and ".." whatever mkdir,
\* rmdir and rename do, one directory being moved below or over another.
THEOREM TreeOKCorrect == Spec => []TreeOK
  <1>1. DirInv => TreeOK
    <2> SUFFICES ASSUME DirInv, sound, NEW i \in Inodes, kind[i] = "dir", HasName(i)
                 PROVE  /\ Below(i, Root)
                        /\ \E p \in Inodes :
                              /\ ParentOf(p, i)
                              /\ Cardinality({ k \in DOMAIN slots[p] :
                                    slots[p][k].ino = i /\ ~IsDot(slots[p][k]) }) = 1
                              /\ \A q \in Inodes \ {p} : ~ParentOf(q, i)
                              /\ has_dots => slots[i][1] = DE(i, ".") /\ slots[i][2] = DE(p, "..")
      BY DEF TreeOK
    <2>1. Sane /\ Tree(Used, kind, has_dots) /\ slots \in Files
      BY Before
    <2>2. /\ \A p, j \in Inodes : ParentOf(p, j) <=> Over(Used, p, j)
          /\ Named(Used, i) /\ InTree(Used, kind, i)
      BY <2>1, OverIs DEF InTree
    <2>3. Below(i, Root)
      BY <2>1, <2>2 DEF Below, Tree, RootAbove
    <2>4. PICK x \in Used : IsName(x) /\ Ino(x) = i
      BY <2>2 DEF Named
    <2>5. PICK p \in Inodes : p = Dir(x)
      BY <2>1, <2>4 DEF Tree, NamesOK
    <2>6. \A y \in Used : IsName(y) /\ Ino(y) = i => y = x
      BY <2>1, <2>4 DEF Tree, NamesOK
    <2>7. ParentOf(p, i) /\ \A q \in Inodes \ {p} : ~ParentOf(q, i)
      BY <2>2, <2>4, <2>5, <2>6 DEF Over
    <2>8. { k \in DOMAIN slots[p] : slots[p][k].ino = i /\ ~IsDot(slots[p][k]) } = {x[3]}
      <3>1. x[3] \in DOMAIN slots[p] /\ slots[p][x[3]] = x[2]
        BY <2>1, <2>5, AllHas DEF Used
      <3>2. x[2].ino = i /\ ~IsDot(x[2])
        BY <2>4, DirectoryAssumption DEF Ino, IsDot, IsName, Nm
      <3>3. ASSUME NEW k \in DOMAIN slots[p], slots[p][k].ino = i, ~IsDot(slots[p][k])
            PROVE  k = x[3]
        <4>1. InUse(slots[p][k])
          BY <3>3, DirectoryAssumption DEF InUse
        <4>2. PICK y \in Used : y = <<p, slots[p][k], k>>
          BY <4>1, AllThere DEF Used
        <4>3. Ino(y) = i /\ Nm(y) \notin {".", ".."} /\ y[3] = k
          BY <3>3, <4>2 DEF Ino, Nm, IsDot
        <4>4. IsName(y)
          BY <2>1, <4>3 DEF IsName, Tree, NamesOK
        <4> QED
          BY <2>6, <4>3, <4>4
      <3> QED
        BY <3>1, <3>2, <3>3
    <2>9. has_dots => slots[i][1] = DE(i, ".") /\ slots[i][2] = DE(p, "..")
      <3> SUFFICES ASSUME has_dots PROVE slots[i][1] = DE(i, ".") /\ slots[i][2] = DE(p, "..")
        OBVIOUS
      <3>1. Dot(i) \in Used /\ DotUp(i, p) \in Used
        BY <2>1, <2>4, <2>5, DotUpIs
      <3>2. Dot(i)[2] = DE(i, ".") /\ Dot(i)[3] = 1 /\ DotUp(i, p)[2] = DE(p, "..") /\ DotUp(i, p)[3] = 2
        BY DEF Dot, DotUp
      <3>3. Dot(i)[2] = slots[Dir(Dot(i))][Dot(i)[3]]
        BY <2>1, <3>1, AllHas DEF Used
      <3>4. DotUp(i, p)[2] = slots[Dir(DotUp(i, p))][DotUp(i, p)[3]]
        BY <2>1, <3>1, AllHas DEF Used
      <3> QED
        BY <3>2, <3>3, <3>4, DotIs
    <2>10. Cardinality({x[3]}) = 1
      BY FS_Singleton
    <2> QED
      BY <2>3, <2>7, <2>8, <2>9, <2>10
  <1> QED
    BY <1>1, DirCorrect, PTL

-----------------------------------------------------------------------------
(* Steps are what the operations promise                                    *)

\* The name n of d leads to l; the names in U and in V are the same but for those in P.
Reads(U, d, n, l) ==
    /\ \A x \in U : Dir(x) = d /\ Nm(x) = n => l = Ino(x)
    /\ (\A x \in U : ~(Dir(x) = d /\ Nm(x) = n)) => l = Free

SameBut(U, V, P) == \A x : IsName(x) /\ <<Dir(x), Nm(x)>> \notin P => (x \in U <=> x \in V)

LEMMA LookupOf ==
    ASSUME NEW s \in Files, NEW d \in Inodes, NEW n \in Names,
           \A x, y \in All(s) : Dir(x) = Dir(y) /\ Nm(x) = Nm(y) => x = y,
           NEW M, M = { k \in DOMAIN s[d] : InUse(s[d][k]) /\ s[d][k].name = n },
           NEW l, l = IF M = {} THEN Free ELSE s[d][First(M)].ino
    PROVE  Reads(All(s), d, n, l)
  <1>1. M \in SUBSET Nat
    BY DEF Files
  <1>2. CASE M = {}
    <2>1. ASSUME NEW y \in All(s) PROVE ~(Dir(y) = d /\ Nm(y) = n)
      <3>1. PICK c, j : c \in Inodes /\ j \in DOMAIN s[c] /\ InUse(s[c][j]) /\ y = <<c, s[c][j], j>>
        BY AllIs
      <3> QED
        BY <1>2, <3>1 DEF Dir, Nm
    <2> QED
      BY <1>2, <2>1 DEF Reads
  <1>3. CASE M # {}
    <2>1. PICK k \in M : k = First(M)
      BY <1>1, <1>3, FirstOf
    <2>2. k \in DOMAIN s[d] /\ InUse(s[d][k]) /\ s[d][k].name = n
      BY <2>1
    <2>3. PICK x \in All(s) : x = <<d, s[d][k], k>>
      BY <2>2, AllThere
    <2>4. Dir(x) = d /\ Nm(x) = n /\ Ino(x) = l
      BY <1>3, <2>1, <2>2, <2>3 DEF Dir, Nm, Ino
    <2> QED
      BY <2>4 DEF Reads
  <1> QED
    BY <1>2, <1>3

LEMMA LookupNow ==
    ASSUME DirInv, sound, NEW d \in Inodes, NEW n \in Names
    PROVE  Reads(Used, d, n, Lookup(d, n))
  <1>1. slots \in Files /\ \A x, y \in Used : Dir(x) = Dir(y) /\ Nm(x) = Nm(y) => x = y
    BY DEF DirInv, TreeInv, Tree, NamesOK
  <1>2. PICK M, l : /\ M = { k \in DOMAIN slots[d] : InUse(slots[d][k]) /\ slots[d][k].name = n }
                    /\ l = IF M = {} THEN Free ELSE slots[d][First(M)].ino
    OBVIOUS
  <1>3. Reads(All(slots), d, n, l)
    BY <1>1, <1>2, LookupOf DEF Used
  <1>4. l = Lookup(d, n)
    BY <1>2 DEF Lookup, Match
  <1> QED
    BY <1>3, <1>4 DEF Used

LEMMA LookupNext ==
    ASSUME DirInv', sound', NEW d \in Inodes, NEW n \in Names
    PROVE  Reads(Used', d, n, Lookup(d, n)')
  <1>1. slots' \in Files /\ \A x, y \in Used' : Dir(x) = Dir(y) /\ Nm(x) = Nm(y) => x = y
    BY DEF DirInv, TreeInv, Tree, NamesOK
  <1>2. PICK M, l : /\ M = { k \in DOMAIN slots'[d] : InUse(slots'[d][k]) /\ slots'[d][k].name = n }
                    /\ l = IF M = {} THEN Free ELSE slots'[d][First(M)].ino
    OBVIOUS
  <1>3. Reads(All(slots'), d, n, l)
    BY <1>1, <1>2, LookupOf DEF Used
  <1>4. l = Lookup(d, n)'
    BY <1>2 DEF Lookup, Match
  <1> QED
    BY <1>3, <1>4 DEF Used

LEMMA OthersSame ==
    ASSUME DirInv, sound, DirInv', sound', NEW P, SameBut(Used, Used', P)
    PROVE  Promise!Others(P)
  <1>1. ASSUME NEW d \in Inodes, NEW n \in Names, <<d, n>> \notin P
        PROVE  Lookup(d, n)' = Lookup(d, n)
    <2>1. Reads(Used, d, n, Lookup(d, n)) /\ Reads(Used', d, n, Lookup(d, n)')
      BY LookupNow, LookupNext
    <2>2. \A x : Nm(x) = n /\ Dir(x) = d => (x \in Used <=> x \in Used')
      BY <1>1 DEF SameBut, IsName
    <2>3. CASE \E x \in Used : Dir(x) = d /\ Nm(x) = n
      BY <2>1, <2>2, <2>3 DEF Reads
    <2>4. CASE \A x \in Used : ~(Dir(x) = d /\ Nm(x) = n)
      BY <2>1, <2>2, <2>4 DEF Reads
    <2> QED
      BY <2>3, <2>4
  <1> QED
    BY <1>1 DEF Promise!Others

\* No name changes.
LEMMA NamesSame ==
    ASSUME DirInv, sound, DirInv', sound', SameBut(Used, Used', {})
    PROVE  [d \in Inodes |-> [n \in Names |-> Lookup(d, n)]]'
             = [d \in Inodes |-> [n \in Names |-> Lookup(d, n)]]
  <1>1. Promise!Others({})
    BY OthersSame
  <1>2. \A d \in Inodes, n \in Names : Lookup(d, n)' = Lookup(d, n)
    BY <1>1 DEF Promise!Others
  <1> QED
    BY <1>2

\* The name n of d is entered.
LEMMA EnteredSo ==
    ASSUME DirInv, sound, DirInv', sound', NEW d \in Inodes, NEW n \in Names, ~Found(d, n),
           NEW x, IsName(x), Dir(x) = d, Nm(x) = n, Ino(x) \in Inodes,
           NEW B, \A y \in B : ~IsName(y), Used' = Used \cup B \cup {x}
    PROVE  /\ Promise!Others({<<d, n>>}) /\ Promise!Entered(d, n)
           /\ Lookup(d, n) = Free /\ Lookup(d, n)' = Ino(x)
  <1>1. SameBut(Used, Used', {<<d, n>>})
    BY DEF SameBut
  <1>2. Promise!Others({<<d, n>>})
    BY <1>1, OthersSame
  <1>3. Lookup(d, n) = Free
    BY FoundIs DEF DirInv
  <1>4. Lookup(d, n)' = Ino(x)
    BY LookupNext DEF Reads
  <1>5. Lookup(d, n)' # Free
    BY <1>4, DirectoryAssumption
  <1> QED
    BY <1>2, <1>3, <1>4, <1>5 DEF Promise!Entered

\* The name n of d goes.
LEMMA LeftSo ==
    ASSUME DirInv, sound, DirInv', sound', NEW d \in Inodes, NEW n \in Names,
           NEW x \in Used, IsName(x), Dir(x) = d, Nm(x) = n,
           SameBut(Used \ {x}, Used', {}), x \notin Used'
    PROVE  /\ Promise!Others({<<d, n>>}) /\ Promise!Left(d, n)
           /\ Lookup(d, n) = Ino(x) /\ Lookup(d, n)' = Free
  <1>1. \A a, b \in Used : Dir(a) = Dir(b) /\ Nm(a) = Nm(b) => a = b
    BY DEF DirInv, TreeInv, Tree, NamesOK
  <1>2. SameBut(Used, Used', {<<d, n>>})
    BY DEF SameBut
  <1>3. Promise!Others({<<d, n>>})
    BY <1>2, OthersSame
  <1>4. Lookup(d, n) = Ino(x) /\ Ino(x) \in Inodes
    BY LookupNow, AllHas DEF Reads, DirInv, Used
  <1>5. \A y \in Used' : ~(Dir(y) = d /\ Nm(y) = n)
    BY <1>1 DEF SameBut, IsName
  <1>6. Lookup(d, n)' = Free
    BY <1>5, LookupNext DEF Reads
  <1>7. Lookup(d, n) # Free
    BY <1>4, DirectoryAssumption
  <1> QED
    BY <1>3, <1>4, <1>6, <1>7 DEF Promise!Left

\* An inode without names in it may go.
LEMMA RemovableSo ==
    ASSUME DirInv, sound, NEW i \in Inodes, kind[i] = "dir" => NoNames(Used, i)
    PROVE  Promise!Removable(i)
  <1>1. ASSUME kind[i] = "dir", NEW n \in Names PROVE Lookup(i, n) = Free
    <2>1. Reads(Used, i, n, Lookup(i, n)) /\ NoNames(Used, i)
      BY <1>1, LookupNow
    <2>2. \A x \in Used : ~(Dir(x) = i /\ Nm(x) = n)
      BY <2>1 DEF NoNames, IsName
    <2> QED
      BY <2>1, <2>2 DEF Reads
  <1> QED
    BY <1>1 DEF Promise!Removable, Promise!Empty

LEMMA CreateSo ==
    ASSUME DirInv, sound, DirInv', sound', NEW d \in Inodes, NEW n \in Names, NEW i \in Inodes,
           Live(d), ~Found(d, n), Create(d, n, i) \/ Link(d, n, i) \/ Mkdir(d, n, i)
    PROVE  Promise!Next
  <1>1. /\ Tree(Used, kind, has_dots) /\ slots \in Files /\ Short(slots) /\ has_dots \in BOOLEAN
        /\ InTree(Used, kind, d)
    BY Before
  <1>2. CASE Create(d, n, i) \/ Link(d, n, i)
    <2>1. HasRoom(d) /\ slots' = [slots EXCEPT ![d] = AddLink(slots[d], n, i)]
      BY <1>2 DEF Create, Link
    <2>2. PICK x : /\ IsName(x) /\ Dir(x) = d /\ Ino(x) = i /\ Nm(x) = n /\ x \notin Used
                   /\ slots' \in Files /\ Short(slots') /\ Used' = Used \cup {x}
      BY <1>1, <2>1, AddNext
    <2>3. PICK B : (\A y \in B : ~IsName(y)) /\ Used' = Used \cup B \cup {x}
      <3>1. (\A y \in {} : ~IsName(y)) /\ Used' = Used \cup {} \cup {x}
        BY <2>2
      <3> QED
        BY <3>1
    <2>4. /\ Promise!Others({<<d, n>>}) /\ Promise!Entered(d, n)
          /\ Lookup(d, n)' = i
      BY <2>2, <2>3, EnteredSo
    <2>5. CASE Create(d, n, i)
      <3>1. kind[i] = "none" /\ kind' = [kind EXCEPT ![i] = "file"]
        BY <2>5 DEF Create
      <3>2. Promise!Create(d, n, "file")
        BY <2>4, <3>1 DEF Promise!Create
      <3> QED
        BY <2>4, <3>2 DEF Promise!Next
    <2>6. CASE Link(d, n, i)
      <3>1. kind[i] = "file" /\ kind' = kind
        BY <2>6 DEF Link
      <3>2. Promise!Link(d, n)
        BY <2>4, <3>1 DEF Promise!Link
      <3> QED
        BY <2>4, <3>2 DEF Promise!Next
    <2> QED
      BY <1>2, <2>5, <2>6
  <1>3. CASE Mkdir(d, n, i)
    <2>1. HasRoom(d) /\ kind[i] = "none" /\ kind' = [kind EXCEPT ![i] = "dir"] /\ i # d
      BY <1>1, <1>3 DEF Mkdir, InTree
    <2>2. slots' = Made(d, n, i)
      BY <1>1, <1>3, <2>1 DEF Mkdir, Made, Files
    <2>3. PICK x : /\ IsName(x) /\ Dir(x) = d /\ Ino(x) = i /\ Nm(x) = n /\ x \notin Used
                   /\ Used' = { y \in Used \cup {x} : Dir(y) # i } \cup DotsOf(has_dots, i, d)
      BY <1>1, <2>1, <2>2, MkdirStep DEF Used
    <2>4. \A y \in Used : Dir(y) # i
      BY <1>1, <2>1, Apart
    <2>5. Used' = Used \cup DotsOf(has_dots, i, d) \cup {x}
      BY <2>1, <2>3, <2>4
    <2>6. \A y \in DotsOf(has_dots, i, d) : ~IsName(y)
      BY DotIs DEF DotsOf
    <2>7. /\ Promise!Others({<<d, n>>}) /\ Promise!Entered(d, n)
          /\ Lookup(d, n)' = i
      BY <2>3, <2>5, <2>6, EnteredSo
    <2>8. Promise!Create(d, n, "dir")
      BY <2>1, <2>7 DEF Promise!Create
    <2> QED
      BY <2>7, <2>8 DEF Promise!Next
  <1> QED
    BY <1>2, <1>3

LEMMA RemoveSo ==
    ASSUME DirInv, sound, DirInv', sound', NEW d \in Inodes, NEW n \in Names,
           Found(d, n), Unlink(d, n) \/ Rmdir(d, n)
    PROVE  Promise!Next
  <1>1. /\ Sane /\ Tree(Used, kind, has_dots) /\ slots \in Files /\ Short(slots)
        /\ has_dots \in BOOLEAN
    BY Before
  <1>2. CASE Unlink(d, n)
    <2>1. PICK x \in Used : /\ Dir(x) = d /\ Nm(x) = n /\ IsName(x)
                            /\ Ino(x) = Lookup(d, n) /\ x[3] = At(d, n) /\ Ino(x) \in Inodes
      BY <1>1, FoundIs
    <2>2. kind[Ino(x)] = "file" /\ slots' = [slots EXCEPT ![Dir(x)][x[3]] = Deleted] /\ kind' = kind
      BY <1>2, <2>1 DEF Unlink
    <2>3. Used' = Used \ {x}
      BY <1>1, <2>2, LeaveStep DEF Used
    <2>4. SameBut(Used \ {x}, Used', {}) /\ x \notin Used'
      BY <2>3 DEF SameBut
    <2>5. Promise!Others({<<d, n>>}) /\ Promise!Left(d, n)
      BY <2>1, <2>4, LeftSo
    <2>6. Promise!Removable(Lookup(d, n))
      BY <2>1, <2>2, RemovableSo
    <2>7. Promise!Remove(d, n)
      BY <2>2, <2>5, <2>6 DEF Promise!Remove
    <2> QED
      BY <2>5, <2>7 DEF Promise!Next
  <1>3. CASE Rmdir(d, n)
    <2>1. PICK i \in Inodes : i = Lookup(d, n)
      BY <1>1, FoundIs
    <2>2. /\ kind[i] = "dir" /\ Remove(d, n, i) /\ IsEmpty(slots[i])
          /\ sound' = sound /\ clean' = clean
      BY <1>3, <2>1 DEF Rmdir
    <2>3. \E x \in Used :
              /\ IsName(x) /\ Dir(x) = d /\ Nm(x) = n /\ Ino(x) = i /\ i # d
              /\ Used' = { y \in Used \ {x} : Dir(y) # i }
              /\ nlink' = [nlink EXCEPT ![i] = nlink[i] - 1 - Up, ![d] = i_nlink[d] - Up]
              /\ i_nlink' = [i_nlink EXCEPT ![i] = nlink[i] - 1 - Up, ![d] = i_nlink[d] - Up]
              /\ UNCHANGED <<kind, opened, has_dots>>
      BY <2>1, <2>2, RemoveIs
    <2>4. PICK x \in Used :
              /\ IsName(x) /\ Dir(x) = d /\ Nm(x) = n /\ Ino(x) = i
              /\ Used' = { y \in Used \ {x} : Dir(y) # i } /\ kind' = kind
      BY <2>3
    <2>5. NoNames(Used, i)
      BY <1>1, <2>2, EmptyIs DEF NoNames
    <2>6. SameBut(Used \ {x}, Used', {}) /\ x \notin Used'
      BY <2>4, <2>5 DEF SameBut, NoNames
    <2>7. Promise!Others({<<d, n>>}) /\ Promise!Left(d, n)
      BY <2>4, <2>6, LeftSo
    <2>8. Promise!Removable(Lookup(d, n))
      BY <2>1, <2>5, RemovableSo
    <2>9. Promise!Remove(d, n)
      BY <2>4, <2>7, <2>8 DEF Promise!Remove
    <2> QED
      BY <2>7, <2>9 DEF Promise!Next
  <1> QED
    BY <1>2, <1>3

LEMMA RenameSo ==
    ASSUME DirInv, sound, DirInv', sound', NEW d \in Inodes, NEW n \in Names,
           NEW e \in Inodes, NEW m \in Names, Found(d, n), Live(e), Rename(d, n, e, m)
    PROVE  Promise!Next
  <1>1. PICK i, t, U : i = Lookup(d, n) /\ t = Lookup(e, m) /\ U = Used \ Target(e, m)
    OBVIOUS
  <1>2. Renames(d, n, e, m) /\ kind' = kind /\ <<d, n>> # <<e, m>>
    BY DEF Rename, Renames, MayRename
  <1>3. \A a, b \in Used : Dir(a) = Dir(b) /\ Nm(a) = Nm(b) => a = b
    BY DEF DirInv, TreeInv, Tree, NamesOK
  <1>4. /\ t # Free => t \in Inodes /\ kind[t] = kind[i]
        /\ t # Free /\ kind[i] = "dir" => NoNames(Used, t)
    BY <1>1, <1>2, RenameOf
  <1>0. PICK x \in Used : \E z :
            /\ IsName(x) /\ Dir(x) = d /\ Nm(x) = n /\ Ino(x) = i /\ x \notin Target(e, m)
            /\ IsName(z) /\ Dir(z) = e /\ Nm(z) = m /\ Ino(z) = i /\ z \notin Used
            /\ Used' = IF kind[i] = "dir" THEN Moved(U, has_dots, x, z) ELSE (U \ {x}) \cup {z}
    BY <1>1, RenameUsed
  <1>5. PICK z :
            /\ IsName(x) /\ Dir(x) = d /\ Nm(x) = n /\ Ino(x) = i /\ x \notin Target(e, m)
            /\ IsName(z) /\ Dir(z) = e /\ Nm(z) = m /\ Ino(z) = i /\ z \notin Used
            /\ Used' = IF kind[i] = "dir" THEN Moved(U, has_dots, x, z) ELSE (U \ {x}) \cup {z}
    BY <1>0
  <1>6. \A a : IsName(a) => (a \in Used' <=> a \in (U \ {x}) \cup {z})
    <2>1. \A p : \A a \in UpOf(has_dots, i, p) : ~IsName(a)
      BY DotIs DEF UpOf
    <2> QED
      BY <1>5, <2>1 DEF Moved
  <1>7. SameBut(Used, Used', {<<d, n>>, <<e, m>>})
    BY <1>1, <1>5, <1>6 DEF SameBut, Target
  <1>8. Promise!Others({<<d, n>>, <<e, m>>})
    BY <1>7, OthersSame
  <1>9. z \in Used' /\ Lookup(e, m)' = i
    <2>1. z \in Used'
      BY <1>5, <1>6
    <2> QED
      BY <1>5, <2>1, LookupNext DEF Reads
  <1>10. \A y \in Used' : ~(Dir(y) = d /\ Nm(y) = n)
    BY <1>1, <1>2, <1>3, <1>5, <1>6 DEF IsName
  <1>11. Lookup(d, n)' = Free
    BY <1>10, LookupNext DEF Reads
  <1>12. i # Free
    <2>1. i \in Inodes
      BY <1>1, <1>2, RenameOf
    <2> QED
      BY <2>1, DirectoryAssumption
  <1>13. t # Free => Promise!Removable(t)
    BY <1>4, RemovableSo
  <1>14. Promise!Left(d, n)
    BY <1>1, <1>11, <1>12 DEF Promise!Left
  <1>15. Promise!Rename(d, n, e, m)
    BY <1>1, <1>2, <1>8, <1>9, <1>13 DEF Promise!Rename
  <1> QED
    BY <1>14, <1>15 DEF Promise!Next

LEMMA OrphanSo ==
    ASSUME DirInv, sound, DirInv', sound', NEW d \in Inodes, NEW i \in Inodes, MkdirFails(d, i)
    PROVE  Promise!Next
  <1>1. kind[i] = "none" /\ kind' = [kind EXCEPT ![i] = "dir"]
    BY DEF MkdirFails
  <1>2. /\ slots \in Files /\ slots' \in Files /\ Tree(Used, kind, has_dots)
        /\ \A c \in Inodes \ {i} : slots'[c] = slots[c]
    BY DEF MkdirFails, DirInv, TreeInv, Files
  <1>3. /\ \A y \in Used : IsName(y) => Dir(y) # i
        /\ \A y \in Used' : IsName(y) => Dir(y) # i
    <2>1. /\ ~InTree(Used, kind, i)
          /\ \A y \in Used : IsName(y) => InTree(Used, kind, Dir(y)) /\ Ino(y) # i
      BY <1>1, <1>2 DEF InTree, Tree, NamesOK
    <2>2. \A y \in Used' : IsName(y) => InTree(Used', kind', Dir(y))
      BY DEF DirInv, TreeInv, Tree, NamesOK
    <2>3. \A k \in DOMAIN slots'[i] : slots'[i][k].name \in {".", ".."}
      <3>1. PICK k \in 0 .. 2 : slots' = [slots EXCEPT ![i] = SubSeq(Dots(i, d), 1, k)]
        BY DEF MkdirFails
      <3>2. PICK u \in Seq(Slot) : /\ u = Dots(i, d) /\ Len(u) = 2
                                   /\ u[1].name = "." /\ u[2].name = ".."
        <4>1. DE(i, ".") \in Slot /\ DE(d, "..") \in Slot
          BY EntryIs
        <4>2. has_dots
          BY DEF MkdirFails
        <4>3. <<DE(i, "."), DE(d, "..")>> \in Seq(Slot)
          BY <4>1
        <4> QED
          BY <4>2, <4>3 DEF Dots, DE
      <3>3. slots'[i] = SubSeq(u, 1, k)
        BY <1>2, <3>1, <3>2 DEF Files
      <3> QED
        BY <3>2, <3>3
    <2>4. ASSUME NEW y \in Used', IsName(y), Dir(y) = i PROVE FALSE
      <3>1. y[3] \in DOMAIN slots'[i] /\ y[2] = slots'[i][y[3]]
        BY <1>2, <2>4, AllHas DEF Used
      <3> QED
        BY <2>3, <2>4, <3>1, DirectoryAssumption DEF IsName, Nm
    <2> QED
      BY <2>1, <2>4
  <1>4. SameBut(Used, Used', {})
    <2>1. ASSUME NEW x \in Used, Dir(x) # i PROVE x \in Used'
      <3>1. PICK c, k : c \in Inodes /\ k \in DOMAIN slots[c] /\ InUse(slots[c][k]) /\ x = <<c, slots[c][k], k>>
        BY AllIs DEF Used
      <3>2. slots'[c] = slots[c]
        BY <1>2, <2>1, <3>1 DEF Dir
      <3> QED
        BY <3>1, <3>2, AllThere DEF Used
    <2>2. ASSUME NEW x \in Used', Dir(x) # i PROVE x \in Used
      <3>1. PICK c, k : c \in Inodes /\ k \in DOMAIN slots'[c] /\ InUse(slots'[c][k]) /\ x = <<c, slots'[c][k], k>>
        BY AllIs DEF Used
      <3>2. slots'[c] = slots[c]
        BY <1>2, <2>2, <3>1 DEF Dir
      <3> QED
        BY <3>1, <3>2, AllThere DEF Used
    <2> QED
      BY <1>3, <2>1, <2>2 DEF SameBut
  <1>5. [c \in Inodes |-> [n \in Names |-> Lookup(c, n)]]'
          = [c \in Inodes |-> [n \in Names |-> Lookup(c, n)]]
    BY <1>4, NamesSame
  <1>6. Promise!Orphan(i)
    BY <1>1, <1>5 DEF Promise!Orphan
  <1> QED
    BY <1>6 DEF Promise!Next

LEMMA GiveUpSo ==
    ASSUME DirInv, sound, DirInv', sound', NEW i \in Inodes, Evict(i)
    PROVE  Promise!Next
  <1>1. /\ i # Root /\ kind[i] # "none" /\ kind' = [kind EXCEPT ![i] = "none"]
        /\ slots' = [slots EXCEPT ![i] = <<>>]
    BY DEF Evict
  <1>2. ~Named(Used, i) /\ slots \in Files /\ Tree(Used, kind, has_dots)
    BY EvictKeeps DEF DirInv, TreeInv
  <1>3. Used' = { x \in Used : Dir(x) # i }
    BY <1>1, <1>2, ClearStep DEF Used
  <1>4. \A x \in Used : IsName(x) => Dir(x) # i
    BY <1>1, <1>2, Apart DEF InTree
  <1>5. SameBut(Used, Used', {})
    BY <1>3, <1>4 DEF SameBut
  <1>6. [c \in Inodes |-> [n \in Names |-> Lookup(c, n)]]'
          = [c \in Inodes |-> [n \in Names |-> Lookup(c, n)]]
    BY <1>5, NamesSame
  <1>7. Promise!Removable(i)
    BY <1>4, RemovableSo DEF NoNames
  <1>8. ~Promise!Named(i)
    <2>1. ASSUME NEW c \in Inodes, NEW n \in Names, Lookup(c, n) = i PROVE FALSE
      <3>1. Reads(Used, c, n, i) /\ i # Free
        BY <2>1, LookupNow, DirectoryAssumption
      <3>2. PICK x \in Used : Dir(x) = c /\ Nm(x) = n /\ Ino(x) = i
        BY <3>1 DEF Reads
      <3> QED
        BY <1>2, <3>2 DEF Named, IsName
    <2> QED
      BY <2>1 DEF Promise!Named
  <1>9. Promise!GiveUp(i)
    BY <1>1, <1>6, <1>7, <1>8 DEF Promise!GiveUp
  <1> QED
    BY <1>9 DEF Promise!Next

\* Every step of the directories' code is one that the operations promise: a name is
\* entered, left or moved, only those names change that the caller has given, whichever
\* entries of the directory files are reused, and an inode is given up only without names.
THEOREM KeepsPromiseCorrect == Spec => KeepsPromise
  <1>1. DirInv /\ [Next]_vars => (sound' => UNCHANGED Promise!vars \/ Promise!Next)
    <2> SUFFICES ASSUME DirInv, [Next]_vars, sound' PROVE UNCHANGED Promise!vars \/ Promise!Next
      OBVIOUS
    <2>1. DirInv'
      BY NextInv
    <2>2. UNCHANGED <<kind, slots>> => UNCHANGED Promise!vars
      BY DEF Promise!vars, Lookup, Match
    <2>3. CASE UNCHANGED vars
      BY <2>2, <2>3 DEF vars
    <2>4. ASSUME sound, NEW d \in Inodes, Live(d), Operation(d)
          PROVE  UNCHANGED Promise!vars \/ Promise!Next
      <3>1. ASSUME NEW n \in Names, Enters(d, n) PROVE Promise!Next
        BY <2>1, <2>4, <3>1, CreateSo DEF Enters
      <3>2. ASSUME NEW n \in Names, Leaves(d, n) PROVE Promise!Next
        <4>1. ~RmdirBlind(d, n)
          BY DEF RmdirBlind
        <4> QED
          BY <2>1, <2>4, <3>2, <4>1, RemoveSo DEF Leaves
      <3>3. ASSUME NEW n \in Names, Moves(d, n) PROVE Promise!Next
        <4>1. PICK e \in Inodes, m \in Names :
                  Live(e) /\ (Rename(d, n, e, m) \/ RenameLoses(d, n, e, m) \/ RenameHalf(d, n, e, m))
          BY <3>3 DEF Moves
        <4>2. ~RenameLoses(d, n, e, m) /\ ~RenameHalf(d, n, e, m)
          BY DEF RenameLoses, RenameHalf
        <4> QED
          BY <2>1, <2>4, <3>3, <4>1, <4>2, RenameSo DEF Moves
      <3>4. ASSUME MkdirNoInode(d) PROVE UNCHANGED Promise!vars
        BY <2>2, <3>4 DEF MkdirNoInode
      <3>5. ASSUME NEW i \in Inodes, MkdirFails(d, i) PROVE Promise!Next
        BY <2>1, <2>4, <3>5, OrphanSo
      <3> QED
        BY <2>4, <3>1, <3>2, <3>3, <3>4, <3>5 DEF Operation
    <2>5. ASSUME sound, NEW i \in Inodes, Use(i)
          PROVE  UNCHANGED Promise!vars \/ Promise!Next
      <3>1. CASE Evict(i)
        BY <2>1, <2>5, <3>1, GiveUpSo
      <3>2. CASE ~Evict(i)
        BY <2>2, <2>5, <3>2 DEF Use, Open, Close, ReadWrite, WriteBack
      <3> QED
        BY <3>1, <3>2
    <2> QED
      BY <2>3, <2>4, <2>5 DEF Next
  <1> QED
    BY <1>1, DirCorrect, PTL DEF Spec, KeepsPromise

=============================================================================
