--------------------------- MODULE ListingProofs ----------------------------
(***************************************************************************)
(* Theorems about Listing, for every set of names, size of the directory,  *)
(* block and buffer, with or without unreadable blocks.                    *)
(***************************************************************************)
EXTENDS Listing, TLAPS

Words == Names \cup {Free, ".", ".."}

\* The dots of a volume that has them stay where they are.
DotsFirst ==
    has_dots => /\ Len(slots) >= 2
                /\ ~IsName(slots[1]) /\ slots[1] # Free
                /\ ~IsName(slots[2]) /\ slots[2] # Free

\* The slots that the position has passed.
Passed(k) == k <= pos - Shift

\* What has been emitted has been passed, and what has been passed was emitted, if it
\* was there and there was room for it.
OnceInv ==
    /\ TypeOK
    /\ slots \in Seq(Words)
    /\ DotsFirst
    /\ \A k \in Slots : emitted[k] = 0 \/ (emitted[k] = 1 /\ Passed(k))
    /\ dots = IF pos < 2 THEN pos ELSE 2
    /\ \A k \in stayed \ refused : Passed(k) => emitted[k] = 1
    /\ pc = "call" => ~ended /\ (room = 0 => got)
    /\ ended /\ ~failed => pos >= 2 /\ \A k \in stayed : Passed(k)

LEMMA SlotsFacts ==
    ASSUME slots \in Seq(Words)
    PROVE  /\ Len(slots) \in Nat /\ DOMAIN slots = 1 .. Len(slots)
           /\ \A k \in DOMAIN slots : slots[k] \in Words
  OBVIOUS

\* Another word in a place of a sequence, and one more at its end.
LEMMA PutSeq ==
    ASSUME NEW S, NEW s \in Seq(S), NEW k \in DOMAIN s, NEW e \in S,
           NEW t, t = [s EXCEPT ![k] = e]
    PROVE  /\ t \in Seq(S) /\ Len(t) = Len(s) /\ DOMAIN t = 1 .. Len(t)
           /\ t[k] = e /\ \A j \in DOMAIN s \ {k} : t[j] = s[j]
  OBVIOUS

LEMMA AppendSeq ==
    ASSUME NEW S, NEW s \in Seq(S), NEW e \in S, NEW t, t = Append(s, e)
    PROVE  /\ t \in Seq(S) /\ Len(t) = Len(s) + 1 /\ DOMAIN t = 1 .. Len(t)
           /\ t[Len(s) + 1] = e /\ \A j \in DOMAIN s : t[j] = s[j]
  OBVIOUS

LEMMA OnceInit == Init => OnceInv
  <1> SUFFICES ASSUME Init PROVE OnceInv
    OBVIOUS
  <1> USE ListingAssumption
  <1>n. PICK n \in 0 .. Room : \E t \in [1 .. n -> Names \cup {Free}] :
           slots = (IF has_dots THEN <<".", "..">> ELSE <<>>) \o t
    BY DEF Init
  <1>1. PICK t \in [1 .. n -> Names \cup {Free}] :
           slots = (IF has_dots THEN <<".", "..">> ELSE <<>>) \o t
    BY <1>n
  <1>2. t \in Seq(Words) /\ Len(t) = n
    BY <1>1 DEF Words
  <1>3. slots \in Seq(Words) /\ Len(slots) <= MaxSlots /\ DotsFirst
    <2>1. CASE has_dots
      <3>1. slots = <<".", "..">> \o t /\ <<".", "..">> \in Seq(Words)
        BY <1>1, <2>1 DEF Words
      <3>2. /\ slots \in Seq(Words) /\ Len(slots) = n + 2
            /\ slots[1] = "." /\ slots[2] = ".."
        BY <1>2, <3>1
      <3> QED
        BY <3>2 DEF DotsFirst, MaxSlots, IsName
    <2>2. CASE ~has_dots
      <3>1. slots = <<>> \o t
        BY <1>1, <2>2
      <3>2. slots \in Seq(Words) /\ Len(slots) = n
        BY <1>2, <3>1
      <3> QED
        BY <2>2, <3>2 DEF DotsFirst, MaxSlots
    <2> QED
      BY <2>1, <2>2
  <1>4. \A k \in DOMAIN slots : ~Passed(k)
    BY <1>3, SlotsFacts DEF Init, Passed, Shift
  <1>5. TypeOK
    <2>1. \A k \in DOMAIN slots : slots[k] \in Names \cup {Free, ".", ".."}
      BY <1>3, SlotsFacts DEF Words
    <2>2. emitted \in [Slots -> 0 .. 3] /\ dots \in 0 .. 3
      BY DEF Init
    <2>3. stayed \cup refused \subseteq { k \in DOMAIN slots : IsName(slots[k]) }
      BY DEF Init
    <2>4. pos \in 0 .. Len(slots) + 2 /\ room \in 0 .. MaxBuf
      BY <1>3, SlotsFacts DEF Init
    <2> QED
      BY <1>3, <2>1, <2>2, <2>3, <2>4 DEF Init, TypeOK
  <1> QED
    BY <1>3, <1>4, <1>5 DEF Init, OnceInv, Slots

-----------------------------------------------------------------------------
(* The steps                                                                *)

\* Another entry in the slot k, which is one of the file's or the next.
Puts(k, e) ==
    /\ k \in DOMAIN slots /\ slots[k] \in Names \cup {Free}
    /\ slots' = [slots EXCEPT ![k] = e]

Appends(k, e) ==
    /\ k = Len(slots) + 1
    /\ Len(slots) < Room + (IF has_dots THEN 2 ELSE 0)
    /\ slots' = Append(slots, e)

LEMMA ReplacedKeeps ==
    ASSUME OnceInv, NEW k \in Slots, NEW e \in Names \cup {Free},
           pc = "user", Replaced(k),
           Puts(k, e) \/ Appends(k, e)
    PROVE  OnceInv'
  <1> USE ListingAssumption
  <1>1. Len(slots) \in Nat /\ DOMAIN slots = 1 .. Len(slots)
    BY DEF OnceInv
  <1>2. /\ slots' \in Seq(Words) /\ DOMAIN slots' = 1 .. Len(slots')
        /\ Len(slots') \in Nat /\ Len(slots) <= Len(slots') /\ Len(slots') <= MaxSlots
        /\ \A j \in DOMAIN slots \ {k} : slots'[j] = slots[j]
    <2>1. e \in Words /\ slots \in Seq(Words) /\ Len(slots) <= MaxSlots
      BY DEF OnceInv, TypeOK, Words
    <2>2. PICK t : t = slots'
      OBVIOUS
    <2>3. CASE Puts(k, e)
      <3>1. /\ t \in Seq(Words) /\ Len(t) = Len(slots) /\ DOMAIN t = 1 .. Len(t)
            /\ \A j \in DOMAIN slots \ {k} : t[j] = slots[j]
        BY <2>1, <2>2, <2>3, PutSeq DEF Puts
      <3> QED
        BY <1>1, <2>1, <2>2, <3>1 DEF MaxSlots
    <2>4. CASE Appends(k, e)
      <3>1. /\ t \in Seq(Words) /\ Len(t) = Len(slots) + 1 /\ DOMAIN t = 1 .. Len(t)
            /\ \A j \in DOMAIN slots : t[j] = slots[j]
        BY <2>1, <2>2, <2>4, AppendSeq DEF Appends
      <3>2. Len(slots) + 1 <= MaxSlots
        BY <1>1, <2>4 DEF MaxSlots, Appends
      <3> QED
        BY <1>1, <2>1, <2>2, <3>1, <3>2 DEF MaxSlots
    <2> QED
      BY <2>3, <2>4
  <1>3. /\ has_dots' = has_dots /\ pos' = pos /\ pc' = pc /\ room' = room
        /\ fresh' = fresh /\ got' = got /\ ended' = ended
        /\ dots' = dots /\ failed' = failed
        /\ emitted' = [emitted EXCEPT ![k] = 0]
        /\ stayed' = stayed \ {k} /\ refused' = refused \ {k}
    BY DEF Replaced, reader
  <1>4. DotsFirst'
    <2> SUFFICES ASSUME has_dots PROVE DotsFirst'
      BY <1>3 DEF DotsFirst
    <2>1. /\ Len(slots) >= 2 /\ slots[1] \notin Names \cup {Free}
          /\ slots[2] \notin Names \cup {Free}
      BY DEF OnceInv, DotsFirst, IsName
    <2>2. k # 1 /\ k # 2
      BY <1>1, <2>1 DEF Puts, Appends
    <2>3. slots'[1] = slots[1] /\ slots'[2] = slots[2] /\ Len(slots') >= 2
      BY <1>1, <1>2, <2>1, <2>2
    <2> QED
      BY <2>1, <2>3 DEF DotsFirst, IsName
  <1>5. TypeOK'
    <2>1. \A j \in DOMAIN slots' : slots'[j] \in Words
      <3>1. slots' \in [1 .. Len(slots') -> Words]
        BY <1>2
      <3> QED
        BY <1>2, <3>1
    <2>2. stayed' \cup refused' \subseteq { j \in DOMAIN slots' : IsName(slots'[j]) }
      <3>1. stayed \cup refused \subseteq { j \in DOMAIN slots : IsName(slots[j]) }
        BY DEF OnceInv, TypeOK
      <3>2. \A j \in DOMAIN slots : j \in DOMAIN slots'
        BY <1>1, <1>2
      <3> QED
        BY <1>2, <1>3, <3>1, <3>2 DEF IsName
    <2>3. pos' \in 0 .. Len(slots') + 2
      <3>1. pos \in 0 .. Len(slots) + 2
        BY DEF OnceInv, TypeOK
      <3> QED
        BY <1>1, <1>2, <1>3, <3>1
    <2>4. emitted' \in [Slots -> 0 .. 3]
      BY <1>3 DEF OnceInv, TypeOK
    <2>5. Len(slots') <= MaxSlots
      BY <1>1, <1>2 DEF MaxSlots
    <2>6. /\ has_dots' \in BOOLEAN /\ pc' \in {"user", "call"} /\ room' \in 0 .. MaxBuf
          /\ {fresh', got', ended', failed'} \subseteq BOOLEAN /\ dots' \in 0 .. 3
      BY <1>3 DEF OnceInv, TypeOK
    <2> QED
      BY <2>1, <2>2, <2>3, <2>4, <2>5, <2>6 DEF TypeOK, Words
  <1>6. \A j \in Slots : Passed(j)' <=> Passed(j)
    BY <1>3 DEF Passed, Shift
  <1>7. emitted'[k] = 0 /\ \A j \in Slots \ {k} : emitted'[j] = emitted[j]
    BY <1>3 DEF OnceInv, TypeOK
  <1>8. stayed \subseteq Slots
    BY <1>1 DEF OnceInv, TypeOK, Slots, MaxSlots
  <1>9. \A j \in Slots : emitted'[j] = 0 \/ (emitted'[j] = 1 /\ Passed(j)')
    BY <1>6, <1>7 DEF OnceInv
  <1>10. \A j \in stayed' \ refused' : Passed(j)' => emitted'[j] = 1
    BY <1>3, <1>6, <1>7, <1>8 DEF OnceInv
  <1>11. ended' /\ ~failed' => pos' >= 2 /\ \A j \in stayed' : Passed(j)'
    BY <1>3, <1>6, <1>8 DEF OnceInv
  <1> QED
    BY <1>2, <1>3, <1>4, <1>5, <1>9, <1>10, <1>11 DEF OnceInv

LEMMA AddKeeps ==
    ASSUME OnceInv, NEW n \in Names, Add(n)
    PROVE  OnceInv'
  <1> USE ListingAssumption
  <1>1. Len(slots) \in Nat /\ DOMAIN slots = 1 .. Len(slots) /\ Len(slots) <= MaxSlots
    BY DEF OnceInv, TypeOK
  <1>2. CASE \E k \in Vacant : slots' = [slots EXCEPT ![k] = n] /\ Replaced(k)
    <2>1. PICK k \in Vacant : slots' = [slots EXCEPT ![k] = n] /\ Replaced(k)
      BY <1>2
    <2>2. k \in Slots /\ k \in DOMAIN slots /\ slots[k] \in Names \cup {Free}
      BY <1>1 DEF Vacant, Slots, MaxSlots
    <2>3. pc = "user" /\ n \in Names \cup {Free}
      BY DEF Add
    <2> QED
      BY <2>1, <2>2, <2>3, ReplacedKeeps DEF Puts
  <1>3. CASE /\ Len(slots) < Room + (IF has_dots THEN 2 ELSE 0)
             /\ slots' = Append(slots, n)
             /\ Replaced(Len(slots) + 1)
    <2>1. PICK k \in Slots : k = Len(slots) + 1
      BY <1>1, <1>3 DEF Slots, MaxSlots
    <2>2. pc = "user" /\ n \in Names \cup {Free}
      BY DEF Add
    <2>3. Replaced(k)
      BY <1>3, <2>1
    <2> QED
      BY <1>3, <2>1, <2>2, <2>3, ReplacedKeeps DEF Appends
  <1> QED
    BY <1>2, <1>3 DEF Add

LEMMA RemoveKeeps ==
    ASSUME OnceInv, NEW k \in Slots, Remove(k)
    PROVE  OnceInv'
  <1>1. /\ k \in DOMAIN slots /\ slots[k] \in Names \cup {Free}
        /\ slots' = [slots EXCEPT ![k] = Free]
        /\ pc = "user" /\ Replaced(k) /\ Free \in Names \cup {Free}
    BY DEF Remove, IsName
  <1> QED
    BY <1>1, ReplacedKeeps DEF Puts

\* What the invariant says in the numbers that the steps of the reader work with.
LEMMA Places ==
    ASSUME OnceInv
    PROVE  /\ Len(slots) \in Nat /\ DOMAIN slots = 1 .. Len(slots)
           /\ DOMAIN slots \subseteq Slots
           /\ pos \in Nat /\ pos <= Len(slots) + 2
           /\ Shift \in {0, 2} /\ (has_dots <=> Shift = 0)
           /\ Shift = 0 => /\ Len(slots) >= 2
                           /\ ~IsName(slots[1]) /\ ~IsName(slots[2])
           /\ stayed \cup refused \subseteq DOMAIN slots
           /\ \A k \in stayed \cup refused : IsName(slots[k])
           /\ MaxBuf \in Nat \ {0} /\ room \in 0 .. MaxBuf
  <1> USE ListingAssumption
  <1>1. Len(slots) \in Nat /\ DOMAIN slots = 1 .. Len(slots) /\ Len(slots) <= MaxSlots
    BY DEF OnceInv, TypeOK
  <1>2. DOMAIN slots \subseteq Slots
    BY <1>1 DEF Slots, MaxSlots
  <1>3. pos \in Nat /\ pos <= Len(slots) + 2
    BY <1>1 DEF OnceInv, TypeOK
  <1>4. Shift \in {0, 2} /\ (has_dots <=> Shift = 0)
    BY DEF Shift
  <1>5. Shift = 0 => /\ Len(slots) >= 2
                     /\ ~IsName(slots[1]) /\ ~IsName(slots[2])
    BY <1>4 DEF OnceInv, DotsFirst
  <1> QED
    BY <1>1, <1>2, <1>3, <1>4, <1>5 DEF OnceInv, TypeOK

\* The reader leaves the directory alone, and the invariant holds after its step if
\* this does.
ReaderInv ==
    /\ pos \in 0 .. Len(slots) + 2
    /\ pc \in {"user", "call"} /\ room \in 0 .. MaxBuf
    /\ {fresh, got, ended, failed} \subseteq BOOLEAN
    /\ emitted \in [Slots -> 0 .. 3]
    /\ refused \subseteq { k \in DOMAIN slots : IsName(slots[k]) }
    /\ \A k \in Slots : emitted[k] = 0 \/ (emitted[k] = 1 /\ Passed(k))
    /\ dots = IF pos < 2 THEN pos ELSE 2
    /\ \A k \in stayed \ refused : Passed(k) => emitted[k] = 1
    /\ pc = "call" => ~ended /\ (room = 0 => got)
    /\ ended /\ ~failed => pos >= 2 /\ \A k \in stayed : Passed(k)

LEMMA ReaderKeeps ==
    ASSUME OnceInv, UNCHANGED <<has_dots, slots, stayed>>, ReaderInv'
    PROVE  OnceInv'
  <1>1. DotsFirst' /\ slots' \in Seq(Words)
    BY DEF OnceInv, DotsFirst, IsName
  <1>2. dots' \in 0 .. 3
    BY Places DEF ReaderInv
  <1>3. TypeOK'
    BY <1>2 DEF OnceInv, TypeOK, ReaderInv, IsName
  <1> QED
    BY <1>1, <1>3 DEF OnceInv, ReaderInv

LEMMA ReaderHas == ASSUME OnceInv PROVE ReaderInv
  BY DEF OnceInv, TypeOK, ReaderInv

\* A call that comes back without moving the position.
LEMMA ReturnKeeps ==
    ASSUME OnceInv, Return, pc = "call",
           UNCHANGED <<pos, emitted, dots, stayed, refused>>,
           \/ got
           \/ failed' = TRUE
           \/ pos >= 2 /\ AtEnd,
           failed' \in BOOLEAN
    PROVE  OnceInv'
  <1> USE ListingAssumption
  <1>1. ReaderInv
    BY ReaderHas
  <1>2. \A k \in Slots : Passed(k)' <=> Passed(k)
    BY DEF Passed, Shift, Return
  <1>3. ended' /\ ~failed' => pos' >= 2 /\ \A k \in stayed' : Passed(k)'
    BY <1>2, Places DEF Return, AtEnd, Passed
  <1>4. /\ pos' \in 0 .. Len(slots') + 2
        /\ refused' \subseteq { k \in DOMAIN slots' : IsName(slots'[k]) }
        /\ emitted' \in [Slots -> 0 .. 3]
        /\ dots' = IF pos' < 2 THEN pos' ELSE 2
    BY <1>1 DEF ReaderInv, Return, IsName
  <1>5. /\ pc' = "user" /\ room' \in 0 .. MaxBuf
    BY Places DEF Return
  <1>8. {fresh', got', ended', failed'} \subseteq BOOLEAN
    <2>1. ended' \in BOOLEAN
      BY DEF Return
    <2> QED
      BY <2>1 DEF Return
  <1>6. /\ \A k \in Slots : emitted'[k] = 0 \/ (emitted'[k] = 1 /\ Passed(k)')
        /\ \A k \in stayed' \ refused' : Passed(k)' => emitted'[k] = 1
    BY <1>1, <1>2, Places DEF ReaderInv
  <1>7. ReaderInv'
    BY <1>3, <1>4, <1>5, <1>6, <1>8 DEF ReaderInv
  <1> QED
    BY <1>7, ReaderKeeps DEF Return

LEMMA GetdentsKeeps ==
    ASSUME OnceInv, NEW n \in 1 .. MaxBuf, Getdents(n)
    PROVE  OnceInv'
  <1> USE ListingAssumption
  <1>1. ReaderInv
    BY ReaderHas
  <1>2. \A k \in Slots : Passed(k)' <=> Passed(k)
    BY DEF Passed, Shift, Getdents
  <1>3. ended' /\ ~failed' => pos' >= 2 /\ \A k \in stayed' : Passed(k)'
    <2>1. ~ended /\ UNCHANGED <<pos, stayed>> /\ (ended' => AtEnd)
      BY DEF Getdents, history
    <2>2. AtEnd => pos >= 2 /\ \A k \in stayed : Passed(k)
      <3>1. AtEnd => pos >= Len(slots) + Shift
        BY DEF AtEnd
      <3>2. AtEnd => pos >= 2 /\ \A k \in 1 .. Len(slots) : k <= pos - Shift
        BY <3>1, Places
      <3> QED
        BY <3>2, Places DEF Passed
    <2> QED
      BY <1>2, <2>1, <2>2, Places
  <1>4. /\ pc' \in {"user", "call"} /\ room' \in 0 .. MaxBuf
        /\ pc' = "call" => ~ended' /\ room' # 0
    BY Places DEF Getdents, OnceInv, TypeOK
  <1>5. /\ pos' \in 0 .. Len(slots') + 2
        /\ refused' \subseteq { k \in DOMAIN slots' : IsName(slots'[k]) }
        /\ emitted' \in [Slots -> 0 .. 3]
        /\ dots' = IF pos' < 2 THEN pos' ELSE 2
        /\ {fresh', got', ended', failed'} \subseteq BOOLEAN
    BY <1>1 DEF ReaderInv, Getdents, history, IsName
  <1>6. /\ \A k \in Slots : emitted'[k] = 0 \/ (emitted'[k] = 1 /\ Passed(k)')
        /\ \A k \in stayed' \ refused' : Passed(k)' => emitted'[k] = 1
    BY <1>1, <1>2, Places DEF ReaderInv, Getdents, history
  <1>7. ReaderInv'
    BY <1>3, <1>4, <1>5, <1>6 DEF ReaderInv
  <1> QED
    BY <1>7, ReaderKeeps DEF Getdents, history

LEMMA EmitDotKeeps == ASSUME OnceInv, EmitDot PROVE OnceInv'
  <1> USE ListingAssumption
  <1>1. ReaderInv
    BY ReaderHas
  <1>2. /\ pc = "call" /\ pos < 2 /\ pos' = pos + 1
        /\ dots' = dots + 1 /\ ~ended /\ ~ended'
        /\ room > 0 /\ room' = room - 1 /\ got' = TRUE
    BY DEF EmitDot, Emits, OnceInv
  <1>3. /\ UNCHANGED <<has_dots, slots, pc, fresh, ended>>
        /\ UNCHANGED <<emitted, stayed, refused, failed>>
    BY DEF EmitDot
  <1>4. \A k \in Slots : (Passed(k) => Passed(k)') /\ (Passed(k)' /\ ~Passed(k) => k <= pos + 1 - Shift)
    BY <1>2, <1>3, Places DEF Passed, Shift, Slots
  <1>5. \A k \in stayed : Passed(k)' => Passed(k)
    <2> SUFFICES ASSUME NEW k \in stayed, Passed(k)', ~Passed(k) PROVE FALSE
      OBVIOUS
    <2>1. k \in 1 .. Len(slots) /\ IsName(slots[k])
      BY Places
    <2>2. k <= pos + 1 - Shift
      BY <1>4, <2>1, Places
    <2>3. Shift = 0 /\ k \in {1, 2}
      BY <1>2, <2>1, <2>2, Places
    <2> QED
      BY <2>1, <2>3, Places
  <1>6. /\ \A k \in Slots : emitted'[k] = 0 \/ (emitted'[k] = 1 /\ Passed(k)')
        /\ \A k \in stayed' \ refused' : Passed(k)' => emitted'[k] = 1
    BY <1>1, <1>3, <1>4, <1>5 DEF ReaderInv
  <1>7. /\ pos' \in 0 .. Len(slots') + 2
        /\ room' \in 0 .. MaxBuf
        /\ dots' = IF pos' < 2 THEN pos' ELSE 2
    BY <1>1, <1>2, <1>3, Places DEF ReaderInv
  <1>8. ReaderInv'
    BY <1>1, <1>2, <1>3, <1>6, <1>7 DEF ReaderInv, IsName
  <1> QED
    BY <1>3, <1>8, ReaderKeeps

LEMMA RefuseDotKeeps == ASSUME OnceInv, RefuseDot PROVE OnceInv'
  <1>1. pc = "call" /\ got
    BY DEF RefuseDot, OnceInv
  <1>2. Return /\ UNCHANGED <<pos, emitted, dots, stayed, refused>> /\ failed' = failed
    BY DEF RefuseDot, history
  <1>3. failed' \in BOOLEAN
    BY <1>2 DEF OnceInv, TypeOK
  <1> QED
    BY <1>1, <1>2, <1>3, ReturnKeeps

LEMMA FinishKeeps == ASSUME OnceInv, Finish PROVE OnceInv'
  <1>1. pc = "call" /\ pos >= 2 /\ AtEnd
    BY DEF Finish, Scanning
  <1>2. Return /\ UNCHANGED <<pos, emitted, dots, stayed, refused>> /\ failed' = failed
    BY DEF Finish, history
  <1>3. failed' \in BOOLEAN
    BY <1>2 DEF OnceInv, TypeOK
  <1> QED
    BY <1>1, <1>2, <1>3, ReturnKeeps

LEMMA BlockFailsKeeps == ASSUME OnceInv, BlockFails PROVE OnceInv'
  <1>1. pc = "call" /\ failed' = TRUE
    BY DEF BlockFails, Scanning
  <1>2. Return /\ UNCHANGED <<pos, emitted, dots, stayed, refused>>
    BY DEF BlockFails
  <1> QED
    BY <1>1, <1>2, ReturnKeeps

\* The slot at the position, and what the position passes in a step over it.
LEMMA PassFacts ==
    ASSUME OnceInv, Pass, UNCHANGED has_dots
    PROVE  /\ pc = "call" /\ pos >= 2 /\ pos' = pos + 1 /\ ~ended
           /\ pos' \in 0 .. Len(slots) + 2
           /\ Here \in DOMAIN slots /\ Here \in Slots /\ ~Passed(Here)
           /\ \A k \in Slots : Passed(k)' <=> Passed(k) \/ k = Here
  <1>1. /\ pc = "call" /\ pos >= 2 /\ pos' = pos + 1
        /\ pos < Len(slots) + Shift
    BY Places DEF Pass, Scanning, AtEnd
  <1>2. ~ended
    BY <1>1 DEF OnceInv
  <1>3. Here = pos - Shift + 1 /\ Here \in DOMAIN slots
    BY <1>1, Places DEF Here
  <1>4. ~Passed(Here)
    BY <1>3, Places DEF Passed
  <1>5. \A k \in Slots : Passed(k)' <=> Passed(k) \/ k = Here
    <2>1. Slots \subseteq Int
      BY ListingAssumption DEF Slots, MaxSlots
    <2>2. Shift' = Shift
      BY DEF Shift
    <2> QED
      BY <1>1, <1>3, <2>1, <2>2, Places DEF Passed
  <1> QED
    BY <1>1, <1>2, <1>3, <1>4, <1>5, Places

LEMMA SkipKeeps == ASSUME OnceInv, Skip PROVE OnceInv'
  <1>1. /\ UNCHANGED <<has_dots, slots, pc, room, got, ended>>
        /\ UNCHANGED <<emitted, dots, stayed, refused, failed>>
        /\ fresh' = FALSE /\ Pass /\ ~IsName(slots[Here])
    BY DEF Skip, history
  <1>2. ReaderInv
    BY ReaderHas
  <1>3. Here \notin stayed
    BY <1>1, Places
  <1>4. /\ pos' \in 0 .. Len(slots') + 2
        /\ dots' = IF pos' < 2 THEN pos' ELSE 2
    BY <1>1, <1>2, PassFacts, Places DEF ReaderInv
  <1>5. /\ \A k \in Slots : emitted'[k] = 0 \/ (emitted'[k] = 1 /\ Passed(k)')
        /\ \A k \in stayed' \ refused' : Passed(k)' => emitted'[k] = 1
    BY <1>1, <1>2, <1>3, PassFacts, Places DEF ReaderInv
  <1>6. ReaderInv'
    BY <1>1, <1>2, <1>4, <1>5, PassFacts DEF ReaderInv, IsName
  <1> QED
    BY <1>1, <1>6, ReaderKeeps

LEMMA EmitKeeps == ASSUME OnceInv, Emit PROVE OnceInv'
  <1>1. /\ UNCHANGED <<has_dots, slots, pc, ended, dots, stayed, refused, failed>>
        /\ room > 0 /\ room' = room - 1 /\ got' = TRUE
        /\ emitted' = [emitted EXCEPT ![Here] = @ + 1]
        /\ fresh' = FALSE /\ Pass /\ IsName(slots[Here])
    BY DEF Emit, Emits
  <1>2. ReaderInv
    BY ReaderHas
  <1>3. /\ emitted' \in [Slots -> 0 .. 3] /\ emitted'[Here] = 1
        /\ \A k \in Slots \ {Here} : emitted'[k] = emitted[k]
    <2>1. emitted[Here] = 0 /\ Here \in Slots /\ emitted \in [Slots -> 0 .. 3]
      BY <1>1, <1>2, PassFacts DEF ReaderInv
    <2> QED
      BY <1>1, <2>1
  <1>4. /\ pos' \in 0 .. Len(slots') + 2 /\ room' \in 0 .. MaxBuf
        /\ dots' = IF pos' < 2 THEN pos' ELSE 2
    BY <1>1, <1>2, PassFacts, Places DEF ReaderInv
  <1>5. /\ \A k \in Slots : emitted'[k] = 0 \/ (emitted'[k] = 1 /\ Passed(k)')
        /\ \A k \in stayed' \ refused' : Passed(k)' => emitted'[k] = 1
    BY <1>1, <1>2, <1>3, PassFacts, Places DEF ReaderInv
  <1>6. ReaderInv'
    BY <1>1, <1>2, <1>3, <1>4, <1>5, PassFacts DEF ReaderInv, IsName
  <1> QED
    BY <1>1, <1>6, ReaderKeeps

LEMMA RefuseKeeps == ASSUME OnceInv, Refuse PROVE OnceInv'
  <1>1. /\ UNCHANGED <<has_dots, slots, emitted, dots, stayed, failed>>
        /\ room = 0 /\ room' = 0 /\ pc' = "user" /\ ended' = ~got /\ got' = FALSE
        /\ refused' = refused \cup {Here}
        /\ fresh' = TRUE /\ Pass /\ IsName(slots[Here])
    BY DEF Refuse, Return
  <1>2. ReaderInv
    BY ReaderHas
  <1>3. ~ended'
    BY <1>1, PassFacts DEF OnceInv
  <1>4. /\ pos' \in 0 .. Len(slots') + 2 /\ room' \in 0 .. MaxBuf
        /\ dots' = IF pos' < 2 THEN pos' ELSE 2
    BY <1>1, <1>2, PassFacts, Places DEF ReaderInv
  <1>5. /\ \A k \in Slots : emitted'[k] = 0 \/ (emitted'[k] = 1 /\ Passed(k)')
        /\ \A k \in stayed' \ refused' : Passed(k)' => emitted'[k] = 1
    BY <1>1, <1>2, PassFacts, Places DEF ReaderInv
  <1>6. refused' \subseteq { k \in DOMAIN slots' : IsName(slots'[k]) }
    BY <1>1, <1>2, PassFacts DEF ReaderInv, IsName
  <1>7. {fresh', got', ended', failed'} \subseteq BOOLEAN
    BY <1>1, <1>2 DEF ReaderInv
  <1>8. ReaderInv'
    BY <1>1, <1>2, <1>3, <1>4, <1>5, <1>6, <1>7 DEF ReaderInv
  <1> QED
    BY <1>1, <1>8, ReaderKeeps

-----------------------------------------------------------------------------
LEMMA OnceNext == OnceInv /\ [Next]_vars => OnceInv'
  <1> SUFFICES ASSUME OnceInv, [Next]_vars PROVE OnceInv'
    OBVIOUS
  <1>1. ASSUME NEW n \in Names, Add(n) PROVE OnceInv'
    BY <1>1, AddKeeps
  <1>2. ASSUME NEW k \in Slots, Remove(k) PROVE OnceInv'
    BY <1>2, RemoveKeeps
  <1>3. ASSUME NEW n \in 1 .. MaxBuf, Getdents(n) PROVE OnceInv'
    BY <1>3, GetdentsKeeps
  <1>4. ASSUME Readdir PROVE OnceInv'
    BY <1>4, EmitDotKeeps, RefuseDotKeeps, FinishKeeps, BlockFailsKeeps,
       SkipKeeps, EmitKeeps, RefuseKeeps
    DEF Readdir
  <1>5. ASSUME UNCHANGED vars PROVE OnceInv'
    BY <1>5
    DEF vars, reader, history, OnceInv, TypeOK, DotsFirst, Passed, Shift, IsName
  <1> QED
    BY <1>1, <1>2, <1>3, <1>4, <1>5 DEF Next, Reading

\* The position of the reader accounts for what it has got, after every readdir, every
\* new name and every removed one.
THEOREM OnceInvCorrect == Spec => []OnceInv
  BY OnceInit, OnceNext, PTL DEF Spec

\* The directory file, the position and the histories keep their types.
THEOREM TypeCorrect == Spec => []TypeOK
  <1>1. OnceInv => TypeOK
    BY DEF OnceInv
  <1> QED
    BY <1>1, OnceInvCorrect, PTL

\* For every directory and buffer and every cut of the listing into calls, no entry is
\* emitted twice; a reader that has got to the end has got the two dots and every entry
\* that was there all the time, but those that dir_emit refused and those behind a
\* block that was not read.
THEOREM OnceEachCorrect == Spec => []OnceEach
  <1>1. OnceInv => OnceEach
    <2> SUFFICES ASSUME OnceInv PROVE OnceEach
      OBVIOUS
    <2>1. \A k \in Slots : emitted[k] <= 1
      BY DEF OnceInv
    <2>2. dots <= 2
      BY Places DEF OnceInv
    <2>3. ended /\ ~failed => dots = 2 /\ \A k \in stayed \ refused : emitted[k] = 1
      BY Places DEF OnceInv
    <2> QED
      BY <2>1, <2>2, <2>3 DEF OnceEach
  <1> QED
    BY <1>1, OnceInvCorrect, PTL
=============================================================================
