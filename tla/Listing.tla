------------------------------ MODULE Listing ------------------------------
(***************************************************************************)
(* The listing of a directory: a reader calls getdents with a buffer of    *)
(* its own size until it gets nothing, secondfs_readdir goes on where the  *)
(* last call stopped, and FileManager::DELocate (LIST) hands the entries   *)
(* to dir_emit, which refuses one when the buffer is full.  Between two    *)
(* calls other processes add and remove entries; during one the kernel     *)
(* holds the directory's lock.                                             *)
(*                                                                         *)
(* Positions and sizes are numbers of entries (the code has 32 times as    *)
(* many bytes).  The reader does not seek.                                 *)
(***************************************************************************)
EXTENDS Integers, Sequences

CONSTANTS Names,     \* file names
          Free,      \* an entry whose m_ino is 0
          Room,      \* bound: entries of the directory, besides the dots
          PerBlock,  \* entries in a block (16)
          MaxBuf,    \* bound: entries the reader's buffer takes
          Faults     \* TRUE: a block of the directory may be unreadable

ASSUME ListingAssumption ==
    /\ Names \cap {".", "..", Free} = {} /\ Free \notin {".", ".."}
    /\ Room \in Nat /\ PerBlock \in Nat \ {0} /\ MaxBuf \in Nat \ {0}
    /\ Faults \in BOOLEAN

VARIABLES has_dots,  \* s_has_dots: "." and ".." are entries of the directory file
          slots,     \* the directory file
          pos,       \* ctx->pos: "." is at 0, ".." at 1, and the names begin at 2
          pc,        \* the reader: "user", or "call" inside readdir
          room,      \* entries that the buffer still takes
          fresh,     \* no entry of this call's has been read: firstTimeRead
          got,       \* this call has emitted something
          ended,     \* the reader has got nothing from a call
          emitted,   \* history: how often the entry of a slot was emitted
          dots,      \* history: how often a dot was emitted
          stayed,    \* history: slots whose entry is the one the listing began with
          refused,   \* history: slots whose entry dir_emit refused
          failed     \* history: a block was not read

history == <<emitted, dots, stayed, refused, failed>>
reader  == <<pos, pc, room, fresh, got, ended>>
vars    == <<has_dots, slots, reader, history>>

MaxSlots == Room + 2
Slots    == 1 .. MaxSlots

IsName(e) == e \in Names

Init ==
    /\ has_dots \in BOOLEAN
    /\ \E n \in 0 .. Room : \E t \in [1 .. n -> Names \cup {Free}] :
          /\ \A j, k \in 1 .. n : t[j] = t[k] /\ IsName(t[j]) => j = k
          /\ slots = (IF has_dots THEN <<".", "..">> ELSE <<>>) \o t
    /\ pos = 0 /\ pc = "user" /\ room = 0
    /\ fresh = TRUE /\ got = FALSE /\ ended = FALSE
    /\ emitted = [k \in Slots |-> 0]
    /\ dots = 0
    /\ stayed = { k \in DOMAIN slots : IsName(slots[k]) }
    /\ refused = {} /\ failed = FALSE

-----------------------------------------------------------------------------
(* Other processes, between two calls                                       *)

\* The entry of a slot is another one from here on.
Replaced(k) ==
    /\ emitted' = [emitted EXCEPT ![k] = 0]
    /\ stayed' = stayed \ {k}
    /\ refused' = refused \ {k}
    /\ UNCHANGED <<has_dots, reader, dots, failed>>

Vacant == { k \in DOMAIN slots : slots[k] = Free }

\* The first free entry, or one more at the end.
Add(n) ==
    /\ pc = "user"
    /\ \A k \in DOMAIN slots : slots[k] # n
    /\ \/ \E k \in Vacant :
             /\ \A j \in Vacant : k <= j
             /\ slots' = [slots EXCEPT ![k] = n]
             /\ Replaced(k)
       \/ /\ Vacant = {}
          /\ Len(slots) < Room + (IF has_dots THEN 2 ELSE 0)
          /\ slots' = Append(slots, n)
          /\ Replaced(Len(slots) + 1)

Remove(k) ==
    /\ pc = "user"
    /\ k \in DOMAIN slots /\ IsName(slots[k])
    /\ slots' = [slots EXCEPT ![k] = Free]
    /\ Replaced(k)

-----------------------------------------------------------------------------
(* secondfs_readdir                                                         *)

\* In a volume without entries for the dots, positions are 2 ahead of the file.
Shift == IF has_dots THEN 0 ELSE 2

AtEnd == pos >= Len(slots) + Shift

\* The slot at the position.
Here == pos - Shift + 1

\* getdents comes back; the kernel answers 0 when nothing was emitted.
Return ==
    /\ pc' = "user"
    /\ ended' = ~got
    /\ room' = 0 /\ got' = FALSE /\ fresh' = TRUE
    /\ UNCHANGED <<has_dots, slots>>

Getdents(n) ==
    /\ pc = "user" /\ ~ended
    /\ IF AtEnd
       THEN ended' = TRUE /\ UNCHANGED <<pc, room>>
       ELSE pc' = "call" /\ room' = n /\ UNCHANGED ended
    /\ UNCHANGED <<has_dots, slots, pos, fresh, got, history>>

\* Mutant: the answer of dir_emit is not looked at.
EmitsBlind == room' = room - 1 /\ got' = TRUE

\* dir_emit takes the entry.
Emits == room > 0 /\ room' = room - 1 /\ got' = TRUE

\* Mutant: the position stays at the dot.
EmitDotStays ==
    /\ pc = "call" /\ pos < 2
    /\ Emits
    /\ dots' = IF dots < 3 THEN dots + 1 ELSE dots
    /\ UNCHANGED <<has_dots, slots, pos, pc, fresh, ended, emitted, stayed, refused, failed>>

EmitDot ==
    /\ pc = "call" /\ pos < 2
    /\ Emits
    /\ pos' = pos + 1
    /\ dots' = dots + 1
    /\ UNCHANGED <<has_dots, slots, pc, fresh, ended, emitted, stayed, refused, failed>>

\* The position is not moved: the next call emits the dot.
RefuseDot ==
    /\ pc = "call" /\ pos < 2
    /\ room = 0
    /\ Return
    /\ UNCHANGED <<pos, history>>

-----------------------------------------------------------------------------
(* DELocate, LIST                                                           *)

Scanning == pc = "call" /\ pos >= 2

\* m_Count is 0.
Finish ==
    /\ Scanning /\ AtEnd
    /\ Return
    /\ UNCHANGED <<pos, history>>

\* Bread fails at the beginning of the call or of a block; readdir does not look at
\* what DELocate returns.
BlockFails ==
    /\ Faults
    /\ Scanning /\ ~AtEnd
    /\ fresh \/ (Here - 1) % PerBlock = 0
    /\ Return
    /\ failed' = TRUE
    /\ UNCHANGED <<pos, emitted, dots, stayed, refused>>

\* The position moves as soon as the entry has been copied.
Pass == Scanning /\ ~AtEnd /\ pos' = pos + 1

Skip ==
    /\ Pass
    /\ ~IsName(slots[Here])
    /\ fresh' = FALSE
    /\ UNCHANGED <<has_dots, slots, pc, room, got, ended, history>>

\* Mutant: the position is set without the two dots that the file does not have.
EmitUnshifted ==
    /\ Scanning /\ ~AtEnd
    /\ pos' = Here
    /\ IsName(slots[Here])
    /\ Emits
    /\ fresh' = FALSE
    /\ emitted' = [emitted EXCEPT ![Here] = IF @ < 3 THEN @ + 1 ELSE @]
    /\ UNCHANGED <<has_dots, slots, pc, ended, dots, stayed, refused, failed>>

Emit ==
    /\ Pass
    /\ IsName(slots[Here])
    /\ Emits
    /\ fresh' = FALSE
    /\ emitted' = [emitted EXCEPT ![Here] = @ + 1]
    /\ UNCHANGED <<has_dots, slots, pc, ended, dots, stayed, refused, failed>>

\* dir_emit has no room for the entry; the position is behind it all the same.
Refuse ==
    /\ Pass
    /\ IsName(slots[Here])
    /\ room = 0
    /\ Return
    /\ refused' = refused \cup {Here}
    /\ UNCHANGED <<emitted, dots, stayed, failed>>

-----------------------------------------------------------------------------
Readdir == EmitDot \/ RefuseDot \/ Finish \/ BlockFails \/ Skip \/ Emit \/ Refuse

Reading == Readdir \/ \E n \in 1 .. MaxBuf : Getdents(n)

Next == Reading \/ (\E n \in Names : Add(n)) \/ (\E k \in Slots : Remove(k))

Spec == Init /\ [][Next]_vars

\* The reader is a program that goes on reading until it gets nothing.
FairSpec == Spec /\ WF_vars(Reading)
-----------------------------------------------------------------------------
(* Correctness                                                              *)

\* Type invariant of the directory file, the reader's position and the histories.
TypeOK ==
    /\ has_dots \in BOOLEAN
    /\ Len(slots) <= MaxSlots
    /\ \A k \in DOMAIN slots : slots[k] \in Names \cup {Free, ".", ".."}
    /\ pos \in 0 .. Len(slots) + 2
    /\ pc \in {"user", "call"}
    /\ room \in 0 .. MaxBuf
    /\ {fresh, got, ended, failed} \subseteq BOOLEAN
    /\ emitted \in [Slots -> 0 .. 3] /\ dots \in 0 .. 3
    /\ stayed \cup refused \subseteq { k \in DOMAIN slots : IsName(slots[k]) }

\* However the listing is cut into calls and whatever is added and removed between
\* them, no entry is emitted twice; and when the reader has got to the end, each entry
\* that was there all the time has been emitted, and the two dots, unless dir_emit
\* refused it once (FileOperations.cc lines 959 and 1010) or a block was not read.
OnceEach ==
    /\ \A k \in Slots : emitted[k] <= 1
    /\ dots <= 2
    /\ ended /\ ~failed =>
          /\ dots = 2
          /\ \A k \in stayed \ refused : emitted[k] = 1

\* The reader gets to the end: entries that are removed and added again in front of
\* its position, in slots it has passed, do not keep it.
ListingEnds == <>ended
=============================================================================
