-------------------------- MODULE InodeTwinsProofs --------------------------
(***************************************************************************)
(* Theorems about InodeTwins, for every number of processes, file size and *)
(* set of modes, with or without failures of the disk.                     *)
(***************************************************************************)
EXTENDS InodeTwins, TLAPS

\* What the calls have asked for, at every step of the call that has the lock: WriteI
\* raises the size of the C++ Inode alone, conform_s2v takes it over, and the mode is
\* away from the kernel's inode while it is assembled there.
AskedFor ==
    /\ ~loaded => dinode = want
    /\ loaded /\ lock = NoProc => inode = want
    /\ \A p \in Procs :
          /\ pc[p] \in Ahead => si.size = want.size
          /\ pc[p] \in {"read", "write", "s2v_clear", "s2v_size"} => inode.mode = want.mode
          /\ pc[p] = "s2v_mode" => si.mode \in {want.mode, Partial}
          /\ pc[p] \in {"v2s_clear", "v2s_mode", "v2s_size", "mark"} => inode = want

\* A pair without IUPD is as it was loaded.
Untouched ==
    /\ wb # "idle" => iupd
    /\ loaded /\ lock = NoProc /\ ~iupd => dinode = inode

KeepInv ==
    /\ TypeOK
    /\ Untouched
    /\ \A p \in Procs : pc[p] = "s2v_mode" => inode.mode = Partial
    /\ sound => AskedFor

\* How far the writeback of an inode that nobody has changed since has come.
SaveInv ==
    /\ TypeOK
    /\ loaded /\ lock = NoProc /\ ~dirty =>
          /\ wb = "idle" => si = inode /\ (~failed => dinode = inode)
          /\ wb = "size" => si.mode = inode.mode
          /\ wb = "update" => si = inode

-----------------------------------------------------------------------------
(* Type correctness.                                                        *)

LEMMA TypeInit == Init => TypeOK
  <1> SUFFICES ASSUME Init PROVE TypeOK
    OBVIOUS
  <1>1. dinode \in Attributes
    BY SizeAssumption DEF Init, Attributes
  <1> QED
    BY <1>1, NameAssumption DEF Init, TypeOK, WbPcs

LEMMA TypeNext == TypeOK /\ [Next]_vars => TypeOK'
  <1> SUFFICES ASSUME TypeOK, [Next]_vars PROVE TypeOK'
    OBVIOUS
  <1> USE SizeAssumption, NameAssumption DEF TypeOK, Attributes, Goto, CallPcs, WbPcs, history
  <1>1. CASE UNCHANGED vars
    BY <1>1 DEF vars
  <1>2. CASE Load
    BY <1>2 DEF Load
  <1>3. CASE Evict
    BY <1>3 DEF Evict, Unused
  <1>4. CASE EvictFails
    BY <1>4 DEF EvictFails, Unused
  <1>5. CASE Writeback
    BY <1>5 DEF Writeback, WbBegin, WbToSiClear, WbToSiMode, WbToSiSize, WbUpdate, WbFails
  <1>6. ASSUME NEW p \in Procs, NEW call \in {"read", "write"}, Enter(p, call) PROVE TypeOK'
    BY <1>6 DEF Enter
  <1>7. ASSUME NEW p \in Procs, Call(p) PROVE TypeOK'
    <2>1. CASE Read(p)
      BY <2>1 DEF Read
    <2>2. ASSUME NEW n \in 1 .. MaxSize, WriteBlock(p, n) PROVE TypeOK'
      BY <2>2 DEF WriteBlock
    <2>3. CASE WriteEnd(p)
      BY <2>3 DEF WriteEnd
    <2>4. CASE CallToInodeClear(p)
      BY <2>4 DEF CallToInodeClear
    <2>5. CASE CallToInodeMode(p)
      BY <2>5 DEF CallToInodeMode
    <2>6. CASE CallToInodeSize(p)
      BY <2>6 DEF CallToInodeSize
    <2>7. CASE CallToSiClear(p)
      BY <2>7 DEF CallToSiClear
    <2>8. CASE CallToSiMode(p)
      BY <2>8 DEF CallToSiMode
    <2>9. CASE CallToSiSize(p)
      BY <2>9 DEF CallToSiSize
    <2>10. CASE Leave(p)
      BY <2>10 DEF Leave
    <2> QED
      BY <1>7, <2>1, <2>2, <2>3, <2>4, <2>5, <2>6, <2>7, <2>8, <2>9, <2>10 DEF Call
  <1>8. ASSUME NEW p \in Procs, NEW m \in Modes, Chmod(p, m) PROVE TypeOK'
    BY <1>8 DEF Chmod, SetAttr
  <1>9. ASSUME NEW p \in Procs, NEW n \in 0 .. MaxSize, Truncate(p, n) PROVE TypeOK'
    BY <1>9 DEF Truncate, SetAttr
  <1> QED
    BY <1>1, <1>2, <1>3, <1>4, <1>5, <1>6, <1>7, <1>8, <1>9 DEF Next

\* The copies keep their types, a call is inside the inode's lock, and the pair does not
\* go while it is in use.
THEOREM TypeCorrect == Spec => []TypeOK
  BY TypeInit, TypeNext, PTL DEF Spec

-----------------------------------------------------------------------------
(* What the calls have asked for.                                           *)

LEMMA KeepInit == Init => KeepInv
  BY TypeInit DEF Init, KeepInv, AskedFor, Untouched, Ahead

LEMMA KeepNext == KeepInv /\ [Next]_vars => KeepInv'
  <1> SUFFICES ASSUME KeepInv, TypeOK', [Next]_vars PROVE KeepInv'
    BY TypeNext DEF KeepInv
  <1> USE SizeAssumption, NameAssumption
      DEF KeepInv, AskedFor, Untouched, TypeOK, Attributes, Goto, CallPcs, Ahead, WbPcs, history
  <1>1. CASE UNCHANGED vars
    BY <1>1 DEF vars
  <1>2. CASE Load
    BY <1>2 DEF Load
  <1>3. CASE Evict
    BY <1>3 DEF Evict, Unused
  <1>4. CASE EvictFails
    BY <1>4 DEF EvictFails, Unused
  <1>5. CASE Writeback
    <2>1. CASE WbBegin
      BY <2>1 DEF WbBegin
    <2>2. CASE WbToSiClear
      BY <2>2 DEF WbToSiClear
    <2>3. CASE WbToSiMode
      BY <2>3 DEF WbToSiMode
    <2>4. CASE WbToSiSize
      BY <2>4 DEF WbToSiSize
    <2>5. CASE WbUpdate
      BY <2>5 DEF WbUpdate
    <2>6. CASE WbFails
      BY <2>6 DEF WbFails
    <2> QED
      BY <1>5, <2>1, <2>2, <2>3, <2>4, <2>5, <2>6 DEF Writeback
  <1>6. ASSUME NEW p \in Procs, NEW call \in {"read", "write"}, Enter(p, call) PROVE KeepInv'
    BY <1>6 DEF Enter
  <1>7. ASSUME NEW p \in Procs, Call(p) PROVE KeepInv'
    <2>1. CASE Read(p)
      BY <2>1 DEF Read
    <2>2. ASSUME NEW n \in 1 .. MaxSize, WriteBlock(p, n) PROVE KeepInv'
      BY <2>2 DEF WriteBlock
    <2>3. CASE WriteEnd(p)
      BY <2>3 DEF WriteEnd
    <2>4. CASE CallToInodeClear(p)
      BY ZenonT(60), <2>4 DEF CallToInodeClear
    <2>5. CASE CallToInodeMode(p)
      BY <2>5 DEF CallToInodeMode
    <2>6. CASE CallToInodeSize(p)
      BY <2>6 DEF CallToInodeSize
    <2>7. CASE CallToSiClear(p)
      BY <2>7 DEF CallToSiClear
    <2>8. CASE CallToSiMode(p)
      BY <2>8 DEF CallToSiMode
    <2>9. CASE CallToSiSize(p)
      BY <2>9 DEF CallToSiSize
    <2>10. CASE Leave(p)
      BY <2>10 DEF Leave
    <2> QED
      BY <1>7, <2>1, <2>2, <2>3, <2>4, <2>5, <2>6, <2>7, <2>8, <2>9, <2>10 DEF Call
  <1>8. ASSUME NEW p \in Procs, NEW m \in Modes, Chmod(p, m) PROVE KeepInv'
    BY <1>8 DEF Chmod, SetAttr
  <1>9. ASSUME NEW p \in Procs, NEW n \in 0 .. MaxSize, Truncate(p, n) PROVE KeepInv'
    BY <1>9 DEF Truncate, SetAttr
  <1> QED
    BY <1>1, <1>2, <1>3, <1>4, <1>5, <1>6, <1>7, <1>8, <1>9 DEF Next

\* No step loses what the calls have asked for but those that "sound" names.
THEOREM KeepsAttributesCorrect == Spec => []KeepsAttributes
  <1>1. KeepInv => KeepsAttributes
    BY DEF KeepInv, AskedFor, KeepsAttributes
  <1> QED
    BY <1>1, KeepInit, KeepNext, PTL DEF Spec

-----------------------------------------------------------------------------
(* The writeback.                                                           *)

LEMMA SaveInit == Init => SaveInv
  BY TypeInit DEF Init, SaveInv

LEMMA SaveNext == SaveInv /\ [Next]_vars => SaveInv'
  <1> SUFFICES ASSUME SaveInv, TypeOK', [Next]_vars PROVE SaveInv'
    BY TypeNext DEF SaveInv
  <1> USE SizeAssumption, NameAssumption
      DEF SaveInv, TypeOK, Attributes, Goto, CallPcs, WbPcs, history
  <1>1. CASE UNCHANGED vars
    BY <1>1 DEF vars
  <1>2. CASE Load
    BY <1>2 DEF Load
  <1>3. CASE Evict
    BY <1>3 DEF Evict, Unused
  <1>4. CASE EvictFails
    BY <1>4 DEF EvictFails, Unused
  <1>5. CASE Writeback
    <2>1. CASE WbBegin
      BY <2>1 DEF WbBegin
    <2>2. CASE WbToSiClear
      BY <2>2 DEF WbToSiClear
    <2>3. CASE WbToSiMode
      BY <2>3 DEF WbToSiMode
    <2>4. CASE WbToSiSize
      BY <2>4 DEF WbToSiSize
    <2>5. CASE WbUpdate
      BY <2>5 DEF WbUpdate
    <2>6. CASE WbFails
      BY <2>6 DEF WbFails
    <2> QED
      BY <1>5, <2>1, <2>2, <2>3, <2>4, <2>5, <2>6 DEF Writeback
  <1>6. ASSUME NEW p \in Procs, NEW call \in {"read", "write"}, Enter(p, call) PROVE SaveInv'
    BY <1>6 DEF Enter
  <1>7. ASSUME NEW p \in Procs, Call(p) PROVE SaveInv'
    <2>1. CASE Read(p)
      BY <2>1 DEF Read
    <2>2. ASSUME NEW n \in 1 .. MaxSize, WriteBlock(p, n) PROVE SaveInv'
      BY <2>2 DEF WriteBlock
    <2>3. CASE WriteEnd(p)
      BY <2>3 DEF WriteEnd
    <2>4. CASE CallToInodeClear(p)
      BY <2>4 DEF CallToInodeClear
    <2>5. CASE CallToInodeMode(p)
      BY <2>5 DEF CallToInodeMode
    <2>6. CASE CallToInodeSize(p)
      BY <2>6 DEF CallToInodeSize
    <2>7. CASE CallToSiClear(p)
      BY <2>7 DEF CallToSiClear
    <2>8. CASE CallToSiMode(p)
      BY <2>8 DEF CallToSiMode
    <2>9. CASE CallToSiSize(p)
      BY <2>9 DEF CallToSiSize
    <2>10. CASE Leave(p)
      BY <2>10 DEF Leave
    <2> QED
      BY <1>7, <2>1, <2>2, <2>3, <2>4, <2>5, <2>6, <2>7, <2>8, <2>9, <2>10 DEF Call
  <1>8. ASSUME NEW p \in Procs, NEW m \in Modes, Chmod(p, m) PROVE SaveInv'
    BY <1>8 DEF Chmod, SetAttr
  <1>9. ASSUME NEW p \in Procs, NEW n \in 0 .. MaxSize, Truncate(p, n) PROVE SaveInv'
    BY <1>9 DEF Truncate, SetAttr
  <1> QED
    BY <1>1, <1>2, <1>3, <1>4, <1>5, <1>6, <1>7, <1>8, <1>9 DEF Next

\* A clean inode that nobody uses is the same in its three copies, however many calls
\* the writeback has overlapped.
THEOREM NothingUnsavedCorrect == Spec => []NothingUnsaved
  <1>1. SaveInv => NothingUnsaved
    BY DEF SaveInv, NothingUnsaved
  <1> QED
    BY <1>1, SaveInit, SaveNext, PTL DEF Spec
=============================================================================
