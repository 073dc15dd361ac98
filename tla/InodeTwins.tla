----------------------------- MODULE InodeTwins -----------------------------
(***************************************************************************)
(* The three copies of the attributes of one file: the kernel's struct     *)
(* inode, the C++ Inode around it, and the inode on the disk; and what     *)
(* copies them into each other: read and write with the inode's lock held, *)
(* the kernel's writeback without it, setattr on the kernel's copy alone,  *)
(* and the loading and the eviction of the pair.                           *)
(*                                                                         *)
(* "mode" stands for the attributes that are assembled bit by bit (type,   *)
(* permissions); uid and gid go the same way.  "size" is a number of       *)
(* blocks.  A copy is three steps, clear the bits, set them, copy the      *)
(* size, since the writeback may read or write between any two of them.    *)
(* Counts of links are in Directory; times are left out.                   *)
(***************************************************************************)
EXTENDS Integers

CONSTANTS Procs,    \* processes with the file open
          NoProc,   \* nobody has the inode's lock
          Modes,    \* what chmod may set
          Partial,  \* the bits while they are being assembled
          MaxSize,  \* bound: the largest file, in blocks
          Faults    \* TRUE: an access of the disk may fail

ASSUME SizeAssumption == MaxSize \in Nat
ASSUME NameAssumption == NoProc \notin Procs /\ Partial \notin Modes
ASSUME FaultAssumption == Faults \in BOOLEAN

Attributes == [mode : Modes \cup {Partial}, size : 0 .. MaxSize]

VARIABLES inode,    \* the kernel's inode
          si,       \* the C++ Inode
          dinode,   \* the inode on the disk
          loaded,   \* the pair is in memory
          iupd,     \* IUPD is set in i_flag
          dirty,    \* the kernel's I_DIRTY
          lock,     \* inode_lock: its holder
          pc,       \* per process: where it is
          wb,       \* where the writeback is
          want,     \* history: the attributes the calls have asked for
          sound,    \* history: no copy has been overwritten by an older one
          failed    \* history: the last write of the inode to the disk failed

history == <<want, sound, failed>>
vars == <<inode, si, dinode, loaded, iupd, dirty, lock, pc, wb, history>>

\* In the order of the calls: ReadI or WriteI, conform_s2v, conform_v2s, unlock.
CallPcs  == {"read", "write", "s2v_clear", "s2v_mode", "s2v_size",
             "v2s_clear", "v2s_mode", "v2s_size", "mark"}
\* The calls that have not yet copied the C++ Inode to the kernel's.
Ahead    == {"read", "write", "s2v_clear", "s2v_mode", "s2v_size"}
WbPcs    == {"clear", "mode", "size", "update"}

Goto(p, l) == pc' = [pc EXCEPT ![p] = l]

Init ==
    /\ dinode \in [mode : Modes, size : {0}]
    /\ inode = dinode
    /\ si = dinode
    /\ loaded = FALSE
    /\ iupd = FALSE
    /\ dirty = FALSE
    /\ lock = NoProc
    /\ pc = [p \in Procs |-> "idle"]
    /\ wb = "idle"
    /\ want = dinode
    /\ sound = TRUE
    /\ failed = FALSE

\* Nobody uses the pair.
Unused == loaded /\ wb = "idle" /\ \A p \in Procs : pc[p] = "idle"

-----------------------------------------------------------------------------
(* Loading (secondfs_iget) and eviction (secondfs_evict_inode)             *)

Load ==
    /\ ~loaded
    /\ loaded' = TRUE
    /\ si' = dinode
    /\ inode' = dinode
    /\ iupd' = FALSE
    /\ UNCHANGED <<dinode, dirty, lock, pc, wb, history>>

\* External: the kernel evicts an inode that still has links when it is clean and
\* not under writeback.  IUpdate writes only when i_flag says so.
Evict ==
    /\ Unused /\ ~dirty
    /\ si' = inode
    /\ dinode' = IF iupd THEN inode ELSE dinode
    /\ loaded' = FALSE
    /\ failed' = FALSE
    /\ UNCHANGED <<inode, iupd, dirty, lock, pc, wb, want, sound>>

\* The inode's block cannot be read or written: the pair goes all the same.
EvictFails ==
    /\ Faults /\ Unused /\ ~dirty /\ iupd
    /\ si' = inode
    /\ loaded' = FALSE
    /\ sound' = (sound /\ dinode = inode)
    /\ failed' = FALSE
    /\ UNCHANGED <<inode, dinode, iupd, dirty, lock, pc, wb, want>>

-----------------------------------------------------------------------------
(* secondfs_file_read and secondfs_file_write                              *)

\* Mutant: the call does not take the inode's lock.
EnterUnlocked(p, call) ==
    /\ loaded
    /\ pc[p] = "idle"
    /\ Goto(p, call)
    /\ sound' = (sound /\ si.size = inode.size)
    /\ iupd' = (iupd \/ call = "write")
    /\ UNCHANGED <<inode, si, dinode, loaded, dirty, lock, wb, want, failed>>

\* The C++ size is read from here on: it must be what truncate has set.  WriteI sets
\* IUPD when it begins.
Enter(p, call) ==
    /\ loaded
    /\ pc[p] = "idle"
    /\ lock = NoProc
    /\ lock' = p
    /\ Goto(p, call)
    /\ sound' = (sound /\ si.size = inode.size)
    /\ iupd' = (iupd \/ call = "write")
    /\ UNCHANGED <<inode, si, dinode, loaded, dirty, wb, want, failed>>

\* ReadI.  (It sets IACC, which only makes IUpdate run; every read of a file goes on
\* to set IUPD.)
Read(p) ==
    /\ pc[p] = "read"
    /\ Goto(p, "s2v_clear")
    /\ UNCHANGED <<inode, si, dinode, loaded, iupd, dirty, lock, wb, history>>

\* WriteI up to the end of one block, which is block n of the file.
WriteBlock(p, n) ==
    /\ pc[p] = "write"
    /\ iupd' = TRUE
    /\ si' = [si EXCEPT !.size = IF @ < n THEN n ELSE @]
    /\ want' = [want EXCEPT !.size = IF @ < n THEN n ELSE @]
    /\ UNCHANGED <<inode, dinode, loaded, dirty, lock, pc, wb, sound, failed>>

\* Mutant: file_write does not copy the Inode to the kernel's.
WriteEndNoConform(p) ==
    /\ pc[p] = "write"
    /\ Goto(p, "v2s_clear")
    /\ UNCHANGED <<inode, si, dinode, loaded, iupd, dirty, lock, wb, history>>

WriteEnd(p) ==
    /\ pc[p] = "write"
    /\ Goto(p, "s2v_clear")
    /\ UNCHANGED <<inode, si, dinode, loaded, iupd, dirty, lock, wb, history>>

\* conform_s2v.  A mode that only chmod has, or that is half assembled, is lost.
CallToInodeClear(p) ==
    /\ pc[p] = "s2v_clear"
    /\ inode' = [inode EXCEPT !.mode = Partial]
    /\ sound' = (sound /\ inode.mode = si.mode)
    /\ Goto(p, "s2v_mode")
    /\ UNCHANGED <<si, dinode, loaded, iupd, dirty, lock, wb, want, failed>>

CallToInodeMode(p) ==
    /\ pc[p] = "s2v_mode"
    /\ inode' = [inode EXCEPT !.mode = si.mode]
    /\ sound' = (sound /\ si.mode # Partial)
    /\ Goto(p, "s2v_size")
    /\ UNCHANGED <<si, dinode, loaded, iupd, dirty, lock, wb, want, failed>>

\* The last lines of conform_s2v mark the kernel's inode dirty if IUPD is set.
CallToInodeSize(p) ==
    /\ pc[p] = "s2v_size"
    /\ inode' = [inode EXCEPT !.size = si.size]
    /\ dirty' = (dirty \/ iupd)
    /\ Goto(p, "v2s_clear")
    /\ UNCHANGED <<si, dinode, loaded, iupd, lock, wb, history>>

\* file_accessed or file_update_time (external) has set a time, or has found that
\* it need not (it fails only where a file system has an update_time of its own);
\* then conform_v2s.
CallToSiClear(p) ==
    /\ pc[p] = "v2s_clear"
    /\ \/ UNCHANGED <<dirty, iupd>>
       \/ dirty' = TRUE /\ iupd' = TRUE
    /\ si' = [si EXCEPT !.mode = Partial]
    /\ Goto(p, "v2s_mode")
    /\ UNCHANGED <<inode, dinode, loaded, lock, wb, history>>

CallToSiMode(p) ==
    /\ pc[p] = "v2s_mode"
    /\ si' = [si EXCEPT !.mode = inode.mode]
    /\ Goto(p, "v2s_size")
    /\ UNCHANGED <<inode, dinode, loaded, iupd, dirty, lock, wb, history>>

CallToSiSize(p) ==
    /\ pc[p] = "v2s_size"
    /\ si' = [si EXCEPT !.size = inode.size]
    /\ Goto(p, "mark")
    /\ UNCHANGED <<inode, dinode, loaded, iupd, dirty, lock, wb, history>>

\* Mutant: the call returns without marking the inode dirty.
LeaveUnmarked(p) ==
    /\ pc[p] = "mark"
    /\ lock' = NoProc
    /\ Goto(p, "idle")
    /\ UNCHANGED <<inode, si, dinode, loaded, iupd, dirty, wb, history>>

\* mark_inode_dirty_sync, which calls secondfs_dirty_inode, and the unlock.
Leave(p) ==
    /\ pc[p] = "mark"
    /\ dirty' = TRUE
    /\ iupd' = TRUE
    /\ lock' = NoProc
    /\ Goto(p, "idle")
    /\ UNCHANGED <<inode, si, dinode, loaded, wb, history>>

-----------------------------------------------------------------------------
(* chmod, truncate: no setattr is installed, so the kernel's simple_setattr *)
(* changes its own inode, with the lock held (external).                    *)

SetAttr(p, a) ==
    /\ loaded
    /\ pc[p] = "idle"
    /\ lock = NoProc
    /\ inode' = a
    /\ dirty' = TRUE
    /\ iupd' = TRUE
    /\ UNCHANGED <<si, dinode, loaded, lock, pc, wb, sound, failed>>

Chmod(p, m) ==
    /\ SetAttr(p, [inode EXCEPT !.mode = m])
    /\ want' = [want EXCEPT !.mode = m]

Truncate(p, n) ==
    /\ SetAttr(p, [inode EXCEPT !.size = n])
    /\ want' = [want EXCEPT !.size = n]

-----------------------------------------------------------------------------
(* The kernel's writeback: it takes the mark off (external) and calls       *)
(* secondfs_write_inode, without the inode's lock.                          *)

WbBegin ==
    /\ loaded /\ dirty /\ wb = "idle"
    /\ dirty' = FALSE
    /\ iupd' = TRUE
    /\ wb' = "clear"
    /\ UNCHANGED <<inode, si, dinode, loaded, lock, pc, history>>

WbToSiClear ==
    /\ wb = "clear"
    /\ si' = [si EXCEPT !.mode = Partial]
    /\ wb' = "mode"
    /\ UNCHANGED <<inode, dinode, loaded, iupd, dirty, lock, pc, history>>

WbToSiMode ==
    /\ wb = "mode"
    /\ si' = [si EXCEPT !.mode = inode.mode]
    /\ wb' = "size"
    /\ UNCHANGED <<inode, dinode, loaded, iupd, dirty, lock, pc, history>>

\* A size that only WriteI has is lost.
WbToSiSize ==
    /\ wb = "size"
    /\ si' = [si EXCEPT !.size = inode.size]
    /\ sound' = (sound /\ (si.size = inode.size \/ \A p \in Procs : pc[p] \notin Ahead))
    /\ wb' = "update"
    /\ UNCHANGED <<inode, dinode, loaded, iupd, dirty, lock, pc, want, failed>>

\* Mutant: IUpdate does not fill in d_size.
WbUpdateNoSize ==
    /\ wb = "update"
    /\ dinode' = [si EXCEPT !.size = dinode.size]
    /\ failed' = FALSE
    /\ wb' = "idle"
    /\ UNCHANGED <<inode, si, loaded, iupd, dirty, lock, pc, want, sound>>

\* IUpdate: the C++ Inode into its block on the disk.
WbUpdate ==
    /\ wb = "update"
    /\ dinode' = si
    /\ failed' = FALSE
    /\ wb' = "idle"
    /\ UNCHANGED <<inode, si, loaded, iupd, dirty, lock, pc, want, sound>>

\* Bread or Bwrite fails; the mark is off, and nobody puts it on again.
WbFails ==
    /\ Faults /\ wb = "update"
    /\ failed' = TRUE
    /\ wb' = "idle"
    /\ UNCHANGED <<inode, si, dinode, loaded, iupd, dirty, lock, pc, want, sound>>

Writeback ==
    \/ WbBegin \/ WbToSiClear \/ WbToSiMode \/ WbToSiSize \/ WbUpdate \/ WbFails
Call(p) ==
    \/ Read(p) \/ (\E n \in 1 .. MaxSize : WriteBlock(p, n)) \/ WriteEnd(p)
    \/ CallToInodeClear(p) \/ CallToInodeMode(p) \/ CallToInodeSize(p)
    \/ CallToSiClear(p) \/ CallToSiMode(p) \/ CallToSiSize(p) \/ Leave(p)

Next ==
    \/ Load \/ Evict \/ EvictFails \/ Writeback
    \/ \E p \in Procs :
          \/ Enter(p, "read") \/ Enter(p, "write") \/ Call(p)
          \/ \E m \in Modes : Chmod(p, m)
          \/ \E n \in 0 .. MaxSize : Truncate(p, n)

Spec == Init /\ [][Next]_vars

\* The flusher thread comes round to a dirty inode, and goes on once it has begun.
FairSpec == Spec /\ WF_vars(Writeback)
-----------------------------------------------------------------------------
(* Correctness                                                              *)

\* Type invariant of the three copies and of who is where: a call is inside the
\* inode's lock, and the pair does not go while it is in use.
TypeOK ==
    /\ {inode, si, dinode, want} \subseteq Attributes
    /\ {loaded, iupd, dirty, sound, failed} \subseteq BOOLEAN
    /\ lock \in Procs \cup {NoProc}
    /\ pc \in [Procs -> {"idle"} \cup CallPcs]
    /\ wb \in {"idle"} \cup WbPcs
    /\ \A p \in Procs : pc[p] # "idle" <=> lock = p
    /\ lock # NoProc \/ wb # "idle" => loaded

\* The call that has the lock is alone in changing the kernel's inode; what the
\* calls have asked for is there when none is in the middle, in memory and, once the
\* pair is gone, on the disk: unless one of the copies that "sound" names has lost it
\* (fileops.c:17-28 and 48-68, inode.c:9-210, super.c:99-102), no step has.
KeepsAttributes ==
    sound =>
        /\ loaded /\ lock = NoProc => inode = want
        /\ ~loaded => dinode = want

\* An inode that is clean and that nobody uses is the same in its copies: a change
\* made while write_inode copies (inode.c:231-242) has left it marked, even one that
\* an older copy has overwritten.
NothingUnsaved ==
    loaded /\ lock = NoProc /\ ~dirty /\ wb = "idle" =>
        /\ si = inode
        /\ ~failed => dinode = inode

\* When the attributes stay as they are, the disk has them in the end, however many
\* reads and writebacks overlap before.
CatchesUp ==
    \A a \in Attributes :
        <>[](loaded /\ lock = NoProc /\ inode = a) => <>[](failed \/ dinode = a)
=============================================================================
