--------------------------- MODULE BlockAllocator ---------------------------
(***************************************************************************)
(* What FileSystem::Alloc and FileSystem::Free promise to the inode code,  *)
(* with the table, the index blocks and the lock taken away: a set of free *)
(* blocks, a set of blocks that belong to files, and the last answer every *)
(* process got.  FreeList.tla is shown to implement this module.           *)
(***************************************************************************)
CONSTANTS Blocks,    \* the data blocks of the volume
          Procs      \* the processes that allocate and free

VARIABLES free,      \* blocks that may be handed out
          held,      \* blocks handed out and not given back
          ret        \* per process: "pending", or what its last Alloc answered

vars == <<free, held, ret>>

Init ==
    /\ free = Blocks
    /\ held = {}
    /\ ret = [p \in Procs |-> "none"]

Answer(p, a) == ret' = [ret EXCEPT ![p] = a]

Ask(p) ==
    /\ ret[p] # "pending"
    /\ Answer(p, "pending")
    /\ UNCHANGED <<free, held>>

\* Any free block may be the answer: the order of the table is not promised.
Grant(p) ==
    /\ ret[p] = "pending"
    /\ \E b \in free : free' = free \ {b} /\ held' = held \cup {b}
    /\ Answer(p, "block")

\* "No space left" is an answer only when there is none.
Deny(p) ==
    /\ ret[p] = "pending"
    /\ free = {}
    /\ Answer(p, "none")
    /\ UNCHANGED <<free, held>>

Release ==
    /\ \E b \in held : held' = held \ {b} /\ free' = free \cup {b}
    /\ UNCHANGED ret

Next == Release \/ \E p \in Procs : Ask(p) \/ Grant(p) \/ Deny(p)

Spec == Init /\ [][Next]_vars
=============================================================================
