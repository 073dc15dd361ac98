---------------------------- MODULE FreeListFsck ----------------------------
(***************************************************************************)
(* fsck's walk of the free list (fsck.c, the first loop of main after the  *)
(* SuperBlock has been printed), run on the table of FreeList and on the   *)
(* index blocks it leads to.                                               *)
(***************************************************************************)
EXTENDS FreeList

\* What the walk holds after a hop: the group in fast_stack_buf and whether it goes on.
Stopped(h, state) == [h EXCEPT !.state = state]

ReadStack(h, b) ==
    IF b \notin Blocks \/ disk[b] = FileData
    THEN Stopped(h, "error")
    ELSE [state |-> "walk", n |-> disk[b].n, free |-> disk[b].free]

\* One turn of the loop: check the height, print the group, follow entry 0.
NextHop(h) ==
    IF h.state # "walk" THEN h
    ELSE IF h.n \notin 1 .. StackSize THEN Stopped(h, "error")
    ELSE IF h.free[0] = NoBlock THEN Stopped(h, "end")
    ELSE ReadStack(h, h.free[0])

\* No list is longer than the volume, so NBlocks + 1 turns are enough.
Walk[k \in 0 .. NBlocks + 1] ==
    IF k = 0
    THEN [state |-> "walk", n |-> nfree, free |-> sfree]
    ELSE NextHop(Walk[k - 1])

Printed ==
    UNION { { Walk[k].free[i] : i \in { j \in Entries : j < Walk[k].n } } \ {NoBlock} :
            k \in 0 .. NBlocks + 1 }

\* Between calls the list is one that fsck accepts: every group has a legal height,
\* the walk reaches the final 0, and it prints exactly the blocks no file owns.
FsckAccepts ==
    sound /\ (\A p \in Procs : pc[p] = "idle") =>
        /\ Walk[NBlocks + 1].state = "end"
        /\ Printed = Blocks \ used
=============================================================================
