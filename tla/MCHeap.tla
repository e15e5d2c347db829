------------------------------- MODULE MCHeap -------------------------------
(* Heap on a kernel heap and the heap of a process of two threads.         *)
EXTENDS Heap, TLC

Symmetries == Permutations(Handles) \cup Permutations(Threads \ {Main})

(* The kernel heap has nothing in common with the other: behaviours that   *)
(* use both are left out, and so is what a process that forked goes on to  *)
(* do after a tight split, of which the properties say nothing.            *)
Untouched(h) == DOMAIN head[h] = {0} /\ \A c \in Callers : HeapOf(c) = h => used[c] = Hdr
OneSide ==
    /\ Untouched(Kernel) \/ (Untouched(User) /\ ~forked)
    /\ forked => User \notin tight
=============================================================================
