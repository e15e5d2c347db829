----------------------------- MODULE ProcMemProps -----------------------------
(* What ProcMem promises, and what the comments of the code say of it.     *)
EXTENDS ProcMem

(* Kernel space is reserved for ever: no free, not even of the block that  *)
(* pmm_malloc invents when memory is full, puts a block of it into         *)
(* circulation, and no page that user code can reach designates one.       *)
KernelReserved ==
    /\ KernelSpace \subseteq map
    /\ \A q \in duser : dpte[q] \notin KernelSpace

(* While a process exists, no frame of it is free, so none is given to     *)
(* anyone else; and two of its pages share a frame only if they belong to  *)
(* one segment (load_elf_relocate) or memory was full.                     *)
SameSegment(q, r) ==
    \E k \in DOMAIN prog.segs : {q, r} \subseteq SegPages(prog.segs[k])
FramesHeld ==
    /\ \A q \in duser : dpte[q] \in map \cup {NoBlock}
    /\ \A q, r \in duser :
          q # r /\ dpte[q] = dpte[r] => dpte[q] = NoBlock \/ SameSegment(q, r)

(* Stacks and heaps of live threads never overlap, although threads come   *)
(* and go and a place is computed from a counter: fork's memcpy and the    *)
(* pages stop_thread frees concern one thread only.                        *)
ThreadsApart ==
    /\ \A m, l \in live : m # l => ThreadPages(prog, m) \cap ThreadPages(prog, l) = {}
    /\ phase = "fork" => \A m \in live : ThreadPages(prog, m) \cap ThreadPages(prog, n) = {}

(* Once a program's image is mapped, the tables for stacks and heaps of    *)
(* all its threads exist: start_thread's error paths are never taken.      *)
ForkHasTables == phase \in {"build", "fork", "run"} => kpde /\ dpde # "none"

-----------------------------------------------------------------------------
(* The frames that processes can have, and those that are lent: mapped for *)
(* the process, or holding the file that is being loaded.                  *)
Frame == Scanned \ BootMap
Lent == ({dpte[q] : q \in duser} \cup {kload[k] : k \in LoadPage}) \cap Frame

Lease == INSTANCE FrameLease WITH free <- Frame \ map, lent <- Lent

(* With programs whose segments fit in a page, starting, forking, exiting  *)
(* and removing implement FrameLease: no frame is lost, none has two       *)
(* borrowers, and after remove_proc all are free - when memory fills up    *)
(* in the middle of it, too.                                               *)
ImplementsLease == Lease!LeaseSpec

(* meminfo's figure is exact: used_blocks counts the pages that were       *)
(* mapped or loaded and not given back, whatever starts, forks and exits   *)
(* there were, and those that got no frame because memory was full.        *)
PagesHeld == Cardinality(duser) + Cardinality({k \in LoadPage : kload[k] # NULL})
CountExact == used_blocks = (InitialUsed + 2 + PagesHeld) % CountMod

(* "Creates a page directory to be used with a process" (vmm.c): a process *)
(* that runs can reach the pages that were mapped for it with PAGE_USER.   *)
UserReachesPages == phase = "run" /\ duser # {} => dpde = "user"

(* "The size of the executable in memory is equal to the virtual address   *)
(* of the last section + the offset - the start" (elf.c): the stack of the *)
(* main thread begins after the image.                                     *)
StackAfterImage ==
    phase \in {"build", "run"} =>
        \A k \in DOMAIN prog.segs :
            Written(prog.segs[k]) \cap ThreadPages(prog, 0) = {}
=============================================================================
