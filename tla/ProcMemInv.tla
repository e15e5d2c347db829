------------------------------ MODULE ProcMemInv ------------------------------
(***************************************************************************)
(* The inductive invariants of ProcMem: HoldInv for any programs, which    *)
(* gives KernelReserved, ThreadsApart, FramesHeld and ForkHasTables, and   *)
(* LeaseInv for programs whose segments fit in a page, under which ProcMem *)
(* implements FrameLease.                                                  *)
(***************************************************************************)
EXTENDS ProcMemProps

(* What pmm_malloc returned and no directory or loop has lost.             *)
Loaded == {"build", "fork", "run", "stopped", "halted"}

MemTypes ==
    /\ KernelSpace \subseteq map
    /\ kpte \in [Page -> Int] /\ dpte \in [Page -> Int] /\ kload \in [LoadPage -> Int]
    /\ duser \subseteq Page
    /\ prog \in Programs /\ (phase \in {"image"} \cup Loaded => prog.valid)
    /\ seg \in Nat /\ j \in Nat /\ n \in Nat
    /\ (phase = "image" => seg >= 1)

(* No directory has a frame of kernel space, except where nothing is       *)
(* mapped; while later pages of a segment are mapped, the first one is.    *)
FramesOutside ==
    /\ \A q \in Page : kpte[q] = NULL \/ kpte[q] \notin KernelSpace
    /\ \A q \in duser : dpte[q] \notin KernelSpace
    /\ phase = "image" /\ seg <= Len(prog.segs) /\ j > 0 =>
          kpte[ImageSource] \notin KernelSpace

(* The numbers of threads grow with the counter threads.                   *)
ThreadNumbers ==
    /\ threads \in Nat /\ threads <= MaxThreads
    /\ live \subseteq 0..threads
    /\ phase \in {"idle", "file", "image", "build", "panic"} => live = {}
    /\ phase \in {"idle", "file", "image", "panic"} \cup Loaded
    /\ phase = "build" => n = 0
    /\ phase = "fork" => n = threads + 1 /\ n <= MaxThreads

MemInv == MemTypes /\ FramesOutside /\ ThreadNumbers

(* The pages of stacks and heaps, as far as building went.                 *)
Building == {l \in 0..(PagesPerThread - 1) : phase \in {"build", "fork"} /\ l < j}
StacksDone ==
    (UNION {ThreadPages(prog, m) : m \in live}) \cup {ThreadPage(prog, n, k) : k \in Building}

(* The pages of the process have frames that are used, and the frame of a  *)
(* stack or heap is in no other page: build_stack may map over a page of   *)
(* the image, but then with a frame of its own.                            *)
FramesOwned ==
    /\ \A q \in duser : dpte[q] \in map \cup {NoBlock}
    /\ \A q, r \in duser :
          q # r /\ dpte[q] = dpte[r] =>
              dpte[q] = NoBlock \/ (SameSegment(q, r) /\ q \notin StacksDone)
    /\ StacksDone \subseteq duser
    /\ phase \in {"build", "fork"} => j <= PagesPerThread

(* The frames of the file that is being loaded are used, and by no page.   *)
FileHeld ==
    /\ phase = "file" => duser = {} /\ j <= prog.file
    /\ \A k \in LoadPage :
          (phase = "file" /\ k <= j) \/ (phase = "image" /\ k <= prog.file) =>
              /\ kload[k] \in map \cup {NoBlock}
              /\ \A q \in duser : dpte[q] = kload[k] => dpte[q] = NoBlock

(* The frame of a segment's first page, which load_elf_relocate maps for   *)
(* all of them: only pages of this segment have it.                        *)
SourceHeld ==
    phase = "image" /\ seg <= Len(prog.segs) /\ j > 0 =>
        LET f == kpte[ImageSource]
        IN  \/ f = NoBlock
            \/ /\ f \in map
               /\ \A q \in duser : dpte[q] = f => q \in SegPages(CurSeg)
               /\ \A k \in LoadPage : k <= prog.file => kload[k] # f

(* A page of the image has been mapped, and with it both tables made.      *)
TablesMade ==
    phase \in Loaded \/ (phase = "image" /\ (seg > 1 \/ j > 0)) => kpde /\ dpde # "none"

HoldInv == MemInv /\ FramesOwned /\ FileHeld /\ SourceHeld /\ TablesMade

-----------------------------------------------------------------------------
(* A program that is accepted, whose segments have one page each, all of   *)
(* them different and in the image's range, before the stack.              *)
SegPage(p, k) == PageOf(p.segs[k].vaddr)
OnePageSegments ==
    \A p \in Programs :
        /\ p.valid
        /\ \A k \in DOMAIN p.segs :
              /\ LastOf(p.segs[k]) = 0
              /\ SegPage(p, k) \in ImagePages(p) /\ SegPage(p, k) < StackPage(p, 0)
              /\ \A l \in DOMAIN p.segs : SegPage(p, k) = SegPage(p, l) => k = l

(* All frames in directories are frames of the machine that were free      *)
(* after boot, or nothing, or the block that stands for a full memory.     *)
Held == Frame \cup {NULL, NoBlock}
FramesKnown ==
    /\ \A q \in Page : kpte[q] \in Held /\ dpte[q] \in Held
    /\ \A k \in LoadPage : kload[k] \in Held
    /\ BootMap \cap Scanned \subseteq map

(* A frame has one borrower.                                               *)
OneBorrower ==
    /\ \A q, r \in duser : q # r /\ dpte[q] = dpte[r] => dpte[q] \notin Frame
    /\ \A k, l \in LoadPage : k # l /\ kload[k] = kload[l] => kload[k] \notin Frame
    /\ \A q \in duser, k \in LoadPage : dpte[q] = kload[k] => dpte[q] \notin Frame

(* The part of the loading space that is in use.                           *)
LoadingSpace ==
    /\ phase \in {"idle"} \cup Loaded => \A k \in LoadPage : kload[k] = NULL
    /\ phase = "file" => \A k \in LoadPage : k > j => kload[k] = NULL
    /\ phase = "image" => \A k \in LoadPage : k > prog.file => kload[k] = NULL
    /\ phase = "file" => j <= prog.file

(* The pages mapped for the process, as far as loading and building went.  *)
ImageDone ==
    {SegPage(prog, k) : k \in {l \in DOMAIN prog.segs :
        phase \in Loaded \/ (phase = "image" /\ (l < seg \/ (l = seg /\ j > 0)))}}
PagesMapped ==
    /\ phase # "panic" => duser = ImageDone \cup StacksDone
    /\ phase \in {"build", "fork"} => j <= PagesPerThread

(* The page table pool is not exhausted before the program area has its    *)
(* tables, so load_elf never loses a frame.                                *)
TablesInv ==
    /\ kpde \in BOOLEAN /\ pool \in Nat /\ pool <= TableBlocks
    /\ dpde \in {"none", "super", "user"}
    /\ ~kpde => pool <= 5 /\ (phase = "idle" => pool = 2)
    /\ phase \in Loaded => kpde
    /\ phase = "image" /\ (seg > 1 \/ j > 0) => kpde
    /\ kpde /\ phase \in {"file", "image"} \cup Loaded => dpde # "none"

(* The frames that are used are those that are lent.                       *)
NoneLost == Frame \cap map = Lent

(* The pool is large enough for the page tables of boot and of one start.  *)
EnoughTables == TableBlocks >= 7

(* No page between the image's first and last is outside all segments: so  *)
(* remove_proc meets no entry that an earlier process left.                *)
NoGaps ==
    \A p \in Programs : ImagePages(p) \subseteq {SegPage(p, k) : k \in DOMAIN p.segs}

(* With the pages that load_elf_file loaded, what the count is proved from. *)
FileLoaded ==
    \A k \in LoadPage :
        (phase = "file" /\ k <= j) \/ (phase = "image" /\ k <= prog.file) => kload[k] # NULL
CountInv == CountExact /\ FileLoaded

LeaseInv ==
    /\ MemInv /\ FramesKnown /\ OneBorrower /\ LoadingSpace /\ PagesMapped
    /\ TablesInv /\ NoneLost
=============================================================================
