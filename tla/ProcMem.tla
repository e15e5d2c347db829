------------------------------- MODULE ProcMem -------------------------------
(***************************************************************************)
(* The memory of user processes: mm/vmm.c, mm/paging.c, the ELF loader     *)
(* proc/elf.c and the parts of proc/proc.c and proc/thread.c that build    *)
(* and release the stacks, heaps and images of threads.                    *)
(*                                                                         *)
(* The console runs one user process at a time, so there are two page      *)
(* directories: the kernel's and the one of that process.  Both are        *)
(* modelled for the program area, from 8 MB on, whose pages are numbered   *)
(* from 0 and share one page table; kload is the part of the kernel's that *)
(* holds the file being loaded.  System calls are atomic and the console   *)
(* touches this memory only while no user thread can run, so a step is an  *)
(* iteration of a loop of the code, or a whole loop that cannot fail.      *)
(***************************************************************************)
EXTENDS PhysMem

CONSTANTS
    Programs,       \* the files that may be started
    HeapPages,      \* pages of a thread's heap
    Stride,         \* pages between the stacks of two threads
    TableBlocks,    \* MAX_BLOCKS of paging.c: page tables and directories
    MaxThreads,     \* bound: threads of one process
    LastPage,       \* bound: pages of the program area
    MaxFile         \* bound: pages of a file

Page == 0..LastPage
LoadPage == 1..MaxFile
NULL == 0

VARIABLES
    pool,           \* paging.c: number of blocks handed out (see FreeTable)
    kpde, kpte,     \* kern_dir: has it a table for the program area; frames
    kload,          \* kern_dir: frames of the ELF loading space
    dpde,           \* process directory: flags of the program area's table
    dpte, duser,    \* its frames, and the pages with PAGE_USER
    phase,          \* where console and process are
    prog,           \* the program being loaded or run
    seg, j, n,      \* loop variables; number of the thread being built
    threads, live   \* process_t.threads; numbers of the threads that live

memVars == <<map, used_blocks>>
kernVars == <<kpde, kpte, kload>>
dirVars == <<dpde, dpte, duser>>
loopVars == <<seg, j, n>>
procVars == <<threads, live>>
vars == <<memVars, pool, kernVars, dirVars, phase, prog, loopVars, procVars>>

-----------------------------------------------------------------------------
(* Programs and the layout of a process.  A program has its file's size in *)
(* pages, whether elf_validate accepts it, its entry point and its segments*)
(* of type PT_LOAD, in bytes from the start of the program area.           *)

Segment == [vaddr : Nat, fsz : Nat, msz : Nat \ {0}]
PageOf(virt) == virt \div BlockLen
RoundUp(k) == ((k + BlockLen - 1) \div BlockLen) * BlockLen

(* The pages load_elf_relocate maps for a segment and those it writes.     *)
LastOf(s) == s.fsz \div BlockLen
SegPages(s) == PageOf(s.vaddr)..(PageOf(s.vaddr) + LastOf(s))
Written(s) == PageOf(s.vaddr)..PageOf(s.vaddr + s.msz - 1)

(* thread->image_base and image_size; the mutant rounds the size down.     *)
image_base(p) == p.segs[1].vaddr
LoadEnd(p) == LET s == p.segs[Len(p.segs)] IN s.vaddr + s.msz
image_size_down(p) == ((LoadEnd(p) - p.entry) \div BlockLen) * BlockLen
image_size(p) == RoundUp(LoadEnd(p) - p.entry)
ImagePages(p) == {PageOf(image_base(p)) + k : k \in 0..(image_size(p) \div BlockLen - 1)}

(* The pages of thread m in the order build_stack and build_heap map them: *)
(* user stack, kernel stack, heap.                                         *)
StackPage(p, m) == PageOf(image_base(p) + image_size(p)) + Stride * m
ThreadPage(p, m, k) ==
    StackPage(p, m) + (IF k < 2 THEN k ELSE Stride * m + k)
PagesPerThread == 2 + HeapPages
ThreadPages(p, m) == {ThreadPage(p, m, k) : k \in 0..(PagesPerThread - 1)}

ASSUME LayoutAssumption ==
    /\ {HeapPages, Stride, TableBlocks, MaxThreads, LastPage, MaxFile} \subseteq Nat
    /\ PagesPerThread <= Stride /\ TableBlocks >= 2 /\ MaxThreads >= 1
    /\ \A p \in Programs :
          /\ p.file \in 0..MaxFile /\ p.valid \in BOOLEAN
          /\ p.valid => /\ p.file > 0 /\ p.entry \in Nat
                        /\ p.segs \in Seq(Segment) /\ p.segs # <<>>
                        /\ \A k \in DOMAIN p.segs :
                              SegPages(p.segs[k]) \cup Written(p.segs[k]) \subseteq Page
                        /\ p.entry < LoadEnd(p)
                        /\ ThreadPage(p, MaxThreads, PagesPerThread - 1) \in Page

-----------------------------------------------------------------------------
(* After boot: the kernel's two page tables are made (map_kernel) and the  *)
(* two stack pages of the first process are allocated (sched_init).        *)
BootMap == MallocMap(MallocMap(InitialMap))
NoFrames == [q \in Page |-> NULL]

Init ==
    /\ map = BootMap /\ used_blocks = (InitialUsed + 2) % CountMod
    /\ pool = 2
    /\ kpde = FALSE /\ kpte = NoFrames /\ kload = [k \in LoadPage |-> NULL]
    /\ dpde = "none" /\ dpte = NoFrames /\ duser = {}
    /\ phase = "idle" /\ prog \in Programs
    /\ seg = 0 /\ j = 0 /\ n = 0 /\ threads = 0 /\ live = {}

-----------------------------------------------------------------------------
(* start_proc, first part: create_address_space clones every table of the  *)
(* kernel's directory, flags and stale entries included.                   *)
TablesToClone == 3 + (IF kpde THEN 1 ELSE 0)

CreateAddressSpace(p) ==
    /\ phase = "idle" /\ pool + TablesToClone <= TableBlocks
    /\ pool' = pool + TablesToClone
    /\ dpde' = (IF kpde THEN "super" ELSE "none")
    /\ dpte' = kpte /\ duser' = {}
    /\ phase' = "file" /\ prog' = p /\ j' = 0
    /\ UNCHANGED <<memVars, kernVars, seg, n, procVars>>

(* No block left for one of them: what was allocated so far stays so.      *)
NoAddressSpace ==
    /\ phase = "idle" /\ pool + TablesToClone > TableBlocks
    /\ pool' = TableBlocks
    /\ UNCHANGED <<memVars, kernVars, dirVars, phase, prog, loopVars, procVars>>

(* load_elf_file: one page of the loading space, whose table is map_kernel's. *)
LoadFilePage ==
    /\ phase = "file" /\ j < prog.file
    /\ kload' = [kload EXCEPT ![j + 1] = MallocBlock(map)]
    /\ map' = MallocMap(map) /\ used_blocks' = MallocCount(used_blocks)
    /\ j' = j + 1
    /\ UNCHANGED <<pool, kpde, kpte, dirVars, phase, prog, seg, n, procVars>>

(* No such file, or elf_validate rejects it: start_proc gives up and       *)
(* leaves the pages of the file mapped.                                    *)
RejectFile ==
    /\ phase = "file" /\ j = prog.file /\ ~prog.valid
    /\ phase' = "idle"
    /\ UNCHANGED <<memVars, pool, kernVars, dirVars, prog, loopVars, procVars>>

AcceptFile ==
    /\ phase = "file" /\ j = prog.file /\ prog.valid
    /\ phase' = "image" /\ seg' = 1 /\ j' = 0
    /\ UNCHANGED <<memVars, pool, kernVars, dirVars, prog, n, procVars>>

-----------------------------------------------------------------------------
(* vmm_map of page q in kern_dir, then vmm_map_phys in the process's       *)
(* directory of the frame kern_dir has at page src.                        *)

KernTableNeeded == IF kpde THEN 0 ELSE 1
DirTableNeeded == IF dpde = "none" THEN 1 ELSE 0

(* vmm_map_phys creates a missing table with the flags of the page; the    *)
(* mutant does not create it.                                              *)
DirFlagsKept == dpde
DirFlags == IF dpde = "none" THEN "user" ELSE dpde

MapBoth(q, src) ==
    /\ pool + KernTableNeeded + DirTableNeeded <= TableBlocks
    /\ pool' = pool + KernTableNeeded + DirTableNeeded
    /\ map' = MallocMap(map) /\ used_blocks' = MallocCount(used_blocks)
    /\ kpde' = TRUE /\ kpte' = [kpte EXCEPT ![q] = MallocBlock(map)]
    /\ dpde' = DirFlags
    /\ dpte' = [dpte EXCEPT ![q] = kpte'[src]]
    /\ duser' = duser \cup {q}

(* vmm_create_page_table fails in one of the two: the frame is lost, and   *)
(* load_elf, build_stack or build_heap fail.                               *)
MapBothFails(q) ==
    /\ pool + KernTableNeeded + DirTableNeeded > TableBlocks
    /\ pool' = TableBlocks
    /\ map' = MallocMap(map) /\ used_blocks' = MallocCount(used_blocks)
    /\ kpde' = (kpde \/ pool < TableBlocks)
    /\ kpte' = IF kpde' THEN [kpte EXCEPT ![q] = MallocBlock(map)] ELSE kpte
    /\ UNCHANGED dirVars

(* load_elf_relocate: page j of segment seg.  The frame mapped for the     *)
(* process is the one of the first page, for every page.                   *)
CurSeg == prog.segs[seg]
ImagePage == PageOf(CurSeg.vaddr) + j
ImageSource == PageOf(CurSeg.vaddr)

MapImagePage ==
    /\ phase = "image" /\ seg <= Len(prog.segs) /\ j <= LastOf(CurSeg)
    /\ MapBoth(ImagePage, ImageSource)
    /\ j' = j + 1
    /\ UNCHANGED <<kload, phase, prog, seg, n, procVars>>

MapImageFails ==
    /\ phase = "image" /\ seg <= Len(prog.segs) /\ j <= LastOf(CurSeg)
    /\ MapBothFails(ImagePage)
    /\ phase' = "idle"
    /\ UNCHANGED <<kload, prog, loopVars, procVars>>

(* The segment is copied through kern_dir and unmapped there.  Where no    *)
(* page is mapped the kernel faults, and ex_page_fault panics.             *)
CopySegment ==
    /\ phase = "image" /\ seg <= Len(prog.segs) /\ j > LastOf(CurSeg)
    /\ \/ /\ \A q \in Written(CurSeg) : kpte[q] # NULL
          /\ kpte' = [q \in Page |-> IF q \in SegPages(CurSeg) THEN NULL ELSE kpte[q]]
          /\ seg' = seg + 1 /\ j' = 0
          /\ UNCHANGED phase
       \/ /\ \E q \in Written(CurSeg) : kpte[q] = NULL
          /\ phase' = "panic"
          /\ UNCHANGED <<kpte, seg, j>>
    /\ UNCHANGED <<memVars, pool, kpde, kload, dirVars, prog, n, procVars>>

(* load_elf frees the pages of the file; the mutant only forgets them.     *)
UnloadMapKept == map
UnloadMap == FreeMap(map, {kload[k] : k \in 1..prog.file})
UnloadFile ==
    /\ phase = "image" /\ seg > Len(prog.segs)
    /\ map' = UnloadMap
    /\ used_blocks' = FreeCount(used_blocks, prog.file)
    /\ kload' = [k \in LoadPage |-> IF k <= prog.file THEN NULL ELSE kload[k]]
    /\ phase' = "build" /\ j' = 0 /\ n' = 0
    /\ UNCHANGED <<pool, kpde, kpte, dirVars, prog, seg, procVars>>

-----------------------------------------------------------------------------
(* build_stack and build_heap, for the main thread ("build") and in        *)
(* start_thread ("fork").                                                  *)
MapThreadPage ==
    /\ phase \in {"build", "fork"} /\ j < PagesPerThread
    /\ LET q == ThreadPage(prog, n, j) IN MapBoth(q, q)
    /\ j' = j + 1
    /\ UNCHANGED <<kload, phase, prog, seg, n, procVars>>

(* stack_fill unmaps the user stack from kern_dir, heap_fill (for the main *)
(* thread only) the first page of the heap; the others stay mapped there.  *)
Unfilled == {ThreadPage(prog, n, 0)} \cup
            (IF phase = "build" THEN {ThreadPage(prog, n, 2)} ELSE {})
ThreadBuilt ==
    /\ phase \in {"build", "fork"} /\ j = PagesPerThread
    /\ kpte' = [q \in Page |-> IF q \in Unfilled THEN NULL ELSE kpte[q]]
    /\ threads' = (IF phase = "build" THEN 1 ELSE threads + 1)
    /\ live' = live \cup {n}
    /\ phase' = "run"
    /\ UNCHANGED <<memVars, pool, kpde, kload, dirVars, prog, loopVars>>

(* start_thread, up to build_stack.  The stack's place is computed from    *)
(* threads, which no exit decrements; the mutant counts the live threads.  *)
NewThreadLive == Cardinality(live) + 1
NewThread == threads + 1

(* User code runs only when the table, too, has PAGE_USER.                 *)
UserCanRun == dpde = "user"
StartThread ==
    /\ phase = "run" /\ UserCanRun /\ threads < MaxThreads
    /\ phase' = "fork" /\ n' = NewThread /\ j' = 0
    /\ UNCHANGED <<memVars, pool, kernVars, dirVars, prog, seg, procVars>>

-----------------------------------------------------------------------------
(* vmm_unmap of the pages Q of the process: their frames are freed, stale  *)
(* ones too, once for each page that has one.                              *)
VmmUnmap(Q) ==
    LET hit == {q \in Q : dpte[q] # NULL}
    IN  /\ map' = FreeMap(map, {dpte[q] : q \in hit})
        /\ used_blocks' = FreeCount(used_blocks, Cardinality(hit))
        /\ dpte' = [q \in Page |-> IF q \in Q THEN NULL ELSE dpte[q]]
        /\ duser' = duser \ Q

(* stop_thread of a thread that is not the main one.                       *)
StopThread(m) ==
    /\ phase = "run" /\ UserCanRun /\ m \in live \ {0}
    /\ VmmUnmap(ThreadPages(prog, m))
    /\ live' = live \ {m}
    /\ UNCHANGED <<pool, kernVars, dpde, phase, prog, loopVars, threads>>

(* end_proc: the process ends, its memory stays until the console removes  *)
(* it.                                                                     *)
EndProc ==
    /\ phase = "run" /\ UserCanRun
    /\ phase' = "stopped"
    /\ UNCHANGED <<memVars, pool, kernVars, dirVars, prog, loopVars, procVars>>

(* An exception in user mode.  Invalid opcodes, protection and page faults *)
(* end the process through return_exception, at its first instruction if   *)
(* the program cannot be reached; all others panic, with interrupts off.   *)
Exception ==
    /\ phase = "run"
    /\ \/ phase' = "stopped"
       \/ UserCanRun /\ phase' = "halted"
    /\ UNCHANGED <<memVars, pool, kernVars, dirVars, prog, loopVars, procVars>>

(* panic: the endless loop that nothing leaves.                            *)
panic == phase \in {"panic", "halted"} /\ UNCHANGED vars

(* delete_address_space: page_table_free is called for one table, and      *)
(* clears a bit far outside its bitmap, for the index is the block's       *)
(* number minus an address.                                                *)
FreeTable == pool

(* remove_proc: the image, then stacks and heaps.  Threads that exited     *)
(* have nothing mapped any more.                                           *)
Removed == ImagePages(prog) \cup UNION {ThreadPages(prog, m) : m \in live}
RemoveProc ==
    /\ phase = "stopped"
    /\ LET hit == {q \in Removed : dpte[q] # NULL}
       IN  /\ map' = FreeMap(map, {dpte[q] : q \in hit})
           /\ used_blocks' = FreeCount(used_blocks, Cardinality(hit))
    /\ pool' = FreeTable
    /\ dpde' = "none" /\ dpte' = NoFrames /\ duser' = {}
    /\ threads' = 0 /\ live' = {}
    /\ phase' = "idle"
    /\ UNCHANGED <<kernVars, prog, loopVars>>

-----------------------------------------------------------------------------
Next ==
    \/ \E p \in Programs : CreateAddressSpace(p)
    \/ NoAddressSpace \/ LoadFilePage \/ RejectFile \/ AcceptFile
    \/ MapImagePage \/ MapImageFails \/ CopySegment \/ UnloadFile
    \/ MapThreadPage \/ ThreadBuilt \/ StartThread
    \/ \E m \in 1..MaxThreads : StopThread(m)
    \/ EndProc \/ Exception \/ panic \/ RemoveProc

Spec == Init /\ [][Next]_vars
=============================================================================
