----------------------------- MODULE ProcMemProofs -----------------------------
(***************************************************************************)
(* Proofs about ProcMem, for every memory size, memory map, page table     *)
(* pool and number of threads: kernel space is never given away and the    *)
(* threads of a process stay apart, whatever the programs; and for         *)
(* programs whose segments fit in a page, ProcMem implements FrameLease.   *)
(***************************************************************************)
EXTENDS ProcMemInv, NatLemmas, FiniteSetTheorems

-----------------------------------------------------------------------------
(* pmm_first_free and pmm_malloc.                                          *)

(* The blocks that are searched are blocks of the machine.                 *)
LEMMA ScannedBlocks ==
    /\ Scanned \subseteq Nat
    /\ \A b \in Scanned : b < MaxBlocks
    /\ NoBlock \notin Scanned /\ NoBlock \in Nat /\ NoBlock \notin KernelSpace
    /\ NULL \in KernelSpace
<1>1. (MaxBlocks \div WordBits) * WordBits <= MaxBlocks /\ MaxBlocks \div WordBits \in Nat
  BY BlockAssumption, DivTimes
<1>2. (MaxBlocks \div WordBits) * WordBits \in Nat
  BY <1>1, BlockAssumption
<1>3. QED
  BY <1>1, <1>2, BlockAssumption DEF Scanned, NoBlock, KernelSpace, NULL

(* pmm_first_free finds a free block when there is one.                    *)
LEMMA FirstFree ==
    ASSUME NEW m
    PROVE  \/ pmm_first_free(m) = -1 /\ Scanned \subseteq m
           \/ pmm_first_free(m) \in Scanned \ m
<1>1. CASE Scanned \subseteq m
  BY <1>1 DEF pmm_first_free
<1>2. CASE ~(Scanned \subseteq m)
  <2>1. Scanned \ m # {} /\ Scanned \ m \subseteq Nat
    BY <1>2, ScannedBlocks
  <2>2. \E b \in Scanned \ m : \A c \in Scanned \ m : b <= c
    BY <2>1, LeastNat
  <2>3. QED BY <1>2, <2>2 DEF pmm_first_free
<1>3. QED BY <1>1, <1>2

(* pmm_malloc either takes a free block of the machine or, when memory is  *)
(* full, leaves the bitmap alone and returns NoBlock.                      *)
LEMMA Malloc ==
    ASSUME NEW m, KernelSpace \subseteq m
    PROVE  /\ \/ /\ MallocBlock(m) \in Scanned \ m
                 /\ MallocMap(m) = m \cup {MallocBlock(m)}
              \/ /\ MallocBlock(m) = NoBlock /\ Scanned \subseteq m
                 /\ MallocMap(m) = m
           /\ MallocBlock(m) \in Int /\ MallocBlock(m) \notin KernelSpace
           /\ KernelSpace \subseteq MallocMap(m)
<1>1. CASE pmm_first_free(m) = -1 /\ Scanned \subseteq m
  <2>1. WordBits - 1 \in KernelSpace
    BY BlockAssumption DEF KernelSpace
  <2>2. MallocBlock(m) = NoBlock /\ MallocMap(m) = m \cup {WordBits - 1}
    BY <1>1, Zenon DEF MallocBlock, MallocMap, pmm_set_bit
  <2>3. MallocMap(m) = m
    BY <2>1, <2>2
  <2>4. NoBlock \in Int /\ NoBlock \notin KernelSpace
    BY ScannedBlocks
  <2>5. QED BY <1>1, <2>2, <2>3, <2>4
<1>2. CASE pmm_first_free(m) \in Scanned \ m
  <2>1. pmm_first_free(m) \in Nat
    BY <1>2, ScannedBlocks, Zenon
  <2>2. pmm_first_free(m) # -1
    BY <2>1, SMT
  <2>3. pmm_first_free(m) \notin KernelSpace
    BY <1>2, Zenon
  <2>4. MallocBlock(m) = pmm_first_free(m) /\ MallocMap(m) = m \cup {pmm_first_free(m)}
    BY <2>2, Zenon DEF MallocBlock, MallocMap, pmm_set_bit
  <2>5. QED BY <1>2, <2>1, <2>3, <2>4
<1>3. QED BY <1>1, <1>2, FirstFree

(* After boot, kernel space is reserved.                                   *)
LEMMA BootReserves == KernelSpace \subseteq BootMap
<1>1. KernelSpace \subseteq InitialMap
  BY DEF InitialMap
<1>2. KernelSpace \subseteq MallocMap(InitialMap)
  BY <1>1, Malloc
<1>3. QED BY <1>2, Malloc DEF BootMap

-----------------------------------------------------------------------------
(* The layout of a process.                                                *)

(* What the assumption on programs says of one that is accepted.           *)
LEMMA ProgramShape ==
    ASSUME NEW p \in Programs, p.valid
    PROVE  /\ p.file \in Nat /\ p.file <= MaxFile /\ p.file > 0
           /\ p.segs \in Seq(Segment) /\ Len(p.segs) >= 1
           /\ \A k \in DOMAIN p.segs :
                 /\ p.segs[k].vaddr \in Nat /\ p.segs[k].fsz \in Nat
                 /\ SegPages(p.segs[k]) \subseteq Page
           /\ StackPage(p, 0) \in Nat
           /\ StackPage(p, 0) = PageOf(image_base(p) + image_size(p))
<1>1. p.file \in 0..MaxFile /\ p.file > 0 /\ MaxFile \in Nat
  BY LayoutAssumption
<1>2. p.segs \in Seq(Segment) /\ p.segs # <<>> /\ p.entry \in Nat
  BY LayoutAssumption
<1>3. \A k \in DOMAIN p.segs : SegPages(p.segs[k]) \subseteq Page
  BY LayoutAssumption
<1>4. \A k \in DOMAIN p.segs : p.segs[k] \in Segment
  BY <1>2
<1>5. \A k \in DOMAIN p.segs : p.segs[k].vaddr \in Nat /\ p.segs[k].fsz \in Nat /\ p.segs[k].msz \in Nat
  BY <1>4 DEF Segment
<1>6. Len(p.segs) >= 1 /\ 1 \in DOMAIN p.segs /\ Len(p.segs) \in DOMAIN p.segs
  BY <1>2
<1>7. image_base(p) \in Nat /\ LoadEnd(p) \in Nat
  BY <1>5, <1>6 DEF image_base, LoadEnd
<1>8. image_size(p) \in Nat
  <2>1. p.entry < LoadEnd(p) /\ BlockLen \in Nat \ {0}
    BY BlockAssumption, LayoutAssumption
  <2> LoadEnd(p) - p.entry + BlockLen - 1 \in Nat
    BY <1>2, <1>7, <2>1
  <2>2. (LoadEnd(p) - p.entry + BlockLen - 1) \div BlockLen \in Nat
    BY <2>1, DivTimes
  <2>3. ((LoadEnd(p) - p.entry + BlockLen - 1) \div BlockLen) * BlockLen \in Nat
    BY <2>1, <2>2
  <2>4. QED BY <2>3 DEF image_size, RoundUp
<1>9. StackPage(p, 0) \in Nat /\ StackPage(p, 0) = PageOf(image_base(p) + image_size(p))
  <2>1. PageOf(image_base(p) + image_size(p)) \in Nat
    BY <1>7, <1>8, BlockAssumption, DivTimes DEF PageOf
  <2>2. Stride * 0 = 0
    BY LayoutAssumption
  <2>3. QED BY <2>1, <2>2 DEF StackPage
<1>10. QED BY <1>1, <1>2, <1>3, <1>5, <1>6, <1>9

(* The pages of thread m, relative to the stack of the main thread.        *)
LEMMA ThreadPageIs ==
    ASSUME NEW p \in Programs, p.valid, NEW m \in Nat, NEW k \in 0..(PagesPerThread - 1)
    PROVE  /\ Stride * m \in Nat /\ StackPage(p, 0) \in Nat /\ Stride \in Nat
           /\ k \in Nat /\ k < Stride
           /\ ThreadPage(p, m, k) =
                 StackPage(p, 0) + Stride * m + (IF k < 2 THEN k ELSE Stride * m + k)
<1>1. Stride \in Nat /\ PagesPerThread <= Stride /\ PagesPerThread \in Nat
  BY LayoutAssumption DEF PagesPerThread
<1>2. Stride * m \in Nat /\ Stride * 0 = 0
  BY <1>1
<1>3. StackPage(p, 0) \in Nat
  BY ProgramShape
<1>4. PageOf(image_base(p) + image_size(p)) = StackPage(p, 0)
  BY ProgramShape
<1>5. StackPage(p, m) = StackPage(p, 0) + Stride * m
  BY <1>4 DEF StackPage
<1>6. QED BY <1>1, <1>2, <1>3, <1>5 DEF ThreadPage

(* Two pages of threads are the same only if they are the same page of the *)
(* same thread.                                                            *)
LEMMA ThreadPagesDiffer ==
    ASSUME NEW p \in Programs, p.valid, NEW m \in Nat, NEW l \in Nat,
           NEW a \in 0..(PagesPerThread - 1), NEW b \in 0..(PagesPerThread - 1),
           ThreadPage(p, m, a) = ThreadPage(p, l, b)
    PROVE  m = l /\ a = b
<1> DEFINE B == StackPage(p, 0)  M == Stride * m  L == Stride * l
<1>1. /\ M \in Nat /\ L \in Nat /\ B \in Nat /\ Stride \in Nat
      /\ a \in Nat /\ a < Stride /\ b \in Nat /\ b < Stride
  BY ThreadPageIs
<1>2. ThreadPage(p, m, a) = B + M + (IF a < 2 THEN a ELSE M + a)
  BY ThreadPageIs
<1>3. ThreadPage(p, l, b) = B + L + (IF b < 2 THEN b ELSE L + b)
  BY ThreadPageIs
<1>4. \A x \in Int, r \in Int : Stride * x = r /\ 0 < r => r >= Stride
  BY <1>1, NoMultipleBetween
<1>5. M + (IF a < 2 THEN a ELSE M + a) = L + (IF b < 2 THEN b ELSE L + b)
  <2> HIDE DEF M, L, B
  <2>1. B + M + (IF a < 2 THEN a ELSE M + a) = B + L + (IF b < 2 THEN b ELSE L + b)
    BY <1>2, <1>3
  <2>2. QED BY <2>1, <1>1
<1>6. Stride > 0
  BY <1>1
<1>7. CASE a < 2 /\ b < 2
  <2>1. Stride * (m - l) = b - a /\ Stride * (l - m) = a - b
    BY <1>5, <1>7, <1>1, SMT
  <2>2. a = b
    BY <2>1, <1>4, <1>1
  <2>3. Stride * (m - l) = 0
    BY <2>1, <2>2, <1>1
  <2>4. m - l = 0
    BY <2>3, <1>6, <1>1, SMT
  <2>5. QED BY <2>2, <2>4
<1>8. CASE a >= 2 /\ b >= 2
  <2>1. Stride * (2 * m - 2 * l) = b - a /\ Stride * (2 * l - 2 * m) = a - b
    BY <1>5, <1>8, <1>1, SMT
  <2>2. a = b
    BY <2>1, <1>4, <1>1
  <2>3. Stride * (2 * m - 2 * l) = 0
    BY <2>1, <2>2, <1>1
  <2>4. 2 * m - 2 * l = 0
    BY <2>3, <1>6, <1>1, SMT
  <2>5. QED BY <2>2, <2>4
<1>9. CASE a < 2 /\ b >= 2
  <2>1. Stride * (m - 2 * l) = b - a /\ 0 < b - a /\ b - a < Stride
    BY <1>5, <1>9, <1>1, SMT
  <2>2. QED BY <2>1, <1>4, <1>1
<1>10. CASE a >= 2 /\ b < 2
  <2>1. Stride * (l - 2 * m) = a - b /\ 0 < a - b /\ a - b < Stride
    BY <1>5, <1>10, <1>1, SMT
  <2>2. QED BY <2>1, <1>4, <1>1
<1>11. QED BY <1>1, <1>7, <1>8, <1>9, <1>10

(* The threads up to the bound have their pages in the program area, at or *)
(* after the main thread's stack.                                          *)
LEMMA ThreadPagesFit ==
    ASSUME NEW p \in Programs, p.valid, NEW m \in Nat, m <= MaxThreads,
           NEW k \in 0..(PagesPerThread - 1)
    PROVE  ThreadPage(p, m, k) \in Page /\ ThreadPage(p, m, k) >= StackPage(p, 0)
<1> DEFINE B == StackPage(p, 0)  M == Stride * m  T == Stride * MaxThreads
<1>1. /\ MaxThreads \in Nat /\ LastPage \in Nat /\ HeapPages \in Nat
      /\ ThreadPage(p, MaxThreads, PagesPerThread - 1) \in Page
  BY LayoutAssumption
<1>2. PagesPerThread \in Nat /\ PagesPerThread >= 2 /\ PagesPerThread - 1 \in 0..(PagesPerThread - 1)
  BY <1>1 DEF PagesPerThread
<1>3. M \in Nat /\ B \in Nat /\ k \in Nat /\ Stride \in Nat
      /\ ThreadPage(p, m, k) = B + M + (IF k < 2 THEN k ELSE M + k)
  BY ThreadPageIs
<1>4. T \in Nat /\ ThreadPage(p, MaxThreads, PagesPerThread - 1) =
         B + T + (IF PagesPerThread - 1 < 2 THEN PagesPerThread - 1
                  ELSE T + (PagesPerThread - 1))
  <2>1. PICK e \in 0..(PagesPerThread - 1) : e = PagesPerThread - 1
    BY <1>2
  <2>2. T \in Nat /\ ThreadPage(p, MaxThreads, e) = B + T + (IF e < 2 THEN e ELSE T + e)
    BY <1>1, ThreadPageIs
  <2>3. QED BY <2>1, <2>2
<1>5. M <= T
  BY <1>1, <1>3, TimesMonotonic
<1>6. k <= PagesPerThread - 1
  BY <1>2
<1> HIDE DEF B, M, T
<1>7. ThreadPage(p, m, k) <= ThreadPage(p, MaxThreads, PagesPerThread - 1)
  BY <1>2, <1>3, <1>4, <1>5, <1>6
<1>8. QED BY <1>1, <1>3, <1>7 DEF Page, B

-----------------------------------------------------------------------------
(* The invariant for any programs.                                         *)

(* The page that load_elf_relocate maps, and the one whose frame it takes, *)
(* are in the program area.                                                *)
LEMMA ImagePageFits ==
    ASSUME MemTypes, phase = "image", seg <= Len(prog.segs), j <= LastOf(CurSeg)
    PROVE  /\ ImagePage \in Page /\ ImageSource \in Page
           /\ j = 0 => ImagePage = ImageSource
           /\ j > 0 => ImagePage # ImageSource
           /\ seg \in DOMAIN prog.segs
<1>1. prog \in Programs /\ prog.valid /\ seg \in Nat /\ seg >= 1 /\ j \in Nat
  BY DEF MemTypes
<1>2. seg \in DOMAIN prog.segs
  BY <1>1, ProgramShape
<1>3. /\ CurSeg.vaddr \in Nat /\ CurSeg.fsz \in Nat /\ SegPages(CurSeg) \subseteq Page
  BY <1>1, <1>2, ProgramShape DEF CurSeg
<1>4. PageOf(CurSeg.vaddr) \in Nat /\ LastOf(CurSeg) \in Nat
  BY <1>3, BlockAssumption, DivTimes DEF PageOf, LastOf
<1>5. ImagePage \in SegPages(CurSeg) /\ ImageSource \in SegPages(CurSeg)
  BY <1>1, <1>4 DEF ImagePage, ImageSource, SegPages
<1>6. QED BY <1>1, <1>2, <1>3, <1>4, <1>5 DEF ImagePage, ImageSource

(* Mapping a page keeps kernel space out of the directories.               *)
LEMMA MapBothOutside ==
    ASSUME MemTypes, FramesOutside, NEW q \in Page, NEW src \in Page, MapBoth(q, src),
           src = q \/ kpte[src] \notin KernelSpace
    PROVE  /\ KernelSpace \subseteq map'
           /\ kpte' \in [Page -> Int] /\ dpte' \in [Page -> Int] /\ duser' \subseteq Page
           /\ \A x \in Page : kpte'[x] = NULL \/ kpte'[x] \notin KernelSpace
           /\ \A x \in duser' : dpte'[x] \notin KernelSpace
           /\ kpte'[src] \notin KernelSpace
<1> DEFINE f == MallocBlock(map)
<1>1. f \in Int /\ f \notin KernelSpace /\ KernelSpace \subseteq MallocMap(map)
  BY Malloc DEF MemTypes
<1>2. /\ map' = MallocMap(map) /\ kpte' = [kpte EXCEPT ![q] = f]
      /\ dpte' = [dpte EXCEPT ![q] = kpte'[src]] /\ duser' = duser \cup {q}
  BY DEF MapBoth
<1> HIDE DEF f
<1>3. kpte \in [Page -> Int] /\ dpte \in [Page -> Int] /\ duser \subseteq Page
  BY DEF MemTypes
<1>4. kpte' \in [Page -> Int] /\ kpte'[src] \notin KernelSpace
      /\ \A x \in Page : kpte'[x] = NULL \/ kpte'[x] \notin KernelSpace
  BY <1>1, <1>2, <1>3 DEF FramesOutside
<1>5. dpte' \in [Page -> Int] /\ \A x \in duser' : dpte'[x] \notin KernelSpace
  BY <1>2, <1>3, <1>4 DEF FramesOutside
<1>6. QED BY <1>1, <1>2, <1>3, <1>4, <1>5

(* Freeing leaves kernel space alone.                                      *)
LEMMA FreeReserves ==
    ASSUME NEW m, NEW S, KernelSpace \subseteq m
    PROVE  KernelSpace \subseteq FreeMap(m, S)
  BY DEF FreeMap

(* It holds after boot.                                                    *)
LEMMA MemInvInit == Init => MemInv
<1>1. SUFFICES ASSUME Init PROVE MemInv
  OBVIOUS
<1>2. MemTypes
  BY <1>1, BootReserves DEF Init, MemTypes, NoFrames, NULL, Loaded
<1>3. FramesOutside
  BY <1>1 DEF Init, FramesOutside, NoFrames
<1>4. ThreadNumbers
  BY <1>1, LayoutAssumption DEF Init, ThreadNumbers
<1>5. QED BY <1>2, <1>3, <1>4 DEF MemInv

(* The steps of start_proc that load a program.                            *)
LEMMA MemInvLoad ==
    ASSUME MemInv,
           \/ \E p \in Programs : CreateAddressSpace(p)
           \/ NoAddressSpace \/ LoadFilePage \/ RejectFile \/ AcceptFile
           \/ CopySegment \/ UnloadFile
    PROVE  MemInv'
<1>0. MemTypes /\ FramesOutside /\ ThreadNumbers
  BY DEF MemInv
<1>1. ASSUME NEW p \in Programs, CreateAddressSpace(p) PROVE MemInv'
  <2>1. MemTypes'
    BY <1>0, <1>1 DEF CreateAddressSpace, MemTypes, memVars, kernVars, Loaded
  <2>2. FramesOutside'
    BY <1>0, <1>1 DEF CreateAddressSpace, FramesOutside, memVars, kernVars
  <2>3. ThreadNumbers'
    BY <1>0, <1>1 DEF CreateAddressSpace, ThreadNumbers, procVars
  <2>4. QED BY <2>1, <2>2, <2>3 DEF MemInv
<1>2. CASE NoAddressSpace
  <2>1. /\ UNCHANGED <<map, kpte, kload, dpte, duser, phase, prog, seg, j, n, threads, live>>
    BY <1>2 DEF NoAddressSpace, memVars, kernVars, dirVars, loopVars, procVars
  <2>2. QED
    BY <1>0, <2>1 DEF MemInv, MemTypes, FramesOutside, ThreadNumbers, ImageSource, CurSeg
<1>3. CASE LoadFilePage
  <2>1. MallocBlock(map) \in Int /\ KernelSpace \subseteq MallocMap(map)
    BY <1>0, Malloc DEF MemTypes
  <2>2. MemTypes'
    <3>1. kload' \in [LoadPage -> Int]
      BY <1>0, <1>3, <2>1 DEF LoadFilePage, MemTypes
    <3>2. KernelSpace \subseteq map' /\ j' \in Nat /\ phase' = "file"
      BY <1>0, <1>3, <2>1 DEF LoadFilePage, MemTypes
    <3>3. UNCHANGED <<kpte, dpte, duser, prog, seg, n>>
      BY <1>3 DEF LoadFilePage, dirVars
    <3>4. QED BY <1>0, <3>1, <3>2, <3>3 DEF MemTypes, Loaded
  <2>3. FramesOutside'
    BY <1>0, <1>3 DEF LoadFilePage, FramesOutside, dirVars
  <2>4. ThreadNumbers'
    BY <1>0, <1>3 DEF LoadFilePage, ThreadNumbers, procVars
  <2>5. QED BY <2>2, <2>3, <2>4 DEF MemInv
<1>4. CASE RejectFile
  <2>1. MemTypes'
    BY <1>0, <1>4 DEF RejectFile, MemTypes, memVars, kernVars, dirVars, loopVars, Loaded
  <2>2. FramesOutside'
    BY <1>0, <1>4 DEF RejectFile, FramesOutside, kernVars, dirVars
  <2>3. ThreadNumbers'
    BY <1>0, <1>4 DEF RejectFile, ThreadNumbers, procVars, loopVars
  <2>4. QED BY <2>1, <2>2, <2>3 DEF MemInv
<1>5. CASE AcceptFile
  <2>1. MemTypes'
    BY <1>0, <1>5 DEF AcceptFile, MemTypes, memVars, kernVars, dirVars, Loaded
  <2>2. FramesOutside'
    BY <1>0, <1>5 DEF AcceptFile, FramesOutside, kernVars, dirVars
  <2>3. ThreadNumbers'
    BY <1>0, <1>5 DEF AcceptFile, ThreadNumbers, procVars
  <2>4. QED BY <2>1, <2>2, <2>3 DEF MemInv
<1>6. CASE CopySegment
  <2>1. kpte' \in [Page -> Int] /\ \A q \in Page : kpte'[q] = NULL \/ kpte'[q] = kpte[q]
    BY <1>0, <1>6 DEF CopySegment, MemTypes, NULL
  <2>2. MemTypes'
    BY <1>0, <1>6, <2>1 DEF CopySegment, MemTypes, memVars, dirVars, Loaded
  <2>3. FramesOutside'
    BY <1>0, <1>6, <2>1 DEF CopySegment, FramesOutside, MemTypes, dirVars
  <2>4. ThreadNumbers'
    BY <1>0, <1>6 DEF CopySegment, ThreadNumbers, procVars
  <2>5. QED BY <2>2, <2>3, <2>4 DEF MemInv
<1>7. CASE UnloadFile
  <2>1. KernelSpace \subseteq map'
    BY <1>0, <1>7, FreeReserves DEF UnloadFile, UnloadMap, MemTypes
  <2>2. MemTypes'
    BY <1>0, <1>7, <2>1 DEF UnloadFile, MemTypes, dirVars, Loaded, NULL
  <2>3. FramesOutside'
    BY <1>0, <1>7 DEF UnloadFile, FramesOutside, dirVars
  <2>4. ThreadNumbers'
    BY <1>0, <1>7 DEF UnloadFile, ThreadNumbers, procVars, Loaded
  <2>5. QED BY <2>2, <2>3, <2>4 DEF MemInv
<1>8. QED BY <1>1, <1>2, <1>3, <1>4, <1>5, <1>6, <1>7

(* The steps that map pages.                                               *)
LEMMA MemInvMap ==
    ASSUME MemInv, MapImagePage \/ MapImageFails \/ MapThreadPage
    PROVE  MemInv'
<1>0. MemTypes /\ FramesOutside /\ ThreadNumbers
  BY DEF MemInv
<1>1. CASE MapImagePage
  <2>1. /\ phase = "image" /\ seg <= Len(prog.segs) /\ j <= LastOf(CurSeg)
        /\ MapBoth(ImagePage, ImageSource) /\ j' = j + 1
        /\ UNCHANGED <<kload, phase, prog, seg, n, threads, live>>
    BY <1>1 DEF MapImagePage, procVars
  <2>2. ImagePage \in Page /\ ImageSource \in Page /\ (j = 0 => ImagePage = ImageSource)
    BY <1>0, <2>1, ImagePageFits
  <2>3. ImageSource = ImagePage \/ kpte[ImageSource] \notin KernelSpace
    BY <1>0, <2>1, <2>2 DEF MemTypes, FramesOutside
  <2>4. /\ KernelSpace \subseteq map'
        /\ kpte' \in [Page -> Int] /\ dpte' \in [Page -> Int] /\ duser' \subseteq Page
        /\ \A x \in Page : kpte'[x] = NULL \/ kpte'[x] \notin KernelSpace
        /\ \A x \in duser' : dpte'[x] \notin KernelSpace
        /\ kpte'[ImageSource] \notin KernelSpace
    BY <1>0, <2>1, <2>2, <2>3, MapBothOutside
  <2>5. MemTypes'
    BY <1>0, <2>1, <2>4 DEF MemTypes
  <2>6. ImageSource' = ImageSource
    BY <2>1 DEF ImageSource, CurSeg
  <2>7. FramesOutside'
    BY <2>4, <2>6 DEF FramesOutside
  <2>8. ThreadNumbers'
    BY <1>0, <2>1 DEF ThreadNumbers, Loaded
  <2>9. QED BY <2>5, <2>7, <2>8 DEF MemInv
<1>2. CASE MapImageFails
  <2>1. /\ phase = "image" /\ seg <= Len(prog.segs) /\ j <= LastOf(CurSeg)
        /\ MapBothFails(ImagePage) /\ phase' = "idle"
        /\ UNCHANGED <<kload, prog, seg, j, n, threads, live>>
    BY <1>2 DEF MapImageFails, procVars, loopVars
  <2>2. ImagePage \in Page
    BY <1>0, <2>1, ImagePageFits
  <2>3. MallocBlock(map) \in Int /\ MallocBlock(map) \notin KernelSpace
        /\ KernelSpace \subseteq MallocMap(map)
    BY <1>0, Malloc DEF MemTypes
  <2>4. /\ map' = MallocMap(map) /\ UNCHANGED <<dpte, duser>>
        /\ kpte' = kpte \/ kpte' = [kpte EXCEPT ![ImagePage] = MallocBlock(map)]
    BY <2>1 DEF MapBothFails, dirVars
  <2>5. kpte' \in [Page -> Int]
        /\ \A x \in Page : kpte'[x] = NULL \/ kpte'[x] \notin KernelSpace
    BY <1>0, <2>2, <2>3, <2>4 DEF MemTypes, FramesOutside
  <2>6. MemTypes'
    BY <1>0, <2>1, <2>3, <2>4, <2>5 DEF MemTypes, Loaded
  <2>7. FramesOutside'
    BY <1>0, <2>1, <2>4, <2>5 DEF FramesOutside
  <2>8. ThreadNumbers'
    BY <1>0, <2>1 DEF ThreadNumbers, Loaded
  <2>9. QED BY <2>6, <2>7, <2>8 DEF MemInv
<1>3. CASE MapThreadPage
  <2> DEFINE q == ThreadPage(prog, n, j)
  <2>1. /\ phase \in {"build", "fork"} /\ j < PagesPerThread
        /\ MapBoth(q, q) /\ j' = j + 1
        /\ UNCHANGED <<kload, phase, prog, seg, n, threads, live>>
    BY <1>3 DEF MapThreadPage, procVars
  <2>2. prog \in Programs /\ prog.valid /\ n \in Nat /\ n <= MaxThreads /\ j \in Nat
    BY <1>0, <2>1, LayoutAssumption DEF MemTypes, ThreadNumbers, Loaded
  <2>3. j \in 0..(PagesPerThread - 1)
    BY <2>1, <2>2, LayoutAssumption DEF PagesPerThread
  <2>4. q \in Page
    BY <2>2, <2>3, ThreadPagesFit
  <2> HIDE DEF q
  <2>5. /\ KernelSpace \subseteq map'
        /\ kpte' \in [Page -> Int] /\ dpte' \in [Page -> Int] /\ duser' \subseteq Page
        /\ \A x \in Page : kpte'[x] = NULL \/ kpte'[x] \notin KernelSpace
        /\ \A x \in duser' : dpte'[x] \notin KernelSpace
    BY <1>0, <2>1, <2>4, MapBothOutside
  <2>6. MemTypes'
    BY <1>0, <2>1, <2>5 DEF MemTypes
  <2>7. FramesOutside'
    BY <2>1, <2>5 DEF FramesOutside
  <2>8. ThreadNumbers'
    BY <1>0, <2>1 DEF ThreadNumbers, Loaded
  <2>9. QED BY <2>6, <2>7, <2>8 DEF MemInv
<1>4. QED BY <1>1, <1>2, <1>3

(* The steps that start, fork, exit, end and remove.                       *)
LEMMA MemInvLife ==
    ASSUME MemInv,
           \/ ThreadBuilt \/ StartThread \/ EndProc \/ Exception \/ RemoveProc
           \/ \E m \in 1..MaxThreads : StopThread(m)
    PROVE  MemInv'
<1>0. MemTypes /\ FramesOutside /\ ThreadNumbers
  BY DEF MemInv
<1>1. CASE ThreadBuilt
  <2>1. /\ phase \in {"build", "fork"} /\ phase' = "run"
        /\ kpte' = [q \in Page |-> IF q \in Unfilled THEN NULL ELSE kpte[q]]
        /\ threads' = (IF phase = "build" THEN 1 ELSE threads + 1)
        /\ live' = live \cup {n}
        /\ UNCHANGED <<map, kload, dpte, duser, prog, seg, j, n>>
    BY <1>1 DEF ThreadBuilt, memVars, dirVars, loopVars
  <2>2. kpte' \in [Page -> Int] /\ \A q \in Page : kpte'[q] = NULL \/ kpte'[q] = kpte[q]
    BY <1>0, <2>1 DEF MemTypes, NULL
  <2>3. MemTypes'
    BY <1>0, <2>1, <2>2 DEF MemTypes, Loaded
  <2>4. FramesOutside'
    BY <1>0, <2>1, <2>2 DEF FramesOutside
  <2>5. ThreadNumbers'
    <3>1. MaxThreads \in Nat /\ MaxThreads >= 1 /\ threads \in Nat /\ live \subseteq 0..threads
      BY <1>0, LayoutAssumption DEF ThreadNumbers
    <3>2. CASE phase = "build"
      <4>1. n = 0 /\ live = {}
        BY <1>0, <3>2 DEF ThreadNumbers
      <4>2. QED BY <2>1, <3>1, <3>2, <4>1 DEF ThreadNumbers, Loaded
    <3>3. CASE phase = "fork"
      <4>1. n = threads + 1 /\ n <= MaxThreads
        BY <1>0, <3>3 DEF ThreadNumbers
      <4>2. threads' = threads + 1 /\ live' \subseteq 0..threads'
        BY <2>1, <3>1, <3>3, <4>1
      <4>3. QED BY <2>1, <3>1, <4>1, <4>2 DEF ThreadNumbers, Loaded
    <3>4. QED BY <2>1, <3>2, <3>3
  <2>6. QED BY <2>3, <2>4, <2>5 DEF MemInv
<1>2. CASE StartThread
  <2>1. /\ phase = "run" /\ threads < MaxThreads
        /\ phase' = "fork" /\ n' = threads + 1 /\ j' = 0
        /\ UNCHANGED <<map, kpte, kload, dpte, duser, prog, seg, threads, live>>
    BY <1>2 DEF StartThread, NewThread, memVars, kernVars, dirVars, procVars
  <2>2. MemTypes'
    BY <1>0, <2>1 DEF MemTypes, Loaded, ThreadNumbers
  <2>3. FramesOutside'
    BY <1>0, <2>1 DEF FramesOutside
  <2>4. ThreadNumbers'
    BY <1>0, <2>1, LayoutAssumption DEF ThreadNumbers, Loaded
  <2>5. QED BY <2>2, <2>3, <2>4 DEF MemInv
<1>3. CASE EndProc \/ Exception
  <2>1. /\ phase = "run" /\ phase' \in {"stopped", "halted"}
        /\ UNCHANGED <<map, kpte, kload, dpte, duser, prog, seg, j, n, threads, live>>
    BY <1>3 DEF EndProc, Exception, memVars, kernVars, dirVars, loopVars, procVars
  <2>2. MemTypes'
    BY <1>0, <2>1 DEF MemTypes, Loaded
  <2>3. FramesOutside'
    BY <1>0, <2>1 DEF FramesOutside
  <2>4. ThreadNumbers'
    BY <1>0, <2>1 DEF ThreadNumbers, Loaded
  <2>5. QED BY <2>2, <2>3, <2>4 DEF MemInv
<1>4. CASE RemoveProc
  <2>1. /\ phase' = "idle" /\ threads' = 0 /\ live' = {}
        /\ dpte' = NoFrames /\ duser' = {}
        /\ UNCHANGED <<kpte, kload, prog, seg, j, n>>
    BY <1>4 DEF RemoveProc, kernVars, loopVars
  <2>2. KernelSpace \subseteq map'
    BY <1>0, <1>4, FreeReserves DEF RemoveProc, MemTypes
  <2>3. MemTypes'
    BY <1>0, <2>1, <2>2 DEF MemTypes, Loaded, NoFrames, NULL
  <2>4. FramesOutside'
    BY <1>0, <2>1 DEF FramesOutside
  <2>5. ThreadNumbers'
    BY <2>1, LayoutAssumption DEF ThreadNumbers
  <2>6. QED BY <2>3, <2>4, <2>5 DEF MemInv
<1>5. ASSUME NEW m \in 1..MaxThreads, StopThread(m) PROVE MemInv'
  <2> DEFINE Q == ThreadPages(prog, m)
  <2>1. /\ phase = "run" /\ VmmUnmap(Q) /\ live' = live \ {m}
        /\ UNCHANGED <<kpte, kload, phase, prog, seg, j, n, threads>>
    BY <1>5 DEF StopThread, kernVars, loopVars
  <2> HIDE DEF Q
  <2>2. KernelSpace \subseteq map'
    BY <1>0, <2>1, FreeReserves DEF VmmUnmap, MemTypes
  <2>3. /\ dpte' = [q \in Page |-> IF q \in Q THEN NULL ELSE dpte[q]]
        /\ duser' = duser \ Q
    BY <2>1 DEF VmmUnmap
  <2>4. MemTypes'
    BY <1>0, <2>1, <2>2, <2>3 DEF MemTypes, NULL
  <2>5. \A q \in duser' : dpte'[q] = dpte[q] /\ q \in duser
    BY <1>0, <2>3 DEF MemTypes
  <2>6. FramesOutside'
    BY <1>0, <2>1, <2>5 DEF FramesOutside
  <2>7. ThreadNumbers'
    BY <1>0, <2>1 DEF ThreadNumbers, Loaded
  <2>8. QED BY <2>4, <2>6, <2>7 DEF MemInv
<1>6. QED BY <1>1, <1>2, <1>3, <1>4, <1>5

(* Every step preserves it.                                                *)
LEMMA MemInvNext == MemInv /\ [Next]_vars => MemInv'
<1>1. SUFFICES ASSUME MemInv, [Next]_vars PROVE MemInv'
  OBVIOUS
<1>2. CASE UNCHANGED vars
  BY <1>1, <1>2 DEF vars, memVars, kernVars, dirVars, loopVars, procVars, MemInv, MemTypes,
     FramesOutside, ThreadNumbers, ImageSource, CurSeg
<1>3. CASE Next
  BY <1>1, <1>2, <1>3, MemInvLoad, MemInvMap, MemInvLife DEF Next, panic
<1>4. QED BY <1>1, <1>2, <1>3

(* The invariant holds in every state, whatever the programs.              *)
THEOREM MemInvariant == Spec => []MemInv
  BY MemInvInit, MemInvNext, PTL DEF Spec

(* Kernel space is never handed out, freed or mapped for user code,        *)
(* whatever is loaded and however full the memory is.                      *)
THEOREM KernelIsReserved == Spec => []KernelReserved
<1>1. MemInv => KernelReserved
  BY DEF MemInv, MemTypes, FramesOutside, KernelReserved
<1>2. QED BY <1>1, MemInvariant, PTL

(* The pages of two threads.                                               *)
LEMMA ThreadsDisjoint ==
    ASSUME MemInv, NEW m \in Nat, NEW l \in Nat, m # l, phase \in Loaded
    PROVE  ThreadPages(prog, m) \cap ThreadPages(prog, l) = {}
<1>1. prog \in Programs /\ prog.valid
  BY DEF MemInv, MemTypes
<1>2. QED BY <1>1, ThreadPagesDiffer DEF ThreadPages

(* The stacks and heaps of the threads of a process never overlap.         *)
THEOREM ThreadsStayApart == Spec => []ThreadsApart
<1>1. ASSUME MemInv PROVE ThreadsApart
  <2>1. n \in Nat /\ live \subseteq Nat
    BY <1>1 DEF MemInv, MemTypes, ThreadNumbers
  <2>2. live # {} => phase \in Loaded
    BY <1>1 DEF MemInv, ThreadNumbers, Loaded
  <2>3. phase = "fork" => \A m \in live : m # n
    BY <1>1 DEF MemInv, ThreadNumbers
  <2>4. QED BY <1>1, ThreadsDisjoint, <2>1, <2>2, <2>3 DEF ThreadsApart
<1>2. QED BY <1>1, MemInvariant, PTL

-----------------------------------------------------------------------------
(* Frames and tables, whatever the programs.                               *)

(* The block that pmm_malloc returns was not used, or stands for a full    *)
(* memory.                                                                 *)
LEMMA MallocFresh ==
    ASSUME KernelSpace \subseteq map
    PROVE  /\ map \subseteq MallocMap(map)
           /\ MallocBlock(map) \in MallocMap(map) \cup {NoBlock}
           /\ MallocBlock(map) = NoBlock \/ MallocBlock(map) \notin map \cup {NoBlock}
  BY Malloc, ScannedBlocks

(* The mapped pages of stacks and heaps.                                   *)
LEMMA StacksAre ==
    ASSUME NEW r
    PROVE  r \in StacksDone <=> \/ \E m \in live : r \in ThreadPages(prog, m)
                                \/ \E k \in Building : r = ThreadPage(prog, n, k)
  BY DEF StacksDone

(* The same after a step.                                                  *)
LEMMA StacksAreNext ==
    ASSUME NEW r, UNCHANGED <<prog, n>>
    PROVE  r \in StacksDone' <=> \/ \E m \in live' : r \in ThreadPages(prog, m)
                                 \/ \E k \in Building' : r = ThreadPage(prog, n, k)
  BY DEF StacksDone

(* A step that leaves the frames of the process alone.                     *)
LEMMA OwnedSame ==
    ASSUME FramesOwned, UNCHANGED <<map, dpte, duser, prog>>, StacksDone' = StacksDone,
           phase' \in {"build", "fork"} => j' <= PagesPerThread
    PROVE  FramesOwned'
  BY DEF FramesOwned, SameSegment

(* It holds after boot.                                                    *)
LEMMA HoldInit == Init => HoldInv
<1>1. SUFFICES ASSUME Init PROVE HoldInv
  OBVIOUS
<1>2. phase = "idle" /\ duser = {} /\ live = {}
  BY <1>1 DEF Init
<1>3. FramesOwned
  BY <1>2 DEF FramesOwned, StacksDone, Building
<1>4. FileHeld /\ SourceHeld /\ TablesMade
  BY <1>2 DEF FileHeld, SourceHeld, TablesMade, Loaded
<1>5. QED BY <1>1, <1>3, <1>4, MemInvInit DEF HoldInv

(* The steps of start_proc up to the image.                                *)
LEMMA HoldFile ==
    ASSUME HoldInv,
           \/ \E p \in Programs : CreateAddressSpace(p)
           \/ NoAddressSpace \/ LoadFilePage \/ RejectFile \/ AcceptFile
    PROVE  FramesOwned' /\ FileHeld' /\ SourceHeld' /\ TablesMade'
<1>0. MemTypes /\ ThreadNumbers /\ FramesOwned /\ FileHeld /\ SourceHeld /\ TablesMade
  BY DEF HoldInv, MemInv
<1>a. MaxFile \in Nat /\ prog.file \in 0..MaxFile
  BY <1>0, LayoutAssumption DEF MemTypes
<1>1. ASSUME NEW p \in Programs, CreateAddressSpace(p)
      PROVE  FramesOwned' /\ FileHeld' /\ SourceHeld' /\ TablesMade'
  <2>1. /\ phase = "idle" /\ phase' = "file" /\ duser' = {} /\ j' = 0 /\ prog' = p
        /\ live' = live
    BY <1>1 DEF CreateAddressSpace, procVars
  <2>2. live' = {}
    BY <1>0, <2>1 DEF ThreadNumbers
  <2>3. FramesOwned'
    BY <2>1, <2>2 DEF FramesOwned, StacksDone, Building
  <2>4. FileHeld'
    <3>1. p.file \in Nat
      BY LayoutAssumption
    <3>2. \A k \in LoadPage : ~(k <= 0)
      BY DEF LoadPage
    <3>3. QED BY <2>1, <3>1, <3>2 DEF FileHeld
  <2>5. QED BY <2>1, <2>3, <2>4 DEF SourceHeld, TablesMade, Loaded
<1>2. CASE NoAddressSpace
  <2>1. /\ phase = "idle" /\ UNCHANGED <<map, kpte, kload, dpte, duser, phase, prog, seg, j, n, live>>
    BY <1>2 DEF NoAddressSpace, memVars, kernVars, dirVars, loopVars, procVars
  <2>2. StacksDone' = StacksDone
    BY <2>1 DEF StacksDone, Building
  <2>3. FramesOwned'
    BY <1>0, <2>1, <2>2, OwnedSame
  <2>4. QED BY <2>1, <2>3 DEF FileHeld, SourceHeld, TablesMade, Loaded
<1>3. CASE LoadFilePage
  <2> DEFINE f == MallocBlock(map)
  <2>1. /\ phase = "file" /\ j < prog.file /\ j' = j + 1
        /\ kload' = [kload EXCEPT ![j + 1] = f] /\ map' = MallocMap(map)
        /\ UNCHANGED <<dpte, duser, phase, prog, n, live>>
    BY <1>3 DEF LoadFilePage, dirVars, procVars
  <2>2. map \subseteq map' /\ f \in map' \cup {NoBlock}
    BY <1>0, <2>1, MallocFresh DEF MemTypes
  <2> HIDE DEF f
  <2>3. duser = {} /\ live = {}
    BY <1>0, <2>1 DEF FileHeld, ThreadNumbers
  <2>4. FramesOwned'
    BY <2>1, <2>3 DEF FramesOwned, StacksDone, Building
  <2>5. FileHeld'
    <3>1. j \in Nat /\ j + 1 <= prog.file /\ j + 1 \in LoadPage /\ kload \in [LoadPage -> Int]
      BY <1>0, <1>a, <2>1 DEF MemTypes, LoadPage
    <3>2. \A k \in LoadPage : k <= j + 1 => k <= j \/ k = j + 1
      BY <3>1 DEF LoadPage
    <3>3. \A k \in LoadPage : k <= j => kload[k] \in map \cup {NoBlock}
      BY <1>0, <2>1 DEF FileHeld
    <3>4. \A k \in LoadPage : k <= j' => kload'[k] \in map' \cup {NoBlock}
      BY <2>1, <2>2, <3>1, <3>2, <3>3
    <3>5. QED BY <2>1, <2>3, <3>1, <3>4 DEF FileHeld
  <2>6. QED BY <2>1, <2>4, <2>5 DEF SourceHeld, TablesMade, Loaded
<1>4. CASE RejectFile
  <2>1. phase = "file" /\ phase' = "idle" /\ UNCHANGED <<duser, live>>
    BY <1>4 DEF RejectFile, dirVars, procVars
  <2>2. duser = {} /\ live = {}
    BY <1>0, <2>1 DEF FileHeld, ThreadNumbers
  <2>3. QED BY <2>1, <2>2 DEF FramesOwned, StacksDone, Building, FileHeld, SourceHeld,
            TablesMade, Loaded
<1>5. CASE AcceptFile
  <2>1. /\ phase = "file" /\ j = prog.file /\ phase' = "image" /\ seg' = 1 /\ j' = 0
        /\ UNCHANGED <<map, kpte, kload, dpte, duser, prog, live>>
    BY <1>5 DEF AcceptFile, memVars, kernVars, dirVars, procVars
  <2>2. duser = {} /\ live = {}
    BY <1>0, <2>1 DEF FileHeld, ThreadNumbers
  <2>3. FramesOwned'
    BY <2>1, <2>2 DEF FramesOwned, StacksDone, Building
  <2>4. FileHeld'
    BY <1>0, <2>1, <2>2 DEF FileHeld
  <2>5. QED BY <2>1, <2>3, <2>4 DEF SourceHeld, TablesMade, Loaded
<1>6. QED BY <1>1, <1>2, <1>3, <1>4, <1>5

(* load_elf_relocate maps the first page of a segment with a frame of its  *)
(* own and the others with the same frame.                                 *)
LEMMA HoldImagePage ==
    ASSUME HoldInv, MapImagePage
    PROVE  FramesOwned' /\ FileHeld' /\ SourceHeld' /\ TablesMade'
<1> DEFINE f == MallocBlock(map)  q == ImagePage  src == ImageSource  g == kpte'[src]
<1>0. MemTypes /\ ThreadNumbers /\ FramesOwned /\ FileHeld /\ SourceHeld
  BY DEF HoldInv, MemInv
<1>1. /\ phase = "image" /\ seg <= Len(prog.segs) /\ j <= LastOf(CurSeg) /\ j' = j + 1
      /\ UNCHANGED <<kload, phase, prog, seg, n, live>>
      /\ map' = MallocMap(map) /\ kpde' = TRUE /\ dpde' = DirFlags
      /\ kpte' = [kpte EXCEPT ![q] = f] /\ dpte' = [dpte EXCEPT ![q] = g]
      /\ duser' = duser \cup {q}
  BY DEF MapImagePage, MapBoth, procVars
<1>2. /\ q \in Page /\ src \in Page /\ seg \in DOMAIN prog.segs
      /\ j = 0 => q = src
      /\ j > 0 => q # src
  BY <1>0, <1>1, ImagePageFits
<1>3. /\ map \subseteq map' /\ f \in map' \cup {NoBlock}
      /\ f = NoBlock \/ f \notin map \cup {NoBlock}
  BY <1>0, <1>1, MallocFresh DEF MemTypes
<1>4. q \in SegPages(CurSeg) /\ j \in Nat
  <2>1. prog \in Programs /\ prog.valid /\ j \in Nat
    BY <1>0, <1>1 DEF MemTypes
  <2>2. CurSeg.vaddr \in Nat /\ CurSeg.fsz \in Nat
    BY <1>2, <2>1, ProgramShape DEF CurSeg
  <2>3. PageOf(CurSeg.vaddr) \in Nat /\ LastOf(CurSeg) \in Nat
    BY <2>2, BlockAssumption, DivTimes DEF PageOf, LastOf
  <2>4. QED BY <1>1, <2>1, <2>3 DEF SegPages, ImagePage
<1>5. /\ kpte \in [Page -> Int] /\ dpte \in [Page -> Int] /\ duser \subseteq Page
      /\ live = {} /\ prog.file \in 0..MaxFile
  BY <1>0, <1>1, LayoutAssumption DEF MemTypes, ThreadNumbers
<1>6. ImageSource' = ImageSource /\ CurSeg' = CurSeg
  BY <1>1 DEF ImageSource, CurSeg
<1>7. \A k \in LoadPage : k <= prog.file =>
          /\ kload[k] \in map \cup {NoBlock}
          /\ \A x \in duser : dpte[x] = kload[k] => dpte[x] = NoBlock
  BY <1>0, <1>1 DEF FileHeld
(* The frame that the page gets.                                           *)
<1>8. \/ g = NoBlock
      \/ /\ g \in map' /\ g # NoBlock
         /\ \A x \in duser : dpte[x] = g => x \in SegPages(CurSeg)
         /\ \A k \in LoadPage : k <= prog.file => kload[k] # g
  <2> HIDE DEF f, q, src
  <2>1. CASE j = 0
    <3>1. g = f
      BY <1>1, <1>2, <1>5, <2>1
    <3>2. \A x \in duser : dpte[x] \in map \cup {NoBlock}
      BY <1>0 DEF FramesOwned
    <3> HIDE DEF g
    <3>3. QED BY <1>3, <1>7, <3>1, <3>2
  <2>2. CASE j > 0
    <3>1. g = kpte[src]
      BY <1>1, <1>2, <1>5, <2>2
    <3>2. \/ kpte[src] = NoBlock
          \/ /\ kpte[src] \in map
             /\ \A x \in duser : dpte[x] = kpte[src] => x \in SegPages(CurSeg)
             /\ \A k \in LoadPage : k <= prog.file => kload[k] # kpte[src]
      BY <1>0, <1>1, <2>2 DEF SourceHeld, src
    <3> HIDE DEF g
    <3>3. QED BY <1>3, <3>1, <3>2
  <2>3. QED BY <1>4, <2>1, <2>2
<1> HIDE DEF f, q, src, g
<1>9. /\ \A x \in duser' : (x = q /\ dpte'[x] = g) \/ (x \in duser /\ x # q /\ dpte'[x] = dpte[x])
      /\ dpte'[q] = g
  BY <1>1, <1>2, <1>5
<1>10. FramesOwned'
  <2>1. \A x \in duser' : dpte'[x] \in map' \cup {NoBlock}
    BY <1>0, <1>3, <1>8, <1>9 DEF FramesOwned
  <2>2. StacksDone' = {}
    BY <1>1, <1>5 DEF StacksDone, Building
  <2>3. ASSUME NEW x \in duser', NEW y \in duser', x # y, dpte'[x] = dpte'[y]
        PROVE  dpte'[x] = NoBlock \/ SameSegment(x, y)'
    <3>1. CASE x = q \/ y = q
      <4>1. g = NoBlock \/ (x \in SegPages(CurSeg) /\ y \in SegPages(CurSeg))
        BY <1>4, <1>8, <1>9, <2>3, <3>1 DEF q
      <4>2. dpte'[x] = g
        BY <1>9, <2>3, <3>1
      <4>3. x \in SegPages(CurSeg) /\ y \in SegPages(CurSeg) => SameSegment(x, y)'
        BY <1>1, <1>2 DEF SameSegment, CurSeg
      <4>4. QED BY <4>1, <4>2, <4>3
    <3>2. CASE x # q /\ y # q
      <4>1. x \in duser /\ y \in duser /\ dpte[x] = dpte[y] /\ dpte'[x] = dpte[x]
        BY <1>9, <2>3, <3>2
      <4>2. dpte[x] = NoBlock \/ SameSegment(x, y)
        BY <1>0, <2>3, <4>1 DEF FramesOwned
      <4>3. SameSegment(x, y)' = SameSegment(x, y)
        BY <1>1 DEF SameSegment
      <4>4. QED BY <4>1, <4>2, <4>3
    <3>3. QED BY <3>1, <3>2
  <2>4. QED BY <1>1, <2>1, <2>2, <2>3 DEF FramesOwned
<1>11. FileHeld'
  <2>1. ASSUME NEW k \in LoadPage, k <= prog.file
        PROVE  /\ kload[k] \in map' \cup {NoBlock}
               /\ \A x \in duser' : dpte'[x] = kload[k] => dpte'[x] = NoBlock
    BY <1>3, <1>7, <1>8, <1>9, <2>1
  <2>2. QED BY <1>1, <2>1 DEF FileHeld
<1>12. SourceHeld'
  <2>1. \A x \in duser' : dpte'[x] = g => x \in SegPages(CurSeg) \/ g = NoBlock
    BY <1>4, <1>8, <1>9 DEF q
  <2>2. QED BY <1>1, <1>6, <1>8, <2>1 DEF SourceHeld, g, src
<1>13. TablesMade'
  <2>1. dpde' # "none" /\ kpde'
    BY <1>1 DEF DirFlags
  <2>2. QED BY <2>1 DEF TablesMade
<1>14. QED BY <1>10, <1>11, <1>12, <1>13

(* The other steps of load_elf.                                            *)
LEMMA HoldImage ==
    ASSUME HoldInv, MapImageFails \/ CopySegment \/ UnloadFile
    PROVE  FramesOwned' /\ FileHeld' /\ SourceHeld' /\ TablesMade'
<1>0. MemTypes /\ ThreadNumbers /\ FramesOwned /\ FileHeld /\ SourceHeld /\ TablesMade
  BY DEF HoldInv, MemInv
<1>1. CASE MapImageFails
  <2>1. /\ phase = "image" /\ phase' = "idle" /\ map' = MallocMap(map)
        /\ UNCHANGED <<dpte, duser, prog, live>>
    BY <1>1 DEF MapImageFails, MapBothFails, dirVars, procVars
  <2>2. map \subseteq map'
    BY <1>0, <2>1, MallocFresh DEF MemTypes
  <2>3. StacksDone = {} /\ StacksDone' = {}
    BY <1>0, <2>1 DEF StacksDone, Building, ThreadNumbers
  <2>4. FramesOwned'
    BY <1>0, <2>1, <2>2, <2>3 DEF FramesOwned, SameSegment
  <2>5. QED BY <2>1, <2>4 DEF FileHeld, SourceHeld, TablesMade, Loaded
<1>2. CASE CopySegment
  <2>1. /\ phase = "image" /\ phase' \in {"image", "panic"}
        /\ (phase' = "image" => seg' = seg + 1 /\ j' = 0)
        /\ j > LastOf(CurSeg) /\ seg <= Len(prog.segs)
        /\ UNCHANGED <<map, kpde, kload, dpde, dpte, duser, prog, n, live>>
    BY <1>2 DEF CopySegment, memVars, dirVars, procVars
  <2>2. StacksDone = {} /\ StacksDone' = {}
    BY <1>0, <2>1 DEF StacksDone, Building, ThreadNumbers
  <2>3. FramesOwned'
    BY <1>0, <2>1, <2>2, OwnedSame
  <2>4. FileHeld'
    BY <1>0, <2>1 DEF FileHeld
  <2>5. SourceHeld'
    BY <2>1 DEF SourceHeld
  <2>6. j > 0
    <3>1. prog \in Programs /\ prog.valid /\ j \in Nat /\ seg \in DOMAIN prog.segs
      BY <1>0, <2>1, ProgramShape DEF MemTypes
    <3>2. LastOf(CurSeg) \in Nat
      BY <3>1, ProgramShape, BlockAssumption, DivTimes DEF CurSeg, LastOf
    <3>3. QED BY <2>1, <3>1, <3>2
  <2>7. TablesMade'
    BY <1>0, <2>1, <2>6 DEF TablesMade, Loaded
  <2>8. QED BY <2>3, <2>4, <2>5, <2>7
<1>3. CASE UnloadFile
  <2> DEFINE S == {kload[k] : k \in 1..prog.file}
  <2>1. /\ phase = "image" /\ phase' = "build" /\ seg > Len(prog.segs) /\ j' = 0
        /\ map' = FreeMap(map, S)
        /\ UNCHANGED <<kpde, dpde, dpte, duser, prog, seg, live>>
    BY <1>3 DEF UnloadFile, UnloadMap, dirVars, procVars
  <2>2. prog \in Programs /\ prog.valid /\ live = {}
    BY <1>0, <2>1 DEF MemTypes, ThreadNumbers
  <2>3. Len(prog.segs) >= 1 /\ 1..prog.file \subseteq LoadPage
    BY <2>2, ProgramShape, LayoutAssumption DEF LoadPage
  <2>4. \A q \in duser : dpte[q] \in S => dpte[q] = NoBlock
    BY <1>0, <2>1, <2>3 DEF FileHeld
  <2>5. StacksDone = {} /\ StacksDone' = {}
    <3>1. \A l \in 0..(PagesPerThread - 1) : ~(l < 0)
      OBVIOUS
    <3>2. QED BY <2>1, <2>2, <3>1 DEF StacksDone, Building
  <2>6. 0 <= PagesPerThread
    BY LayoutAssumption DEF PagesPerThread
  <2> HIDE DEF S
  <2>7. \A q \in duser : dpte[q] \in map' \cup {NoBlock}
    BY <1>0, <2>1, <2>4 DEF FramesOwned, FreeMap
  <2>8. FramesOwned'
    BY <1>0, <2>1, <2>5, <2>6, <2>7 DEF FramesOwned, SameSegment
  <2>9. TablesMade'
    BY <1>0, <2>1, <2>3 DEF TablesMade, MemTypes
  <2>10. QED BY <2>1, <2>8, <2>9 DEF FileHeld, SourceHeld
<1>4. QED BY <1>1, <1>2, <1>3

(* build_stack and build_heap map a page of the thread, over a page of the *)
(* image perhaps, with a frame of its own.                                 *)
LEMMA HoldThreadPage ==
    ASSUME HoldInv, MapThreadPage
    PROVE  FramesOwned' /\ FileHeld' /\ SourceHeld' /\ TablesMade'
<1> DEFINE f == MallocBlock(map)  q == ThreadPage(prog, n, j)
<1>0. MemTypes /\ ThreadNumbers /\ FramesOwned
  BY DEF HoldInv, MemInv
<1>1. /\ phase \in {"build", "fork"} /\ j < PagesPerThread /\ j' = j + 1
      /\ UNCHANGED <<kload, phase, prog, seg, n, live>>
      /\ map' = MallocMap(map) /\ kpde' = TRUE /\ dpde' = DirFlags
      /\ kpte' = [kpte EXCEPT ![q] = f] /\ dpte' = [dpte EXCEPT ![q] = kpte'[q]]
      /\ duser' = duser \cup {q}
  BY DEF MapThreadPage, MapBoth, procVars
<1>2. /\ kpte \in [Page -> Int] /\ dpte \in [Page -> Int] /\ duser \subseteq Page
      /\ j \in Nat /\ PagesPerThread \in Nat /\ j \in 0..(PagesPerThread - 1)
  BY <1>0, <1>1, LayoutAssumption DEF MemTypes, PagesPerThread
<1>3. q \in Page
  <2>1. prog \in Programs /\ prog.valid /\ n \in Nat /\ n <= MaxThreads
    BY <1>0, <1>1, LayoutAssumption DEF MemTypes, ThreadNumbers, Loaded
  <2>2. QED BY <1>2, <2>1, ThreadPagesFit
<1>4. /\ map \subseteq map' /\ f \in map' \cup {NoBlock}
      /\ f = NoBlock \/ f \notin map \cup {NoBlock}
  BY <1>0, <1>1, MallocFresh DEF MemTypes
<1>5. \A x : x \in StacksDone' <=> x \in StacksDone \/ x = q
  <2>1. \A l \in 0..(PagesPerThread - 1) : l < j + 1 <=> l < j \/ l = j
    BY <1>2
  <2>2. \A l : l \in Building' <=> l \in Building \/ l = j
    BY <1>1, <1>2, <2>1 DEF Building
  <2>3. QED BY <1>1, <2>2, StacksAre, StacksAreNext
<1> HIDE DEF f, q
<1>6. /\ \A x \in duser' : (x = q /\ dpte'[x] = f) \/ (x \in duser /\ x # q /\ dpte'[x] = dpte[x])
      /\ dpte'[q] = f
  BY <1>1, <1>2, <1>3
<1>7. FramesOwned'
  <2>1. \A x \in duser : dpte[x] \in map \cup {NoBlock}
    BY <1>0 DEF FramesOwned
  <2>2. \A x \in duser' : dpte'[x] \in map' \cup {NoBlock}
    BY <1>4, <1>6, <2>1
  <2>3. ASSUME NEW x \in duser', NEW y \in duser', x # y, dpte'[x] = dpte'[y]
        PROVE  dpte'[x] = NoBlock \/ (SameSegment(x, y)' /\ x \notin StacksDone')
    <3>1. CASE x = q \/ y = q
      BY <1>4, <1>6, <2>1, <2>3, <3>1
    <3>2. CASE x # q /\ y # q
      <4>1. x \in duser /\ y \in duser /\ dpte[x] = dpte[y] /\ dpte'[x] = dpte[x]
        BY <1>6, <2>3, <3>2
      <4>2. dpte[x] = NoBlock \/ (SameSegment(x, y) /\ x \notin StacksDone)
        BY <1>0, <2>3, <4>1 DEF FramesOwned
      <4>3. SameSegment(x, y)' = SameSegment(x, y)
        BY <1>1 DEF SameSegment
      <4>4. QED BY <1>5, <3>2, <4>1, <4>2, <4>3
    <3>3. QED BY <3>1, <3>2
  <2>4. StacksDone' \subseteq duser' /\ j' <= PagesPerThread
    BY <1>0, <1>1, <1>2, <1>5 DEF FramesOwned
  <2>5. QED BY <2>2, <2>3, <2>4 DEF FramesOwned
<1>8. TablesMade'
  <2>1. dpde' # "none" /\ kpde'
    BY <1>1 DEF DirFlags
  <2>2. QED BY <2>1 DEF TablesMade
<1>9. QED BY <1>1, <1>7, <1>8 DEF FileHeld, SourceHeld

(* The steps that start, fork, exit, end and remove.  An exit frees the    *)
(* frames of the thread's pages, which no other page has.                  *)
LEMMA HoldLife ==
    ASSUME HoldInv,
           \/ ThreadBuilt \/ StartThread \/ EndProc \/ Exception \/ RemoveProc
           \/ \E m \in 1..MaxThreads : StopThread(m)
    PROVE  FramesOwned' /\ FileHeld' /\ SourceHeld' /\ TablesMade'
<1>0. MemInv /\ MemTypes /\ ThreadNumbers /\ FramesOwned /\ TablesMade
  BY DEF HoldInv, MemInv
<1>a. PagesPerThread \in Nat
  BY LayoutAssumption DEF PagesPerThread
<1>1. CASE ThreadBuilt
  <2>1. /\ phase \in {"build", "fork"} /\ phase' = "run" /\ j = PagesPerThread
        /\ live' = live \cup {n}
        /\ UNCHANGED <<map, kpde, dpde, dpte, duser, prog, n>>
    BY <1>1 DEF ThreadBuilt, memVars, dirVars, loopVars
  <2>2. Building = 0..(PagesPerThread - 1)
    BY <1>a, <2>1 DEF Building
  <2>3. Building' = {}
    BY <2>1 DEF Building
  <2>4. \A r : r \in StacksDone' <=> r \in StacksDone
    BY <2>1, <2>2, <2>3, StacksAre, StacksAreNext DEF ThreadPages
  <2>5. FramesOwned'
    BY <1>0, <2>1, <2>4, OwnedSame
  <2>6. QED BY <1>0, <2>1, <2>5 DEF FileHeld, SourceHeld, TablesMade, Loaded
<1>2. CASE StartThread
  <2>1. /\ phase = "run" /\ phase' = "fork" /\ j' = 0
        /\ UNCHANGED <<map, kpde, dpde, dpte, duser, prog, live>>
    BY <1>2 DEF StartThread, memVars, kernVars, dirVars, procVars
  <2>2. StacksDone' = StacksDone
    <3>1. \A l \in 0..(PagesPerThread - 1) : ~(l < 0)
      OBVIOUS
    <3>2. QED BY <2>1, <3>1 DEF StacksDone, Building
  <2>3. FramesOwned'
    BY <1>0, <1>a, <2>1, <2>2, OwnedSame
  <2>4. QED BY <1>0, <2>1, <2>3 DEF FileHeld, SourceHeld, TablesMade, Loaded
<1>3. CASE EndProc \/ Exception
  <2>1. /\ phase = "run" /\ phase' \in {"stopped", "halted"}
        /\ UNCHANGED <<map, kpde, dpde, dpte, duser, prog, n, live>>
    BY <1>3 DEF EndProc, Exception, memVars, kernVars, dirVars, loopVars, procVars
  <2>2. StacksDone' = StacksDone
    BY <2>1 DEF StacksDone, Building
  <2>3. FramesOwned'
    BY <1>0, <2>1, <2>2, OwnedSame
  <2>4. QED BY <1>0, <2>1, <2>3 DEF FileHeld, SourceHeld, TablesMade, Loaded
<1>4. CASE RemoveProc
  <2>1. phase' = "idle" /\ duser' = {} /\ live' = {}
    BY <1>4 DEF RemoveProc
  <2>2. QED BY <2>1 DEF FramesOwned, StacksDone, Building, FileHeld, SourceHeld, TablesMade,
            Loaded
<1>5. ASSUME NEW m \in 1..MaxThreads, StopThread(m)
      PROVE  FramesOwned' /\ FileHeld' /\ SourceHeld' /\ TablesMade'
  <2> DEFINE Q == ThreadPages(prog, m)
             S == {dpte[q] : q \in {r \in Q : dpte[r] # NULL}}
  <2>1. /\ phase = "run" /\ m \in live /\ live' = live \ {m}
        /\ map' = FreeMap(map, S) /\ duser' = duser \ Q
        /\ dpte' = [q \in Page |-> IF q \in Q THEN NULL ELSE dpte[q]]
        /\ UNCHANGED <<kpde, dpde, phase, prog, n>>
    BY <1>5 DEF StopThread, VmmUnmap, kernVars, loopVars
  <2>2. Building = {} /\ Building' = {}
    BY <2>1 DEF Building
  <2>3. Q \subseteq StacksDone /\ StacksDone \subseteq duser
    BY <1>0, <2>1, StacksAre DEF FramesOwned
  <2>4. \A l \in live : l # m => Q \cap ThreadPages(prog, l) = {}
    BY <1>0, <2>1, ThreadsDisjoint DEF ThreadNumbers, Loaded
  <2>5. \A r : r \in StacksDone' => r \in StacksDone /\ r \notin Q
    BY <2>1, <2>2, <2>4, StacksAre, StacksAreNext
  <2> HIDE DEF Q
  <2>6. \A x \in duser' : x \in duser /\ x \notin Q /\ dpte'[x] = dpte[x]
    BY <1>0, <2>1 DEF MemTypes
  <2>7. \A x \in duser' : dpte[x] \in S => dpte[x] = NoBlock
    <3>1. SUFFICES ASSUME NEW x \in duser', NEW q \in Q, dpte[x] = dpte[q]
                   PROVE  dpte[x] = NoBlock
      OBVIOUS
    <3>2. q \in duser /\ q \in StacksDone /\ x \in duser /\ q # x
      BY <2>3, <2>6, <3>1
    <3>3. QED BY <1>0, <3>1, <3>2 DEF FramesOwned
  <2> HIDE DEF S
  <2>8. \A x \in duser' : dpte'[x] \in map' \cup {NoBlock}
    BY <1>0, <2>1, <2>6, <2>7 DEF FramesOwned, FreeMap
  <2>9. FramesOwned'
    <3>1. StacksDone' \subseteq duser'
      BY <2>1, <2>3, <2>5
    <3>2. ASSUME NEW x \in duser', NEW y \in duser', x # y, dpte'[x] = dpte'[y]
          PROVE  dpte'[x] = NoBlock \/ (SameSegment(x, y)' /\ x \notin StacksDone')
      <4>1. dpte[x] = NoBlock \/ (SameSegment(x, y) /\ x \notin StacksDone)
        BY <1>0, <2>6, <3>2 DEF FramesOwned
      <4>2. SameSegment(x, y)' = SameSegment(x, y)
        BY <2>1 DEF SameSegment
      <4>3. QED BY <2>5, <2>6, <4>1, <4>2
    <3>3. QED BY <2>1, <2>8, <3>1, <3>2 DEF FramesOwned
  <2>10. QED BY <1>0, <2>1, <2>9 DEF FileHeld, SourceHeld, TablesMade, Loaded
<1>6. QED BY <1>1, <1>2, <1>3, <1>4, <1>5

(* Every step preserves it.                                                *)
LEMMA HoldNext == HoldInv /\ [Next]_vars => HoldInv'
<1>1. SUFFICES ASSUME HoldInv, [Next]_vars PROVE HoldInv'
  OBVIOUS
<1>2. MemInv'
  BY <1>1, MemInvNext DEF HoldInv
<1>3. CASE UNCHANGED vars
  <2>1. UNCHANGED <<map, kpde, kpte, kload, dpde, dpte, duser, phase, prog, seg, j, n, live>>
    BY <1>3 DEF vars, memVars, kernVars, dirVars, loopVars, procVars
  <2>2. StacksDone' = StacksDone /\ ImageSource' = ImageSource /\ CurSeg' = CurSeg
    BY <2>1 DEF StacksDone, Building, ImageSource, CurSeg
  <2>3. FramesOwned'
    BY <1>1, <2>1, <2>2, OwnedSame DEF HoldInv, FramesOwned
  <2>4. FileHeld' /\ TablesMade'
    BY <1>1, <2>1 DEF HoldInv, FileHeld, TablesMade
  <2>5. SourceHeld'
    BY <1>1, <2>1, <2>2 DEF HoldInv, SourceHeld
  <2>6. QED BY <1>2, <2>3, <2>4, <2>5 DEF HoldInv
<1>4. CASE Next
  <2>1. panic => UNCHANGED vars
    BY DEF panic
  <2>2. CASE ~panic
    <3>1. FramesOwned' /\ FileHeld' /\ SourceHeld' /\ TablesMade'
      BY <1>1, <1>4, <2>2, HoldFile, HoldImagePage, HoldImage, HoldThreadPage, HoldLife DEF Next
    <3>2. QED BY <1>2, <3>1 DEF HoldInv
  <2>3. QED BY <1>3, <2>1, <2>2
<1>5. QED BY <1>1, <1>3, <1>4

(* The invariant holds in every state, whatever the programs: segments     *)
(* that overlap, that need several pages or that the stack is mapped over. *)
THEOREM HoldInvariant == Spec => []HoldInv
  BY HoldInit, HoldNext, PTL DEF Spec

(* While a process exists no frame of it is free, and two of its pages     *)
(* share one only within a segment or when memory is full, for all         *)
(* programs, memory sizes and sequences of forks and exits.                *)
THEOREM FramesAreHeld == Spec => []FramesHeld
<1>1. HoldInv => FramesHeld
  BY DEF HoldInv, FramesOwned, FramesHeld
<1>2. QED BY <1>1, HoldInvariant, PTL

(* Once the image is mapped there are page tables for all stacks and heaps *)
(* of the process, however many tables the pool has.                       *)
THEOREM ForksHaveTables == Spec => []ForkHasTables
<1>1. HoldInv => ForkHasTables
  BY DEF HoldInv, TablesMade, ForkHasTables, Loaded
<1>2. QED BY <1>1, HoldInvariant, PTL

-----------------------------------------------------------------------------
(* The refinement of FrameLease, for programs of one-page segments.        *)

(* The frames processes can have are not kernel space, and neither is the  *)
(* block that pmm_malloc returns when memory is full one of them.          *)
LEMMA FrameFacts ==
    /\ Frame \subseteq Scanned /\ Frame \cap BootMap = {} /\ Frame \cap KernelSpace = {}
    /\ NULL \notin Frame /\ NoBlock \notin Frame /\ NULL \in KernelSpace
    /\ NULL # NoBlock
<1>1. KernelSpace \subseteq BootMap
  BY BootReserves
<1>2. NULL \in KernelSpace /\ NoBlock \notin Scanned /\ NoBlock \notin KernelSpace
  BY ScannedBlocks
<1>3. QED BY <1>1, <1>2 DEF Frame

(* What pmm_malloc does, seen from the frames.                             *)
LEMMA MallocFrame ==
    ASSUME KernelSpace \subseteq map, BootMap \cap Scanned \subseteq map
    PROVE  /\ MallocBlock(map) \in Held
           /\ BootMap \cap Scanned \subseteq MallocMap(map)
           /\ \/ /\ MallocBlock(map) \in Frame \ map
                 /\ MallocMap(map) = map \cup {MallocBlock(map)}
              \/ /\ MallocBlock(map) \notin Frame
                 /\ MallocMap(map) = map
<1>1. \/ MallocBlock(map) \in Scanned \ map /\ MallocMap(map) = map \cup {MallocBlock(map)}
      \/ MallocBlock(map) = NoBlock /\ MallocMap(map) = map
  BY Malloc
<1>2. QED BY <1>1, FrameFacts DEF Frame, Held

(* What pmm_free does, seen from the frames.                               *)
LEMMA FreeFrames ==
    ASSUME BootMap \cap Scanned \subseteq map, NEW S, S \subseteq Held
    PROVE  /\ BootMap \cap Scanned \subseteq FreeMap(map, S)
           /\ Frame \cap FreeMap(map, S) = (Frame \cap map) \ S
<1>1. \A x \in S \ KernelSpace : x \in Frame \/ x = NoBlock
  BY FrameFacts DEF Held
<1>2. \A x \in BootMap \cap Scanned : x \notin Frame /\ x # NoBlock
  BY FrameFacts, ScannedBlocks
<1>3. QED BY <1>1, <1>2, FrameFacts DEF FreeMap

(* Membership in Lent.                                                     *)
LEMMA LentIs ==
    ASSUME NEW f
    PROVE  f \in Lent <=> /\ f \in Frame
                          /\ (\E q \in duser : dpte[q] = f) \/ (\E k \in LoadPage : kload[k] = f)
  BY DEF Lent

(* How the lent frames may change in a step.                               *)
LentStep == Lent' \subseteq Lent \/ \E f \in Frame \ Lent : Lent' = Lent \cup {f}

(* A step that changes them so is a step of FrameLease.                    *)
LEMMA LeaseStep ==
    ASSUME NoneLost, NoneLost', LentStep
    PROVE  [Lease!LeaseNext]_(Lease!leaseVars)
<1>1. Frame \ map = Frame \ Lent /\ (Frame \ map)' = Frame \ Lent' /\ Lent \subseteq Frame
  BY DEF NoneLost, Lent
<1>2. CASE Lent' \subseteq Lent
  <2>1. Lent' \in SUBSET Lent /\ (Frame \ map)' = (Frame \ map) \cup (Lent \ Lent')
    BY <1>1, <1>2
  <2>2. QED BY <2>1 DEF Lease!LeaseNext, Lease!GiveBack
<1>3. ASSUME NEW f \in Frame \ Lent, Lent' = Lent \cup {f}
      PROVE  [Lease!LeaseNext]_(Lease!leaseVars)
  <2>1. f \in Frame \ map /\ (Frame \ map)' = (Frame \ map) \ {f}
    BY <1>1, <1>3
  <2>2. Lease!Borrow(f)
    BY <1>3, <2>1 DEF Lease!Borrow
  <2>3. QED BY <2>2 DEF Lease!LeaseNext
<1>4. QED BY <1>2, <1>3 DEF LentStep

(* What a step must keep of the frames.                                    *)
FramesStep == FramesKnown' /\ OneBorrower' /\ NoneLost' /\ LentStep

(* A step that neither maps nor frees anything for the process.            *)
LEMMA FramesSame ==
    ASSUME FramesKnown, OneBorrower, NoneLost,
           UNCHANGED <<map, dpte, duser, kload>>,
           \A q \in Page : kpte'[q] = kpte[q] \/ kpte'[q] = NULL
    PROVE  FramesStep
<1>1. FramesKnown'
  BY DEF FramesKnown, Held
<1>2. OneBorrower'
  BY DEF OneBorrower
<1>3. Lent' = Lent
  BY DEF Lent
<1>4. QED BY <1>1, <1>2, <1>3 DEF FramesStep, NoneLost, LentStep

(* A frame that pmm_malloc has returned is lent to nobody else.            *)
LEMMA FreshFrame ==
    ASSUME KernelSpace \subseteq map, FramesKnown, NoneLost,
           map' = MallocMap(map),
           Lent' = Lent \cup ({MallocBlock(map)} \cap Frame)
    PROVE  NoneLost' /\ LentStep
<1> DEFINE f == MallocBlock(map)
<1>1. \/ f \in Frame \ map /\ map' = map \cup {f}
      \/ f \notin Frame /\ map' = map
  BY MallocFrame DEF FramesKnown
<1>2. Frame \cap map = Lent
  BY DEF NoneLost
<1> HIDE DEF f
<1>3. Lent' = Lent \cup ({f} \cap Frame)
  BY DEF f
<1>4. CASE f \in Frame \ map /\ map' = map \cup {f}
  <2>1. Lent' = Lent \cup {f} /\ f \in Frame \ Lent
    BY <1>2, <1>3, <1>4
  <2>2. Frame \cap map' = Lent'
    BY <1>2, <1>4, <2>1
  <2>3. QED BY <2>1, <2>2 DEF NoneLost, LentStep
<1>5. CASE f \notin Frame /\ map' = map
  BY <1>2, <1>3, <1>5 DEF NoneLost, LentStep
<1>6. QED BY <1>1, <1>4, <1>5

(* Mapping a page that was not mapped: its frame is new.                   *)
LEMMA MapFrames ==
    ASSUME MemTypes, FramesKnown, OneBorrower, NoneLost,
           NEW q \in Page \ duser, MapBoth(q, q), kload' = kload
    PROVE  FramesStep
<1> DEFINE f == MallocBlock(map)
<1>1. /\ map' = MallocMap(map) /\ duser' = duser \cup {q}
      /\ kpte' = [kpte EXCEPT ![q] = f] /\ dpte' = [dpte EXCEPT ![q] = kpte'[q]]
  BY DEF MapBoth
<1>2. f \in Held /\ BootMap \cap Scanned \subseteq map' /\ (f \in Frame => f \notin map)
  BY <1>1, MallocFrame DEF MemTypes, FramesKnown
<1> HIDE DEF f
<1>3. kpte' = [kpte EXCEPT ![q] = f] /\ dpte' = [dpte EXCEPT ![q] = f]
  BY <1>1 DEF MemTypes
<1>4. dpte'[q] = f /\ \A r \in Page : r # q => dpte'[r] = dpte[r]
  BY <1>3 DEF MemTypes
<1>5. duser \subseteq Page /\ \A r \in duser : dpte'[r] = dpte[r] /\ r # q
  BY <1>4 DEF MemTypes
<1>6. FramesKnown'
  BY <1>1, <1>2, <1>3 DEF FramesKnown, MemTypes
<1>7. Lent' = Lent \cup ({f} \cap Frame)
  <2>1. {dpte'[r] : r \in duser'} = {dpte[r] : r \in duser} \cup {f}
    BY <1>1, <1>4, <1>5
  <2>2. Lent' = ({dpte'[r] : r \in duser'} \cup {kload[k] : k \in LoadPage}) \cap Frame
    BY DEF Lent
  <2>3. QED BY <2>1, <2>2 DEF Lent
<1>8. NoneLost' /\ LentStep
  BY <1>1, <1>7, FreshFrame DEF MemTypes, f
<1>9. f \in Frame => (\A r \in duser : dpte[r] # f) /\ (\A k \in LoadPage : kload[k] # f)
  BY <1>2 DEF NoneLost, Lent
<1>10. OneBorrower'
  BY <1>1, <1>4, <1>5, <1>9 DEF OneBorrower
<1>11. QED BY <1>6, <1>8, <1>10 DEF FramesStep

(* Loading a page of the file: its frame is new.                           *)
LEMMA LoadFrames ==
    ASSUME MemTypes, FramesKnown, OneBorrower, NoneLost,
           NEW l \in LoadPage, kload[l] = NULL, map' = MallocMap(map),
           kload' = [kload EXCEPT ![l] = MallocBlock(map)],
           UNCHANGED <<kpte, dpte, duser>>
    PROVE  FramesStep
<1> DEFINE f == MallocBlock(map)
<1>1. f \in Held /\ BootMap \cap Scanned \subseteq map' /\ (f \in Frame => f \notin map)
  BY MallocFrame DEF MemTypes, FramesKnown
<1>2. kload' = [kload EXCEPT ![l] = f]
  OBVIOUS
<1> HIDE DEF f
<1>3. kload'[l] = f /\ \A k \in LoadPage : k # l => kload'[k] = kload[k]
  BY <1>2 DEF MemTypes
<1>4. FramesKnown'
  BY <1>1, <1>3 DEF FramesKnown
<1>5. Lent' = Lent \cup ({f} \cap Frame)
  <2>1. {kload'[k] : k \in LoadPage} \cup {NULL} = {kload[k] : k \in LoadPage} \cup {f, NULL}
    BY <1>3
  <2>2. NULL \notin Frame
    BY FrameFacts
  <2>3. Lent' = ({dpte[r] : r \in duser} \cup {kload'[k] : k \in LoadPage}) \cap Frame
    BY DEF Lent
  <2>4. QED BY <2>1, <2>2, <2>3 DEF Lent
<1>6. NoneLost' /\ LentStep
  BY <1>5, FreshFrame DEF MemTypes, f
<1>7. f \in Frame => (\A r \in duser : dpte[r] # f) /\ (\A k \in LoadPage : kload[k] # f)
  BY <1>1 DEF NoneLost, Lent
<1>8. OneBorrower'
  BY <1>3, <1>7 DEF OneBorrower
<1>9. QED BY <1>4, <1>6, <1>8 DEF FramesStep

(* Freeing frames: what is still lent is what was and is not freed.        *)
LEMMA FreedFrames ==
    ASSUME FramesKnown, NoneLost, NEW S, S \subseteq Held, map' = FreeMap(map, S),
           Lent' = Lent \ S
    PROVE  NoneLost' /\ LentStep /\ BootMap \cap Scanned \subseteq map'
<1>1. Frame \cap map' = (Frame \cap map) \ S /\ BootMap \cap Scanned \subseteq map'
  BY FreeFrames DEF FramesKnown
<1>2. Frame \cap map' = Lent'
  BY <1>1 DEF NoneLost
<1>3. QED BY <1>1, <1>2 DEF NoneLost, LentStep

(* load_elf frees the file: the frames of the image are others.            *)
LEMMA UnloadFrames ==
    ASSUME LeaseInv, UnloadFile
    PROVE  FramesStep /\ \A k \in LoadPage : kload'[k] = NULL
<1>0. MemTypes /\ FramesKnown /\ OneBorrower /\ NoneLost /\ LoadingSpace
  BY DEF LeaseInv, MemInv
<1>1. /\ phase = "image" /\ map' = UnloadMap
      /\ kload' = [k \in LoadPage |-> IF k <= prog.file THEN NULL ELSE kload[k]]
      /\ UNCHANGED <<kpte, dpte, duser, prog>>
  BY DEF UnloadFile, dirVars
<1>2. \A k \in LoadPage : k \in Nat /\ k >= 1 /\ (k > prog.file => kload[k] = NULL)
  BY <1>0, <1>1 DEF LoadPage, LoadingSpace
<1>3. prog.file \in Nat /\ prog.file <= MaxFile /\ MaxFile \in Nat
  BY <1>0, <1>1, ProgramShape, LayoutAssumption DEF MemTypes
<1>4. \A k \in LoadPage : kload'[k] = NULL
  BY <1>1, <1>2, <1>3
<1> DEFINE S == {kload[k] : k \in 1..prog.file}
<1>5. S \subseteq Held /\ S \subseteq {kload[k] : k \in LoadPage}
  BY <1>0, <1>3 DEF FramesKnown, LoadPage
<1>6. {kload[k] : k \in LoadPage} \subseteq S \cup {NULL}
  BY <1>2, <1>3
<1>7. map' = FreeMap(map, S)
  BY <1>1 DEF UnloadMap
<1> HIDE DEF S
<1>8. NULL \notin Frame
  BY FrameFacts
<1>9. Lent' = Lent \ S
  <2>1. Lent' = {dpte[q] : q \in duser} \cap Frame
    <3>1. Lent' = ({dpte[q] : q \in duser} \cup {kload'[k] : k \in LoadPage}) \cap Frame
      BY <1>1 DEF Lent
    <3>2. {kload'[k] : k \in LoadPage} \subseteq {NULL}
      BY <1>4
    <3>3. QED BY <3>1, <3>2, <1>8
  <2>2. \A x \in {dpte[q] : q \in duser} \cap Frame : x \notin S
    BY <1>0, <1>5 DEF OneBorrower
  <2>3. Lent = ({dpte[q] : q \in duser} \cap Frame) \cup (S \cap Frame)
    BY <1>5, <1>6, <1>8 DEF Lent
  <2>4. QED BY <2>1, <2>2, <2>3
<1>10. NoneLost' /\ LentStep /\ BootMap \cap Scanned \subseteq map'
  BY <1>0, <1>5, <1>7, <1>9, FreedFrames
<1>11. FramesKnown'
  BY <1>0, <1>1, <1>4, <1>10 DEF FramesKnown, Held
<1>12. OneBorrower'
  BY <1>0, <1>1, <1>4, <1>8 DEF OneBorrower
<1>13. QED BY <1>4, <1>10, <1>11, <1>12 DEF FramesStep

(* vmm_unmap of pages of the process, stop_thread: other pages have other  *)
(* frames.                                                                 *)
LEMMA UnmapFrames ==
    ASSUME LeaseInv, phase \in Loaded, NEW Q, Q \subseteq duser, VmmUnmap(Q),
           UNCHANGED <<kpte, kload>>
    PROVE  FramesStep
<1>0. MemTypes /\ FramesKnown /\ OneBorrower /\ NoneLost /\ LoadingSpace
  BY DEF LeaseInv, MemInv
<1>1. \A k \in LoadPage : kload[k] = NULL
  BY <1>0 DEF LoadingSpace
<1> DEFINE S == {dpte[q] : q \in {r \in Q : dpte[r] # NULL}}
<1>2. /\ map' = FreeMap(map, S) /\ duser' = duser \ Q
      /\ dpte' = [q \in Page |-> IF q \in Q THEN NULL ELSE dpte[q]]
  BY DEF VmmUnmap
<1>3. NULL \notin Frame
  BY FrameFacts
<1>4. duser \subseteq Page
  BY <1>0 DEF MemTypes
<1>5. S \subseteq Held
  BY <1>0, <1>4 DEF FramesKnown
<1>6. \A q \in duser' : dpte'[q] = dpte[q] /\ q \in duser /\ q \notin Q
  BY <1>2, <1>4
<1>7. Lent' = Lent \ S
  <2>1. Lent' = {dpte[q] : q \in duser \ Q} \cap Frame
    <3>1. Lent' = ({dpte'[q] : q \in duser'} \cup {kload[k] : k \in LoadPage}) \cap Frame
      BY DEF Lent
    <3>2. {dpte'[q] : q \in duser'} = {dpte[q] : q \in duser \ Q}
      BY <1>2, <1>6
    <3>3. {kload[k] : k \in LoadPage} \subseteq {NULL}
      BY <1>1
    <3>4. QED BY <3>1, <3>2, <3>3, <1>3
  <2>2. Lent = {dpte[q] : q \in duser} \cap Frame
    BY <1>1, <1>3 DEF Lent
  <2>3. \A q \in duser \ Q : dpte[q] \in Frame => dpte[q] \notin S
    BY <1>0 DEF OneBorrower
  <2>4. \A q \in Q : dpte[q] \in Frame => dpte[q] \in S
    BY <1>3
  <2> HIDE DEF S
  <2>5. QED BY <2>1, <2>2, <2>3, <2>4
<1>8. NoneLost' /\ LentStep /\ BootMap \cap Scanned \subseteq map'
  <2> HIDE DEF S
  <2>1. QED BY <1>0, <1>2, <1>5, <1>7, FreedFrames
<1>9. FramesKnown'
  BY <1>0, <1>2, <1>8 DEF FramesKnown, Held
<1>10. OneBorrower'
  BY <1>0, <1>6 DEF OneBorrower
<1>11. QED BY <1>8, <1>9, <1>10 DEF FramesStep

(* remove_proc frees every page that is mapped, so nothing is lent.        *)
LEMMA RemoveFrames ==
    ASSUME LeaseInv, RemoveProc, duser \subseteq Removed, Removed \subseteq Page
    PROVE  FramesStep
<1>0. MemTypes /\ FramesKnown /\ OneBorrower /\ NoneLost /\ LoadingSpace
  BY DEF LeaseInv, MemInv
<1> DEFINE S == {dpte[q] : q \in {r \in Removed : dpte[r] # NULL}}
<1>1. /\ phase = "stopped" /\ map' = FreeMap(map, S)
      /\ dpte' = NoFrames /\ duser' = {} /\ UNCHANGED <<kpte, kload>>
  BY DEF RemoveProc, kernVars
<1>2. \A k \in LoadPage : kload[k] = NULL
  BY <1>0, <1>1 DEF LoadingSpace, Loaded
<1>3. NULL \notin Frame
  BY FrameFacts
<1>4. S \subseteq Held
  BY <1>0 DEF FramesKnown
<1>5. Lent' = {}
  BY <1>1, <1>2, <1>3 DEF Lent
<1>6. Lent \subseteq S
  BY <1>2, <1>3 DEF Lent
<1> HIDE DEF S
<1>7. NoneLost' /\ LentStep /\ BootMap \cap Scanned \subseteq map'
  BY <1>0, <1>1, <1>4, <1>5, <1>6, FreedFrames
<1>8. FramesKnown'
  BY <1>0, <1>1, <1>7 DEF FramesKnown, Held, NoFrames
<1>9. OneBorrower'
  BY <1>1, <1>2, <1>3 DEF OneBorrower
<1>10. QED BY <1>7, <1>8, <1>9 DEF FramesStep

(* The image's pages are before the main thread's stack.                   *)
LEMMA ImageFits ==
    ASSUME NEW p \in Programs, p.valid
    PROVE  ImagePages(p) \subseteq Page
<1>1. p.segs \in Seq(Segment) /\ Len(p.segs) >= 1 /\ p.entry \in Nat /\ p.entry < LoadEnd(p)
  BY ProgramShape, LayoutAssumption
<1>2. 1 \in DOMAIN p.segs /\ Len(p.segs) \in DOMAIN p.segs
  BY <1>1
<1>3. p.segs[1] \in Segment /\ p.segs[Len(p.segs)] \in Segment
  BY <1>1, <1>2
<1>4. image_base(p) \in Nat /\ LoadEnd(p) \in Nat
  BY <1>3 DEF image_base, LoadEnd, Segment
<1> DEFINE c == (LoadEnd(p) - p.entry + BlockLen - 1) \div BlockLen
<1>5. c \in Nat /\ BlockLen \in Nat \ {0}
  <2>1. BlockLen \in Nat \ {0}
    BY BlockAssumption
  <2>2. LoadEnd(p) - p.entry + BlockLen - 1 \in Nat
    BY <1>1, <1>4, <2>1
  <2>3. QED BY <2>1, <2>2, DivTimes
<1>6. image_size(p) = c * BlockLen
  BY DEF image_size, RoundUp
<1> HIDE DEF c
<1>7. /\ PageOf(image_base(p) + image_size(p)) = PageOf(image_base(p)) + c
      /\ image_size(p) \div BlockLen = c
  <2>1. \A a \in Nat, b \in Nat \ {0}, d \in Nat :
           (a + d * b) \div b = a \div b + d /\ (d * b) \div b = d
    BY DivPlus
  <2>2. /\ (image_base(p) + c * BlockLen) \div BlockLen = image_base(p) \div BlockLen + c
        /\ (c * BlockLen) \div BlockLen = c
    BY <1>4, <1>5, <2>1
  <2>3. QED BY <1>6, <2>2, Zenon DEF PageOf
<1>8. PageOf(image_base(p)) \in Nat
  BY <1>4, <1>5, DivTimes DEF PageOf
<1>9. StackPage(p, 0) = PageOf(image_base(p)) + c
  BY <1>7, ProgramShape
<1>10. StackPage(p, 0) <= LastPage /\ LastPage \in Nat
  <2>1. 0 \in 0..(PagesPerThread - 1) /\ MaxThreads >= 0 /\ LastPage \in Nat
    BY LayoutAssumption DEF PagesPerThread
  <2>2. ThreadPage(p, 0, 0) \in Page /\ ThreadPage(p, 0, 0) >= StackPage(p, 0)
    BY <2>1, ThreadPagesFit
  <2>3. QED BY <2>1, <2>2, ProgramShape DEF Page
<1>11. \A k \in 0..(c - 1) : PageOf(image_base(p)) + k \in Page
  BY <1>5, <1>8, <1>9, <1>10 DEF Page
<1>12. QED BY <1>7, <1>11 DEF ImagePages

(* What remove_proc unmaps is in the program area.                         *)
LEMMA RemovedFits ==
    ASSUME MemInv, phase \in Loaded
    PROVE  Removed \subseteq Page
<1>1. prog \in Programs /\ prog.valid /\ live \subseteq 0..threads /\ threads \in Nat
      /\ threads <= MaxThreads /\ MaxThreads \in Nat
  BY LayoutAssumption DEF MemInv, MemTypes, ThreadNumbers
<1>2. \A m \in live : m \in Nat /\ m <= MaxThreads
  BY <1>1
<1>3. \A m \in live : ThreadPages(prog, m) \subseteq Page
  BY <1>1, <1>2, ThreadPagesFit DEF ThreadPages
<1>4. QED BY <1>1, <1>3, ImageFits DEF Removed

-----------------------------------------------------------------------------
(* The control part of the invariant.                                      *)

(* With one-page segments, every page of a segment is its first.           *)
LEMMA OnePage ==
    ASSUME OnePageSegments, MemTypes, phase = "image", seg <= Len(prog.segs)
    PROVE  /\ LastOf(CurSeg) = 0 /\ seg \in DOMAIN prog.segs
           /\ ImageSource = SegPage(prog, seg)
           /\ j <= LastOf(CurSeg) => j = 0 /\ ImagePage = SegPage(prog, seg)
<1>1. prog \in Programs /\ prog.valid /\ seg \in Nat /\ seg >= 1 /\ j \in Nat
  BY DEF MemTypes
<1>2. seg \in DOMAIN prog.segs
  BY <1>1, ProgramShape
<1>3. LastOf(CurSeg) = 0
  BY <1>1, <1>2 DEF OnePageSegments, CurSeg
<1>4. ImageSource = SegPage(prog, seg)
  BY DEF ImageSource, SegPage, CurSeg
<1>5. ASSUME j <= LastOf(CurSeg) PROVE j = 0 /\ ImagePage = SegPage(prog, seg)
  <2>1. j = 0
    BY <1>1, <1>3, <1>5
  <2>2. ImagePage = ImageSource
    BY <1>1, <1>5, <2>1, ImagePageFits
  <2>3. QED BY <2>1, <2>2, <1>4
<1>6. QED BY <1>2, <1>3, <1>4, <1>5

(* The page that is mapped next is not mapped yet: a segment's page.       *)
LEMMA SegmentIsNew ==
    ASSUME OnePageSegments, LeaseInv, phase = "image", seg <= Len(prog.segs), j = 0
    PROVE  SegPage(prog, seg) \notin duser
<1>1. prog \in Programs /\ prog.valid /\ seg \in DOMAIN prog.segs /\ live = {}
  BY OnePage DEF LeaseInv, MemInv, MemTypes, ThreadNumbers
<1>2. duser = ImageDone \cup StacksDone
  BY DEF LeaseInv, PagesMapped
<1>3. StacksDone = {}
  BY <1>1 DEF StacksDone, Building
<1>4. ASSUME NEW l \in DOMAIN prog.segs, l < seg, SegPage(prog, l) = SegPage(prog, seg)
      PROVE  FALSE
  <2>1. l = seg
    BY <1>1, <1>4 DEF OnePageSegments
  <2>2. seg \in Int
    BY DEF LeaseInv, MemInv, MemTypes
  <2>3. QED BY <1>4, <2>1, <2>2
<1>5. SegPage(prog, seg) \notin ImageDone
  BY <1>4 DEF ImageDone, Loaded
<1>6. QED BY <1>2, <1>3, <1>5

(* The pages of thread m are neither in the image nor those of others.     *)
LEMMA ThreadPagesApart ==
    ASSUME OnePageSegments, MemInv, phase \in Loaded, NEW m \in Nat, m <= MaxThreads
    PROVE  /\ ThreadPages(prog, m) \cap ImageDone = {}
           /\ \A l \in live : l # m => ThreadPages(prog, m) \cap ThreadPages(prog, l) = {}
<1>1. prog \in Programs /\ prog.valid /\ live \subseteq Nat
  BY DEF MemInv, MemTypes, ThreadNumbers
<1>2. \A k \in DOMAIN prog.segs : SegPage(prog, k) < StackPage(prog, 0)
  BY <1>1 DEF OnePageSegments
<1>3. \A k \in DOMAIN prog.segs : SegPage(prog, k) \in Nat /\ StackPage(prog, 0) \in Nat
  BY <1>1, ProgramShape, BlockAssumption, DivTimes DEF SegPage, PageOf
<1>4. \A a \in 0..(PagesPerThread - 1) :
         ThreadPage(prog, m, a) \in Page /\ ThreadPage(prog, m, a) >= StackPage(prog, 0)
  BY <1>1, ThreadPagesFit
<1>5. Page \subseteq Int
  BY LayoutAssumption DEF Page
<1>6. \A a \in 0..(PagesPerThread - 1), k \in DOMAIN prog.segs :
         ThreadPage(prog, m, a) # SegPage(prog, k)
  BY <1>2, <1>3, <1>4, <1>5
<1>7. ThreadPages(prog, m) \cap ImageDone = {}
  BY <1>6 DEF ThreadPages, ImageDone
<1>8. \A l \in live : l # m => ThreadPages(prog, m) \cap ThreadPages(prog, l) = {}
  BY <1>1, ThreadPagesDiffer DEF ThreadPages
<1>9. QED BY <1>7, <1>8

(* A page that is mapped for a thread was not mapped before.               *)
LEMMA ThreadPageIsNew ==
    ASSUME OnePageSegments, LeaseInv, phase \in {"build", "fork"}, j < PagesPerThread
    PROVE  ThreadPage(prog, n, j) \in Page \ duser
<1> DEFINE q == ThreadPage(prog, n, j)
<1>0. MemInv /\ MemTypes /\ ThreadNumbers /\ PagesMapped
  BY DEF LeaseInv, MemInv
<1>1. /\ prog \in Programs /\ prog.valid /\ n \in Nat /\ n <= MaxThreads /\ j \in Nat
      /\ PagesPerThread \in Nat /\ phase \in Loaded
  BY <1>0, LayoutAssumption DEF MemTypes, ThreadNumbers, Loaded, PagesPerThread
<1>2. j \in 0..(PagesPerThread - 1)
  BY <1>1
<1>3. q \in Page /\ q \in ThreadPages(prog, n)
  BY <1>1, <1>2, ThreadPagesFit DEF ThreadPages
<1>4. \A l \in live : l # n
  BY <1>0 DEF ThreadNumbers
<1>5. q \notin ImageDone /\ \A l \in live : q \notin ThreadPages(prog, l)
  BY <1>0, <1>1, <1>3, <1>4, ThreadPagesApart
<1>6. \A l \in 0..(PagesPerThread - 1) : l < j => ThreadPage(prog, n, l) # q
  BY <1>1, <1>2, ThreadPagesDiffer
<1>7. duser = ImageDone \cup StacksDone
  BY <1>0 DEF PagesMapped
<1> HIDE DEF q
<1>8. \A k \in Building : k \in 0..(PagesPerThread - 1) /\ k < j
  BY DEF Building
<1>9. q \notin StacksDone
  BY <1>5, <1>6, <1>8, StacksAre
<1>10. QED BY <1>3, <1>5, <1>7, <1>9 DEF q

(* Loading, building and forking never run out of page tables.             *)
LEMMA TablesStep ==
    ASSUME OnePageSegments, EnoughTables, LeaseInv, Next, ~panic
    PROVE  TablesInv' /\ ~MapImageFails
<1>0. /\ TablesInv /\ MemTypes /\ ThreadNumbers /\ TableBlocks \in Nat /\ TableBlocks >= 7
  BY LayoutAssumption DEF LeaseInv, MemInv, EnoughTables
<1>1. CASE \E p \in Programs : CreateAddressSpace(p)
  <2>1. /\ phase = "idle" /\ pool + TablesToClone <= TableBlocks
        /\ pool' = pool + TablesToClone /\ dpde' = (IF kpde THEN "super" ELSE "none")
        /\ kpde' = kpde /\ phase' = "file"
    BY <1>1 DEF CreateAddressSpace, kernVars
  <2>2. TablesInv'
    BY <1>0, <2>1 DEF TablesInv, TablesToClone, Loaded
  <2>3. QED BY <2>1, <2>2 DEF MapImageFails
<1>2. CASE NoAddressSpace
  <2>1. /\ phase = "idle" /\ pool + TablesToClone > TableBlocks /\ pool' = TableBlocks
        /\ UNCHANGED <<kpde, dpde, phase, seg, j>>
    BY <1>2 DEF NoAddressSpace, kernVars, dirVars, loopVars
  <2>2. kpde
    BY <1>0, <2>1 DEF TablesInv, TablesToClone
  <2>3. TablesInv'
    BY <1>0, <2>1, <2>2 DEF TablesInv, Loaded
  <2>4. QED BY <2>1, <2>3 DEF MapImageFails
<1>3. CASE LoadFilePage
  <2>1. phase = "file" /\ UNCHANGED <<pool, kpde, dpde, phase>>
    BY <1>3 DEF LoadFilePage, dirVars
  <2>2. QED BY <1>0, <2>1 DEF TablesInv, Loaded, MapImageFails
<1>4. CASE RejectFile
  <2>1. prog.valid
    BY <1>0 DEF OnePageSegments, MemTypes
  <2>2. QED BY <1>4, <2>1 DEF RejectFile
<1>5. CASE AcceptFile
  <2>1. phase = "file" /\ phase' = "image" /\ seg' = 1 /\ j' = 0 /\ UNCHANGED <<pool, kpde, dpde>>
    BY <1>5 DEF AcceptFile, kernVars, dirVars
  <2>2. QED BY <1>0, <2>1 DEF TablesInv, Loaded, MapImageFails
<1>6. ASSUME phase \in {"file", "image"} \cup Loaded
      PROVE  pool + KernTableNeeded + DirTableNeeded <= TableBlocks
  BY <1>0, <1>6 DEF TablesInv, KernTableNeeded, DirTableNeeded
<1>7. ~MapImageFails
  <2>1. phase = "image" => KernTableNeeded \in Nat /\ DirTableNeeded \in Nat /\ pool \in Nat
    BY <1>0 DEF KernTableNeeded, DirTableNeeded, TablesInv
  <2>2. QED BY <1>0, <1>6, <2>1 DEF MapImageFails, MapBothFails
<1>8. ASSUME NEW q, NEW s, MapBoth(q, s), phase \in {"image"} \cup Loaded, phase' = phase
      PROVE  TablesInv'
  <2>1. /\ pool' = pool + KernTableNeeded + DirTableNeeded
        /\ kpde' = TRUE /\ dpde' = (IF dpde = "none" THEN "user" ELSE dpde)
    BY <1>8 DEF MapBoth, DirFlags
  <2>2. pool' \in Nat /\ pool' <= TableBlocks
    BY <1>0, <1>6, <1>8, <2>1 DEF KernTableNeeded, DirTableNeeded, TablesInv
  <2>3. QED BY <1>0, <1>8, <2>1, <2>2 DEF TablesInv, Loaded
<1>9. CASE MapImagePage
  BY <1>7, <1>8, <1>9 DEF MapImagePage
<1>10. CASE MapThreadPage
  BY <1>7, <1>8, <1>10 DEF MapThreadPage, Loaded
<1>11. CASE CopySegment
  <2>1. /\ phase = "image" /\ seg <= Len(prog.segs) /\ j > LastOf(CurSeg)
        /\ phase' \in {"image", "panic"} /\ UNCHANGED <<pool, kpde, dpde>>
    BY <1>11 DEF CopySegment, dirVars
  <2>2. j > 0
    BY <1>0, <2>1, OnePage
  <2>3. QED BY <1>0, <1>7, <2>1, <2>2 DEF TablesInv, Loaded
<1>12. CASE UnloadFile
  <2>1. /\ phase = "image" /\ seg > Len(prog.segs)
        /\ phase' = "build" /\ UNCHANGED <<pool, kpde, dpde>>
    BY <1>12 DEF UnloadFile, dirVars
  <2>2. seg > 1
    <3>1. Len(prog.segs) >= 1 /\ prog.segs \in Seq(Segment) /\ seg \in Nat
      BY <1>0, <2>1, ProgramShape DEF MemTypes
    <3>2. Len(prog.segs) \in Nat
      BY <3>1
    <3>3. QED BY <2>1, <3>1, <3>2
  <2>3. QED BY <1>0, <1>7, <2>1, <2>2 DEF TablesInv, Loaded
<1>13. CASE ThreadBuilt \/ StartThread \/ EndProc \/ Exception
  <2>1. phase \in Loaded /\ phase' \in Loaded /\ UNCHANGED <<pool, kpde, dpde>>
    BY <1>13 DEF ThreadBuilt, StartThread, EndProc, Exception, Loaded, kernVars, dirVars
  <2>2. QED BY <1>0, <1>7, <2>1 DEF TablesInv, Loaded
<1>14. CASE \E m \in 1..MaxThreads : StopThread(m)
  <2>1. phase = "run" /\ UNCHANGED <<pool, kpde, dpde, phase>>
    BY <1>14 DEF StopThread, kernVars
  <2>2. QED BY <1>0, <1>7, <2>1 DEF TablesInv, Loaded
<1>15. CASE RemoveProc
  <2>1. phase = "stopped" /\ phase' = "idle" /\ dpde' = "none" /\ UNCHANGED <<pool, kpde>>
    BY <1>15 DEF RemoveProc, FreeTable, kernVars
  <2>2. QED BY <1>0, <1>7, <2>1 DEF TablesInv, Loaded
<1>16. QED BY <1>1, <1>2, <1>3, <1>4, <1>5, <1>7, <1>9, <1>10, <1>11, <1>12, <1>13, <1>14, <1>15 DEF Next

(* What a step must keep of loading and mapping.                           *)
PagesStep == LoadingSpace' /\ PagesMapped'

(* The steps of start_proc up to the loaded image.                         *)
LEMMA LeaseLoad ==
    ASSUME OnePageSegments, LeaseInv,
           \/ \E p \in Programs : CreateAddressSpace(p)
           \/ NoAddressSpace \/ LoadFilePage \/ AcceptFile
           \/ MapImagePage \/ CopySegment \/ UnloadFile
    PROVE  FramesStep /\ PagesStep
<1>0. /\ MemTypes /\ ThreadNumbers /\ FramesKnown /\ OneBorrower /\ LoadingSpace
      /\ PagesMapped /\ NoneLost
  BY DEF LeaseInv, MemInv
<1>1. ASSUME NEW p \in Programs, CreateAddressSpace(p) PROVE FramesStep /\ PagesStep
  <2>1. /\ phase = "idle" /\ dpte' = kpte /\ duser' = {} /\ phase' = "file"
        /\ prog' = p /\ j' = 0 /\ UNCHANGED <<map, kpte, kload, seg, n, threads, live>>
    BY <1>1 DEF CreateAddressSpace, memVars, kernVars, procVars
  <2>2. live = {} /\ \A k \in LoadPage : kload[k] = NULL
    BY <1>0, <2>1 DEF ThreadNumbers, LoadingSpace
  <2>3. Lent' = {} /\ Lent \subseteq Frame
    BY <2>1, <2>2, FrameFacts DEF Lent
  <2>4. Lent = {}
    <3>1. duser = {}
      BY <1>0, <2>1, <2>2 DEF PagesMapped, ImageDone, StacksDone, Building, Loaded
    <3>2. QED BY <2>2, <3>1, FrameFacts DEF Lent
  <2>5. FramesStep
    BY <1>0, <2>1, <2>2, <2>3, <2>4, FrameFacts
       DEF FramesStep, FramesKnown, OneBorrower, NoneLost, LentStep
  <2>6. 0 <= p.file
    BY LayoutAssumption
  <2>7. LoadingSpace'
    BY <2>1, <2>2, <2>6 DEF LoadingSpace, Loaded
  <2>8. PagesMapped'
    BY <2>1, <2>2 DEF PagesMapped, ImageDone, StacksDone, Building, Loaded
  <2>9. QED BY <2>5, <2>7, <2>8 DEF PagesStep
<1>2. CASE NoAddressSpace
  <2>1. UNCHANGED <<map, kpte, kload, dpte, duser, phase, prog, seg, j, n, threads, live>>
    BY <1>2 DEF NoAddressSpace, memVars, kernVars, dirVars, loopVars, procVars
  <2>2. FramesStep
    BY <1>0, <2>1, FramesSame
  <2>3. LoadingSpace'
    BY <1>0, <2>1 DEF LoadingSpace
  <2>4. PagesMapped'
    BY <1>0, <2>1 DEF PagesMapped, ImageDone, StacksDone, Building
  <2>5. QED BY <2>2, <2>3, <2>4 DEF PagesStep
<1>3. CASE LoadFilePage
  <2>1. /\ phase = "file" /\ j < prog.file /\ j' = j + 1 /\ map' = MallocMap(map)
        /\ kload' = [kload EXCEPT ![j + 1] = MallocBlock(map)]
        /\ UNCHANGED <<kpte, dpte, duser, phase, prog, seg, n, threads, live>>
    BY <1>3 DEF LoadFilePage, dirVars, procVars
  <2>2. prog.file \in 0..MaxFile /\ MaxFile \in Nat /\ j \in Nat
    BY <1>0, LayoutAssumption DEF MemTypes
  <2>3. j + 1 \in LoadPage /\ j + 1 > j /\ j + 1 <= prog.file
    BY <2>1, <2>2 DEF LoadPage
  <2>4. kload[j + 1] = NULL
    BY <1>0, <2>1, <2>3 DEF LoadingSpace
  <2>5. FramesStep
    BY <1>0, <2>1, <2>3, <2>4, LoadFrames
  <2>6. \A k \in LoadPage : k > j + 1 => k > j /\ k # j + 1
    BY <2>2 DEF LoadPage
  <2>7. \A k \in LoadPage : k > j' => kload'[k] = NULL
    BY <1>0, <2>1, <2>3, <2>6 DEF LoadingSpace, MemTypes
  <2>8. LoadingSpace'
    BY <2>1, <2>3, <2>7 DEF LoadingSpace, Loaded
  <2>9. PagesMapped'
    BY <1>0, <2>1 DEF PagesMapped, ImageDone, StacksDone, Building, Loaded
  <2>10. QED BY <2>5, <2>8, <2>9 DEF PagesStep
<1>4. CASE AcceptFile
  <2>1. /\ phase = "file" /\ j = prog.file /\ phase' = "image" /\ seg' = 1 /\ j' = 0
        /\ UNCHANGED <<map, kpte, kload, dpte, duser, prog, n, threads, live>>
    BY <1>4 DEF AcceptFile, memVars, kernVars, dirVars, procVars
  <2>2. FramesStep
    BY <1>0, <2>1, FramesSame
  <2>3. LoadingSpace'
    BY <1>0, <2>1 DEF LoadingSpace, Loaded
  <2>4. \A l \in DOMAIN prog.segs : ~(l < 1)
    BY <1>0, ProgramShape DEF OnePageSegments, MemTypes
  <2>5. PagesMapped'
    BY <1>0, <2>1, <2>4 DEF PagesMapped, ImageDone, StacksDone, Building, Loaded
  <2>6. QED BY <2>2, <2>3, <2>5 DEF PagesStep
<1>5. CASE MapImagePage
  <2>1. /\ phase = "image" /\ seg <= Len(prog.segs) /\ j <= LastOf(CurSeg)
        /\ MapBoth(ImagePage, ImageSource) /\ j' = j + 1
        /\ UNCHANGED <<kload, phase, prog, seg, n, threads, live>>
    BY <1>5 DEF MapImagePage, procVars
  <2> DEFINE q == SegPage(prog, seg)
  <2>2. ImagePage = q /\ ImageSource = q /\ j = 0 /\ seg \in DOMAIN prog.segs
    BY <1>0, <2>1, OnePage
  <2>3. q \notin duser /\ q \in Page
    BY <1>0, <2>1, <2>2, SegmentIsNew, ImagePageFits
  <2>4. MapBoth(q, q)
    BY <2>1, <2>2
  <2> HIDE DEF q
  <2>5. FramesStep
    BY <1>0, <2>1, <2>3, <2>4, MapFrames
  <2>6. LoadingSpace'
    BY <1>0, <2>1 DEF LoadingSpace, Loaded
  <2>7. duser' = duser \cup {q}
    BY <2>4 DEF MapBoth
  <2>8. ImageDone' = ImageDone \cup {q} /\ StacksDone' = StacksDone
    <3>1. StacksDone' = StacksDone
      BY <2>1 DEF StacksDone, Building
    <3>2. \A l \in DOMAIN prog.segs : (l < seg \/ (l = seg /\ j' > 0)) <=>
             (l < seg \/ (l = seg /\ j > 0)) \/ l = seg
      BY <2>1, <2>2
    <3>3. \A r : r \in ImageDone' <=> r \in ImageDone \/ r = q
      <4>1. \A r : r \in ImageDone' <=> \E l \in DOMAIN prog.segs :
                      (l < seg \/ (l = seg /\ j' > 0)) /\ r = SegPage(prog, l)
        BY <2>1 DEF ImageDone, Loaded
      <4>2. \A r : r \in ImageDone <=> \E l \in DOMAIN prog.segs :
                      (l < seg \/ (l = seg /\ j > 0)) /\ r = SegPage(prog, l)
        BY <2>1 DEF ImageDone, Loaded
      <4>3. QED BY <2>2, <3>2, <4>1, <4>2 DEF q
    <3>4. QED BY <3>1, <3>3
  <2>9. PagesMapped'
    BY <1>0, <2>1, <2>7, <2>8 DEF PagesMapped
  <2>10. QED BY <2>5, <2>6, <2>9 DEF PagesStep
<1>6. CASE CopySegment
  <2>1. /\ phase = "image" /\ seg <= Len(prog.segs) /\ j > LastOf(CurSeg)
        /\ \/ phase' = "image" /\ seg' = seg + 1 /\ j' = 0
              /\ kpte' = [q \in Page |-> IF q \in SegPages(CurSeg) THEN NULL ELSE kpte[q]]
           \/ phase' = "panic" /\ kpte' = kpte
        /\ UNCHANGED <<map, kload, dpte, duser, prog, n, threads, live>>
    BY <1>6 DEF CopySegment, memVars, dirVars, procVars
  <2>2. FramesStep
    BY <1>0, <2>1, FramesSame
  <2>3. LoadingSpace'
    BY <1>0, <2>1 DEF LoadingSpace, Loaded
  <2>4. j > 0 /\ seg \in Nat
    BY <1>0, <2>1, OnePage DEF MemTypes
  <2>5. PagesMapped'
    <3>1. CASE phase' = "panic"
      BY <3>1 DEF PagesMapped
    <3>2. CASE phase' = "image" /\ seg' = seg + 1 /\ j' = 0
      <4>0. prog.segs \in Seq(Segment)
        BY <1>0, <2>1, ProgramShape DEF MemTypes
      <4>1. \A l \in DOMAIN prog.segs : (l < seg' \/ (l = seg' /\ j' > 0)) <=>
               (l < seg \/ (l = seg /\ j > 0))
        BY <2>4, <3>2, <4>0
      <4>2. ImageDone' = ImageDone
        BY <2>1, <3>2, <4>1 DEF ImageDone, Loaded
      <4>3. StacksDone' = StacksDone
        BY <2>1, <3>2 DEF StacksDone, Building
      <4>4. QED BY <1>0, <2>1, <3>2, <4>2, <4>3 DEF PagesMapped
    <3>3. QED BY <2>1, <3>1, <3>2
  <2>6. QED BY <2>2, <2>3, <2>5 DEF PagesStep
<1>7. CASE UnloadFile
  <2>1. /\ phase = "image" /\ seg > Len(prog.segs) /\ phase' = "build" /\ j' = 0 /\ n' = 0
        /\ UNCHANGED <<dpte, duser, prog, seg, threads, live>>
    BY <1>7 DEF UnloadFile, dirVars, procVars
  <2>2. FramesStep /\ \A k \in LoadPage : kload'[k] = NULL
    BY <1>7, UnloadFrames
  <2>3. LoadingSpace'
    BY <2>1, <2>2 DEF LoadingSpace, Loaded
  <2>4. prog.segs \in Seq(Segment) /\ seg \in Nat /\ live = {}
    BY <1>0, <2>1, ProgramShape DEF MemTypes, ThreadNumbers
  <2>5. \A l \in DOMAIN prog.segs : l < seg
    BY <2>1, <2>4
  <2>6. ImageDone' = ImageDone
    BY <2>1, <2>5 DEF ImageDone, Loaded
  <2>7. StacksDone' = {} /\ StacksDone = {}
    <3>1. \A l \in 0..(PagesPerThread - 1) : ~(l < 0)
      OBVIOUS
    <3>2. QED BY <2>1, <2>4, <3>1 DEF StacksDone, Building
  <2>8. 0 <= PagesPerThread
    BY LayoutAssumption DEF PagesPerThread
  <2>9. PagesMapped'
    BY <1>0, <2>1, <2>6, <2>7, <2>8 DEF PagesMapped
  <2>10. QED BY <2>2, <2>3, <2>9 DEF PagesStep
<1>8. QED BY <1>1, <1>2, <1>3, <1>4, <1>5, <1>6, <1>7

(* The steps that start, fork, exit, end and remove.                       *)
LEMMA LeaseLife ==
    ASSUME OnePageSegments, LeaseInv,
           \/ MapThreadPage \/ ThreadBuilt \/ StartThread \/ EndProc \/ Exception \/ RemoveProc
           \/ \E m \in 1..MaxThreads : StopThread(m)
    PROVE  FramesStep /\ PagesStep
<1>0. /\ MemInv /\ MemTypes /\ ThreadNumbers /\ FramesKnown /\ OneBorrower /\ LoadingSpace
      /\ PagesMapped /\ NoneLost
  BY DEF LeaseInv, MemInv
<1>1. ASSUME phase \in Loaded, phase' \in Loaded, kload' = kload PROVE LoadingSpace'
  BY <1>0, <1>1 DEF LoadingSpace, Loaded
<1>2. ASSUME phase \in Loaded, phase' \in Loaded, prog' = prog PROVE ImageDone' = ImageDone
  BY <1>2 DEF ImageDone
<1>3. CASE MapThreadPage
  <2> DEFINE q == ThreadPage(prog, n, j)
  <2>1. /\ phase \in {"build", "fork"} /\ j < PagesPerThread
        /\ MapBoth(q, q) /\ j' = j + 1
        /\ UNCHANGED <<kload, phase, prog, seg, n, threads, live>>
    BY <1>3 DEF MapThreadPage, procVars
  <2>2. /\ j \in Nat /\ PagesPerThread \in Nat
    BY <1>0, <2>1, LayoutAssumption DEF MemTypes, PagesPerThread
  <2>3. j \in 0..(PagesPerThread - 1)
    BY <2>1, <2>2
  <2>4. q \in Page
    BY <2>1, ThreadPageIsNew
  <2>5. q \notin duser
    BY <2>1, ThreadPageIsNew
  <2>6. FramesStep
    <3> HIDE DEF q
    <3>1. QED BY <1>0, <2>1, <2>4, <2>5, MapFrames
  <2>7. duser' = duser \cup {q}
    BY <2>1 DEF MapBoth
  <2>8. StacksDone' = StacksDone \cup {q}
    <3>1. Building' = Building \cup {j}
      BY <2>1, <2>2, <2>3 DEF Building
    <3>2. \A r : r \in StacksDone' <=> r \in StacksDone \/ r = q
      BY <2>1, <3>1, StacksAre, StacksAreNext
    <3>3. QED BY <3>2
  <2>9. ImageDone' = ImageDone
    BY <1>2, <2>1 DEF Loaded
  <2>10. j + 1 <= PagesPerThread
    BY <2>1, <2>2
  <2>11. PagesMapped'
    BY <1>0, <2>1, <2>7, <2>8, <2>9, <2>10 DEF PagesMapped
  <2>12. LoadingSpace'
    BY <1>1, <2>1 DEF Loaded
  <2>13. QED BY <2>6, <2>11, <2>12 DEF PagesStep
<1>4. CASE ThreadBuilt
  <2>1. /\ phase \in {"build", "fork"} /\ j = PagesPerThread /\ phase' = "run"
        /\ kpte' = [q \in Page |-> IF q \in Unfilled THEN NULL ELSE kpte[q]]
        /\ live' = live \cup {n}
        /\ UNCHANGED <<map, kload, dpte, duser, prog, seg, j, n>>
    BY <1>4 DEF ThreadBuilt, memVars, dirVars, loopVars
  <2>2. FramesStep
    BY <1>0, <2>1, FramesSame
  <2>3. LoadingSpace' /\ ImageDone' = ImageDone
    BY <1>1, <1>2, <2>1 DEF Loaded
  <2>4. Building = 0..(PagesPerThread - 1) /\ Building' = {}
    BY <2>1, LayoutAssumption DEF Building, PagesPerThread
  <2>5. \A r : r \in ThreadPages(prog, n) <=> \E k \in Building : r = ThreadPage(prog, n, k)
    BY <2>4 DEF ThreadPages
  <2>6. \A r : r \in StacksDone' <=> r \in StacksDone
    BY <2>1, <2>4, <2>5, StacksAre, StacksAreNext
  <2>7. StacksDone' = StacksDone
    BY <2>6
  <2>8. PagesMapped'
    BY <1>0, <2>1, <2>3, <2>7 DEF PagesMapped
  <2>9. QED BY <2>2, <2>3, <2>8 DEF PagesStep
<1>5. CASE StartThread
  <2>1. /\ phase = "run" /\ phase' = "fork" /\ j' = 0
        /\ UNCHANGED <<map, kpte, kload, dpte, duser, prog, seg, threads, live>>
    BY <1>5 DEF StartThread, memVars, kernVars, dirVars, procVars
  <2>2. FramesStep
    BY <1>0, <2>1, FramesSame
  <2>3. LoadingSpace' /\ ImageDone' = ImageDone
    BY <1>1, <1>2, <2>1 DEF Loaded
  <2>4. StacksDone' = StacksDone
    <3>1. \A l \in 0..(PagesPerThread - 1) : ~(l < 0)
      OBVIOUS
    <3>2. QED BY <2>1, <3>1 DEF StacksDone, Building
  <2>5. 0 <= PagesPerThread
    BY LayoutAssumption DEF PagesPerThread
  <2>6. PagesMapped'
    BY <1>0, <2>1, <2>3, <2>4, <2>5 DEF PagesMapped
  <2>7. QED BY <2>2, <2>3, <2>6 DEF PagesStep
<1>6. CASE EndProc \/ Exception
  <2>1. /\ phase = "run" /\ phase' \in {"stopped", "halted"}
        /\ UNCHANGED <<map, kpte, kload, dpte, duser, prog, seg, j, n, threads, live>>
    BY <1>6 DEF EndProc, Exception, memVars, kernVars, dirVars, loopVars, procVars
  <2>2. FramesStep
    BY <1>0, <2>1, FramesSame
  <2>3. LoadingSpace' /\ ImageDone' = ImageDone
    BY <1>1, <1>2, <2>1 DEF Loaded
  <2>4. StacksDone' = StacksDone
    BY <2>1 DEF StacksDone, Building
  <2>5. PagesMapped'
    BY <1>0, <2>1, <2>3, <2>4 DEF PagesMapped
  <2>6. QED BY <2>2, <2>3, <2>5 DEF PagesStep
<1>7. CASE RemoveProc
  <2>1. /\ phase = "stopped" /\ phase' = "idle" /\ duser' = {} /\ live' = {}
        /\ UNCHANGED <<kload, prog>>
    BY <1>7 DEF RemoveProc, kernVars
  <2>2. prog \in Programs /\ prog.valid /\ phase \in Loaded
    BY <1>0, <2>1 DEF MemTypes, Loaded
  <2>3. ImageDone \subseteq ImagePages(prog)
    BY <2>2 DEF ImageDone, OnePageSegments
  <2>4. duser \subseteq Removed
    BY <1>0, <2>1, <2>3 DEF PagesMapped, StacksDone, Building, Removed
  <2>5. FramesStep
    BY <1>0, <1>7, <2>2, <2>4, RemovedFits, RemoveFrames
  <2>6. LoadingSpace'
    BY <1>0, <2>1 DEF LoadingSpace, Loaded
  <2>7. PagesMapped'
    BY <2>1 DEF PagesMapped, ImageDone, StacksDone, Building, Loaded
  <2>8. QED BY <2>5, <2>6, <2>7 DEF PagesStep
<1>8. ASSUME NEW m \in 1..MaxThreads, StopThread(m) PROVE FramesStep /\ PagesStep
  <2> DEFINE Q == ThreadPages(prog, m)
  <2>1. /\ phase = "run" /\ VmmUnmap(Q) /\ m \in live /\ live' = live \ {m}
        /\ UNCHANGED <<kpte, kload, phase, prog, seg, j, n, threads>>
    BY <1>8 DEF StopThread, kernVars, loopVars
  <2>2. phase \in Loaded /\ m \in Nat /\ m <= MaxThreads
    BY <2>1, LayoutAssumption DEF Loaded
  <2>3. Q \cap ImageDone = {} /\ \A l \in live : l # m => Q \cap ThreadPages(prog, l) = {}
    BY <1>0, <2>2, ThreadPagesApart
  <2>4. StacksDone = UNION {ThreadPages(prog, l) : l \in live}
    BY <2>1 DEF StacksDone, Building
  <2>5. StacksDone' = UNION {ThreadPages(prog, l) : l \in live \ {m}}
    BY <2>1 DEF StacksDone, Building
  <2>6. duser = ImageDone \cup StacksDone /\ Q \subseteq duser
    BY <1>0, <2>1, <2>4 DEF PagesMapped
  <2>7. StacksDone' = StacksDone \ Q
    BY <2>1, <2>3, <2>4, <2>5
  <2> HIDE DEF Q
  <2>8. FramesStep
    BY <2>1, <2>2, <2>6, UnmapFrames
  <2>9. LoadingSpace' /\ ImageDone' = ImageDone
    BY <1>1, <1>2, <2>1, <2>2
  <2>10. duser' = ImageDone' \cup StacksDone'
    <3>1. duser' = duser \ Q
      BY <2>1 DEF VmmUnmap
    <3>2. QED BY <2>3, <2>6, <2>7, <2>9, <3>1
  <2>11. PagesMapped'
    BY <2>1, <2>10 DEF PagesMapped
  <2>12. QED BY <2>8, <2>9, <2>11 DEF PagesStep
<1>9. QED BY <1>3, <1>4, <1>5, <1>6, <1>7, <1>8

(* After boot nothing is lent.                                             *)
LEMMA LeaseInvInit == Init => LeaseInv /\ Lease!LeaseInit
<1>1. SUFFICES ASSUME Init PROVE LeaseInv /\ Lease!LeaseInit
  OBVIOUS
<1>2. /\ map = BootMap /\ pool = 2 /\ kpde = FALSE /\ dpde = "none"
      /\ kpte = NoFrames /\ dpte = NoFrames /\ kload = [k \in LoadPage |-> NULL]
      /\ duser = {} /\ phase = "idle" /\ live = {}
  BY <1>1 DEF Init
<1>3. MemInv
  BY <1>1, MemInvInit
<1>4. FramesKnown
  BY <1>2 DEF FramesKnown, NoFrames, Held
<1>5. OneBorrower
  BY <1>2, FrameFacts DEF OneBorrower
<1>6. LoadingSpace
  BY <1>2 DEF LoadingSpace
<1>7. PagesMapped
  BY <1>2 DEF PagesMapped, ImageDone, StacksDone, Building, Loaded
<1>8. TablesInv
  <2>1. TableBlocks \in Nat /\ TableBlocks >= 2
    BY LayoutAssumption
  <2>2. pool \in Nat /\ pool <= TableBlocks /\ pool <= 5
    BY <1>2, <2>1
  <2>3. kpde \in BOOLEAN /\ ~kpde /\ dpde \in {"none", "super", "user"}
    BY <1>2, Zenon
  <2>4. phase \notin Loaded /\ phase # "image"
    BY <1>2 DEF Loaded
  <2>5. QED BY <1>2, <2>2, <2>3, <2>4, Zenon DEF TablesInv
<1>9. Lent = {} /\ Frame \cap map = {}
  BY <1>2, FrameFacts DEF Lent
<1>10. NoneLost
  BY <1>9 DEF NoneLost
<1>11. Lease!LeaseInit
  BY <1>9 DEF Lease!LeaseInit
<1>12. QED BY <1>3, <1>4, <1>5, <1>6, <1>7, <1>8, <1>10, <1>11 DEF LeaseInv

(* Every step preserves the invariant and is a step of FrameLease.         *)
LEMMA LeaseInvNext ==
    ASSUME OnePageSegments, EnoughTables, LeaseInv, [Next]_vars
    PROVE  LeaseInv' /\ [Lease!LeaseNext]_(Lease!leaseVars)
<1>1. CASE Next /\ ~panic
  <2>1. MemInv'
    BY MemInvNext DEF LeaseInv
  <2>2. TablesInv' /\ ~MapImageFails
    BY <1>1, TablesStep
  <2>3. ~RejectFile
    BY DEF RejectFile, OnePageSegments, LeaseInv, MemInv, MemTypes
  <2>4. FramesStep /\ PagesStep
    BY <1>1, <2>2, <2>3, LeaseLoad, LeaseLife DEF Next
  <2>5. LeaseInv'
    BY <2>1, <2>2, <2>4 DEF LeaseInv, FramesStep, PagesStep
  <2>6. QED BY <2>4, <2>5, LeaseStep DEF FramesStep, LeaseInv
<1>2. CASE UNCHANGED vars
  <2>1. UNCHANGED <<map, pool, kpde, kpte, kload, dpde, dpte, duser, phase, prog, seg, j, n, threads, live>>
    BY <1>2 DEF vars, memVars, kernVars, dirVars, loopVars, procVars
  <2>2. MemInv'
    BY MemInvNext DEF LeaseInv
  <2>3. FramesStep
    BY <2>1, FramesSame DEF LeaseInv
  <2>4. LoadingSpace' /\ PagesMapped'
    BY <2>1 DEF LeaseInv, LoadingSpace, PagesMapped, ImageDone, StacksDone, Building
  <2>5. TablesInv'
    BY <2>1 DEF LeaseInv, TablesInv
  <2>6. LeaseInv'
    BY <2>2, <2>3, <2>4, <2>5 DEF LeaseInv, FramesStep
  <2>7. QED BY <2>3, <2>6, LeaseStep DEF FramesStep, LeaseInv
<1>3. QED BY <1>1, <1>2 DEF panic

(* The invariant holds in every state, for programs whose segments fit in  *)
(* a page and a pool with room for the tables of one process.              *)
THEOREM LeaseInvariant ==
    ASSUME OnePageSegments, EnoughTables
    PROVE  Spec => []LeaseInv
<1>1. Init => LeaseInv
  BY LeaseInvInit
<1>2. LeaseInv /\ [Next]_vars => LeaseInv'
  BY LeaseInvNext
<1>3. QED BY <1>1, <1>2, PTL DEF Spec

(* Then starting, forking, exiting and removing implement FrameLease: no   *)
(* frame is lost and none has two borrowers, for every memory size and     *)
(* when memory is full, too.                                               *)
THEOREM RefinesLease ==
    ASSUME OnePageSegments, EnoughTables
    PROVE  Spec => ImplementsLease
<1>1. Init => Lease!LeaseInit
  BY LeaseInvInit
<1>2. LeaseInv /\ [Next]_vars => [Lease!LeaseNext]_(Lease!leaseVars)
  BY LeaseInvNext
<1>3. QED BY <1>1, <1>2, LeaseInvariant, PTL DEF Spec, ImplementsLease, Lease!LeaseSpec

-----------------------------------------------------------------------------
(* meminfo's figure.                                                       *)

(* pmm_init counts finitely many blocks.                                   *)
LEMMA InitialUsedInt == InitialUsed \in Int
<1> DEFINE A == AvailableRegions
           F == [k \in A |-> {k} \X pmm_init_reg(Regions[k])]
           G == {{k} \X pmm_init_reg(Regions[k]) : k \in A}
<1>1. /\ Regions \in Seq(Region)
      /\ BlockLen \in Nat \ {0} /\ MaxBlocks \in Nat /\ KernelBlocks \in Nat
  BY BlockAssumption, RegionsAssumption
<1>2. IsFiniteSet(A)
  <2>1. A \in SUBSET (1..Len(Regions)) /\ Len(Regions) \in Nat
    BY <1>1 DEF AvailableRegions
  <2>2. IsFiniteSet(1..Len(Regions))
    BY <2>1, FS_Interval
  <2>3. QED BY <2>1, <2>2, FS_Subset
<1>3. \A k \in A : IsFiniteSet({k} \X pmm_init_reg(Regions[k]))
  <2>1. SUFFICES ASSUME NEW k \in A PROVE IsFiniteSet({k} \X pmm_init_reg(Regions[k]))
    OBVIOUS
  <2>2. Regions[k] \in Region
    BY <1>1, <2>1 DEF AvailableRegions
  <2> DEFINE a == Regions[k].addr_low \div BlockLen  l == Regions[k].len_low \div BlockLen
  <2>3. a \in Int /\ l \in Int
    BY <1>1, <2>2, DivInt DEF Region
  <2>4. pmm_init_reg(Regions[k]) = a..(a + l - 1)
    BY DEF pmm_init_reg
  <2> HIDE DEF a, l
  <2>5. IsFiniteSet(a..(a + l - 1))
    BY <2>3, FS_Interval
  <2>6. QED BY <2>4, <2>5, FS_Singleton, FS_Product
<1>4. F \in Surjection(A, G)
  BY DEF Surjection
<1>5. IsFiniteSet(G)
  BY <1>2, <1>4, FS_Surjection
<1>6. IsFiniteSet(UNION G)
  BY <1>3, <1>5, FS_UNION
<1>7. Cardinality(UNION G) \in Nat
  BY <1>6, FS_CardinalityType
<1>8. QED BY <1>1, <1>7 DEF InitialUsed

(* The pages of the file, and both counts.                                 *)
FilePages == {k \in LoadPage : kload[k] # NULL}

(* What a process has mapped or loaded is finite.                          *)
LEMMA HeldFinite ==
    ASSUME duser \subseteq Page
    PROVE  /\ IsFiniteSet(duser) /\ Cardinality(duser) \in Nat
           /\ IsFiniteSet(FilePages) /\ Cardinality(FilePages) \in Nat
<1>1. IsFiniteSet(Page) /\ IsFiniteSet(LoadPage)
  BY LayoutAssumption, FS_Interval DEF Page, LoadPage
<1>2. duser \in SUBSET Page /\ FilePages \in SUBSET LoadPage
  BY DEF FilePages
<1>3. QED BY <1>1, <1>2, FS_Subset, FS_CardinalityType

(* The counter follows the pages held, modulo its width.                   *)
LEMMA CountFollows ==
    ASSUME CountExact, duser \subseteq Page, NEW d \in Int, PagesHeld' = PagesHeld + d,
           used_blocks' = (used_blocks + d) % CountMod
    PROVE  CountExact'
<1> DEFINE a == InitialUsed + 2 + PagesHeld
<1>1. PagesHeld \in Nat
  BY HeldFinite DEF PagesHeld, FilePages
<1>2. a \in Int /\ CountMod \in Nat \ {0}
  BY <1>1, InitialUsedInt, BlockAssumption
<1>3. InitialUsed' = InitialUsed
  BY DEF InitialUsed, AvailableRegions, pmm_init_reg
<1>4. InitialUsed + 2 + (PagesHeld + d) = a + d
  BY <1>1, InitialUsedInt
<1>5. used_blocks = a % CountMod
  BY DEF CountExact
<1> HIDE DEF a
<1>6. ((a % CountMod) + d) % CountMod = (a + d) % CountMod
  BY <1>2, ModPlus
<1>7. QED BY <1>3, <1>4, <1>5, <1>6 DEF CountExact

(* A page that is mapped for the process for the first time.               *)
LEMMA CountMapped ==
    ASSUME CountExact, duser \subseteq Page, NEW q \in Page \ duser, MapBoth(q, q), kload' = kload
    PROVE  CountExact'
<1>1. duser' = duser \cup {q} /\ used_blocks' = (used_blocks + 1) % CountMod
  BY DEF MapBoth, MallocCount
<1>2. Cardinality(duser') = Cardinality(duser) + 1
  BY <1>1, HeldFinite, FS_AddElement
<1>3. Cardinality(duser) \in Nat /\ Cardinality(FilePages) \in Nat
  BY HeldFinite
<1>4. PagesHeld' = PagesHeld + 1
  BY <1>2, <1>3 DEF PagesHeld, FilePages
<1>5. QED BY <1>1, <1>4, CountFollows

(* Pages that are unmapped.                                                *)
LEMMA CountUnmapped ==
    ASSUME CountExact, FramesOutside, duser \subseteq Page, NEW Q, Q \subseteq duser,
           duser' = duser \ Q, kload' = kload,
           used_blocks' = FreeCount(used_blocks, Cardinality({q \in Q : dpte[q] # NULL}))
    PROVE  CountExact'
<1>1. {q \in Q : dpte[q] # NULL} = Q
  BY ScannedBlocks DEF FramesOutside
<1>2. Q = duser \cap Q
  OBVIOUS
<1>3. Cardinality(duser') = Cardinality(duser) - Cardinality(Q)
  <2>1. Cardinality(duser \ Q) = Cardinality(duser) - Cardinality(duser \cap Q)
    BY HeldFinite, FS_Difference
  <2>2. QED BY <1>2, <2>1
<1>4. Cardinality(duser) \in Nat /\ Cardinality(FilePages) \in Nat /\ Cardinality(Q) \in Nat
  <2>1. Q \in SUBSET duser
    OBVIOUS
  <2>2. QED BY <2>1, HeldFinite, FS_Subset, FS_CardinalityType
<1>5. PagesHeld' = PagesHeld + (0 - Cardinality(Q))
  BY <1>3, <1>4 DEF PagesHeld, FilePages
<1>6. PagesHeld \in Int
  BY <1>4 DEF PagesHeld, FilePages
<1>7. \A u : u \in Int => u - Cardinality(Q) = u + (0 - Cardinality(Q))
  BY <1>4
<1>8. used_blocks \in Int
  <2>1. InitialUsed + 2 + PagesHeld \in Int /\ CountMod \in Nat \ {0}
    BY <1>6, InitialUsedInt, BlockAssumption
  <2>2. QED BY <2>1, DivMod DEF CountExact
<1>9. used_blocks' = (used_blocks + (0 - Cardinality(Q))) % CountMod
  BY <1>1, <1>7, <1>8 DEF FreeCount
<1>10. QED BY <1>4, <1>5, <1>9, CountFollows

(* The steps that load a program.                                          *)
LEMMA CountLoad ==
    ASSUME OnePageSegments, LeaseInv, CountInv,
           \/ \E p \in Programs : CreateAddressSpace(p)
           \/ NoAddressSpace \/ LoadFilePage \/ AcceptFile
           \/ MapImagePage \/ CopySegment \/ UnloadFile
    PROVE  CountInv'
<1>0. /\ MemTypes /\ ThreadNumbers /\ LoadingSpace /\ PagesMapped /\ CountExact /\ FileLoaded
      /\ duser \subseteq Page
  BY DEF LeaseInv, MemInv, MemTypes, CountInv
<1>a. ASSUME UNCHANGED <<used_blocks, duser, kload>> PROVE CountExact'
  BY <1>0, <1>a DEF CountExact, PagesHeld
<1>1. ASSUME NEW p \in Programs, CreateAddressSpace(p) PROVE CountInv'
  <2>1. phase = "idle" /\ phase' = "file" /\ j' = 0 /\ duser' = {}
        /\ UNCHANGED <<used_blocks, kload, live>>
    BY <1>1 DEF CreateAddressSpace, memVars, kernVars, procVars
  <2>2. duser = {}
    BY <1>0, <2>1 DEF PagesMapped, ImageDone, StacksDone, Building, Loaded, ThreadNumbers
  <2>3. \A k \in LoadPage : ~(k <= 0)
    BY DEF LoadPage
  <2>4. QED BY <1>a, <2>1, <2>2, <2>3 DEF CountInv, FileLoaded
<1>2. CASE NoAddressSpace
  <2>1. UNCHANGED <<used_blocks, duser, kload, phase, j, prog>>
    BY <1>2 DEF NoAddressSpace, memVars, kernVars, dirVars, loopVars
  <2>2. QED BY <1>0, <1>a, <2>1 DEF CountInv, FileLoaded
<1>3. CASE LoadFilePage
  <2> DEFINE f == MallocBlock(map)
  <2>1. /\ phase = "file" /\ j < prog.file /\ j' = j + 1 /\ kload' = [kload EXCEPT ![j + 1] = f]
        /\ used_blocks' = (used_blocks + 1) % CountMod
        /\ UNCHANGED <<duser, phase, prog>>
    BY <1>3 DEF LoadFilePage, dirVars, MallocCount
  <2>2. j \in Nat /\ j + 1 \in LoadPage /\ kload \in [LoadPage -> Int]
    <3>1. prog.file \in 0..MaxFile /\ MaxFile \in Nat
      BY <1>0, LayoutAssumption DEF MemTypes
    <3>2. QED BY <1>0, <2>1, <3>1 DEF MemTypes, LoadPage
  <2>3. f # NULL
    BY <1>0, Malloc, ScannedBlocks DEF MemTypes
  <2> HIDE DEF f
  <2>4. kload[j + 1] = NULL
    BY <1>0, <2>1, <2>2 DEF LoadingSpace
  <2>5. FilePages' = FilePages \cup {j + 1} /\ j + 1 \notin FilePages
    BY <2>1, <2>2, <2>3, <2>4 DEF FilePages
  <2>6. Cardinality(FilePages') = Cardinality(FilePages) + 1
    BY <1>0, <2>5, HeldFinite, FS_AddElement
  <2>7. Cardinality(duser) \in Nat /\ Cardinality(FilePages) \in Nat
    BY <1>0, HeldFinite
  <2>8. PagesHeld' = PagesHeld + 1
    BY <2>1, <2>6, <2>7 DEF PagesHeld, FilePages
  <2>9. CountExact'
    BY <1>0, <2>1, <2>8, CountFollows
  <2>10. \A k \in LoadPage : k <= j + 1 => k <= j \/ k = j + 1
    BY <2>2 DEF LoadPage
  <2>11. FileLoaded'
    BY <1>0, <2>1, <2>2, <2>3, <2>10 DEF FileLoaded
  <2>12. QED BY <2>9, <2>11 DEF CountInv
<1>4. CASE AcceptFile
  <2>1. phase = "file" /\ j = prog.file /\ phase' = "image"
        /\ UNCHANGED <<used_blocks, duser, kload, prog>>
    BY <1>4 DEF AcceptFile, memVars, kernVars, dirVars
  <2>2. QED BY <1>0, <1>a, <2>1 DEF CountInv, FileLoaded
<1>5. CASE MapImagePage
  <2>1. /\ phase = "image" /\ seg <= Len(prog.segs) /\ j <= LastOf(CurSeg)
        /\ MapBoth(ImagePage, ImageSource) /\ UNCHANGED <<kload, phase, prog>>
    BY <1>5 DEF MapImagePage
  <2>2. /\ ImagePage = SegPage(prog, seg) /\ ImageSource = SegPage(prog, seg) /\ j = 0
        /\ ImagePage \in Page
    BY <1>0, <2>1, OnePage, ImagePageFits
  <2>3. ImagePage \notin duser
    BY <2>1, <2>2, SegmentIsNew
  <2>4. MapBoth(ImagePage, ImagePage)
    BY <2>1, <2>2
  <2>5. CountExact'
    BY <1>0, <2>1, <2>2, <2>3, <2>4, CountMapped
  <2>6. QED BY <1>0, <2>1, <2>5 DEF CountInv, FileLoaded
<1>6. CASE CopySegment
  <2>1. phase = "image" /\ phase' \in {"image", "panic"}
        /\ UNCHANGED <<used_blocks, duser, kload, prog>>
    BY <1>6 DEF CopySegment, memVars, dirVars
  <2>2. QED BY <1>0, <1>a, <2>1 DEF CountInv, FileLoaded
<1>7. CASE UnloadFile
  <2>1. /\ phase = "image" /\ phase' = "build" /\ duser' = duser
        /\ used_blocks' = (used_blocks - prog.file) % CountMod
        /\ kload' = [k \in LoadPage |-> IF k <= prog.file THEN NULL ELSE kload[k]]
    BY <1>7 DEF UnloadFile, dirVars, FreeCount
  <2>2. prog.file \in Nat /\ prog.file <= MaxFile /\ MaxFile \in Nat
    BY <1>0, LayoutAssumption DEF MemTypes
  <2>3. FilePages = 1..prog.file
    <3>1. \A k \in LoadPage : kload[k] # NULL <=> k <= prog.file
      BY <1>0, <2>1, <2>2 DEF LoadingSpace, FileLoaded, LoadPage
    <3>2. QED BY <2>2, <3>1 DEF FilePages, LoadPage
  <2>4. FilePages' = {}
    BY <1>0, <2>1, <2>2 DEF FilePages, LoadingSpace, LoadPage
  <2>5. Cardinality(FilePages) = prog.file /\ Cardinality(FilePages') = 0
    BY <2>2, <2>3, <2>4, FS_Interval, FS_EmptySet
  <2>6. Cardinality(duser) \in Nat
    BY <1>0, HeldFinite
  <2>7. PagesHeld' = PagesHeld + (0 - prog.file) /\ PagesHeld \in Int
    BY <2>1, <2>2, <2>5, <2>6 DEF PagesHeld, FilePages
  <2>8. used_blocks \in Int
    <3>1. InitialUsed + 2 + PagesHeld \in Int /\ CountMod \in Nat \ {0}
      BY <2>7, InitialUsedInt, BlockAssumption
    <3>2. QED BY <1>0, <3>1, DivMod DEF CountExact
  <2>9. used_blocks' = (used_blocks + (0 - prog.file)) % CountMod
    <3>1. used_blocks - prog.file = used_blocks + (0 - prog.file)
      BY <2>2, <2>8
    <3>2. QED BY <2>1, <3>1
  <2>10. CountExact'
    BY <1>0, <2>2, <2>7, <2>9, CountFollows
  <2>11. QED BY <2>1, <2>10 DEF CountInv, FileLoaded
<1>8. QED BY <1>1, <1>2, <1>3, <1>4, <1>5, <1>6, <1>7

(* The steps that start, fork, exit, end and remove.                       *)
LEMMA CountLife ==
    ASSUME OnePageSegments, NoGaps, LeaseInv, CountInv,
           \/ MapThreadPage \/ ThreadBuilt \/ StartThread \/ EndProc \/ Exception \/ RemoveProc
           \/ \E m \in 1..MaxThreads : StopThread(m)
    PROVE  CountInv'
<1>0. /\ MemInv /\ MemTypes /\ ThreadNumbers /\ FramesOutside /\ PagesMapped /\ CountExact
      /\ duser \subseteq Page
  BY DEF LeaseInv, MemInv, MemTypes, CountInv
<1>1. CASE MapThreadPage
  <2> DEFINE q == ThreadPage(prog, n, j)
  <2>1. /\ phase \in {"build", "fork"} /\ j < PagesPerThread
        /\ MapBoth(q, q) /\ UNCHANGED <<kload, phase>>
    BY <1>1 DEF MapThreadPage
  <2>2. q \in Page \ duser
    BY <2>1, ThreadPageIsNew
  <2> HIDE DEF q
  <2>3. CountExact'
    BY <1>0, <2>1, <2>2, CountMapped
  <2>4. QED BY <2>1, <2>3 DEF CountInv, FileLoaded
<1>2. CASE ThreadBuilt \/ StartThread \/ EndProc \/ Exception
  <2>1. /\ phase' \in {"run", "fork", "stopped", "halted"}
        /\ UNCHANGED <<used_blocks, duser, kload>>
    BY <1>2 DEF ThreadBuilt, StartThread, EndProc, Exception, memVars, kernVars, dirVars
  <2>2. QED BY <1>0, <2>1 DEF CountInv, FileLoaded, CountExact, PagesHeld
<1>3. CASE RemoveProc
  <2>1. /\ phase = "stopped" /\ phase' = "idle" /\ duser' = {} /\ kload' = kload
        /\ used_blocks' = FreeCount(used_blocks, Cardinality({q \in Removed : dpte[q] # NULL}))
    BY <1>3 DEF RemoveProc, kernVars
  <2>2. prog \in Programs /\ phase \in Loaded
    BY <1>0, <2>1 DEF MemTypes, Loaded
  <2>3. ImageDone = {SegPage(prog, k) : k \in DOMAIN prog.segs}
    BY <2>2 DEF ImageDone
  <2>4. ImagePages(prog) = ImageDone
    BY <2>2, <2>3 DEF NoGaps, OnePageSegments
  <2>5. Removed = duser
    BY <1>0, <2>1, <2>4 DEF PagesMapped, StacksDone, Building, Removed
  <2>6. duser' = duser \ duser
    BY <2>1
  <2>7. CountExact'
    BY <1>0, <2>1, <2>5, <2>6, CountUnmapped
  <2>8. QED BY <2>1, <2>7 DEF CountInv, FileLoaded
<1>4. ASSUME NEW m \in 1..MaxThreads, StopThread(m) PROVE CountInv'
  <2> DEFINE Q == ThreadPages(prog, m)
  <2>1. /\ phase = "run" /\ m \in live /\ duser' = duser \ Q /\ UNCHANGED <<kload, phase>>
        /\ used_blocks' = FreeCount(used_blocks, Cardinality({q \in Q : dpte[q] # NULL}))
    BY <1>4 DEF StopThread, VmmUnmap, kernVars
  <2>2. Q \subseteq duser
    BY <1>0, <2>1 DEF PagesMapped, StacksDone
  <2> HIDE DEF Q
  <2>3. CountExact'
    BY <1>0, <2>1, <2>2, CountUnmapped
  <2>4. QED BY <2>1, <2>3 DEF CountInv, FileLoaded
<1>5. QED BY <1>1, <1>2, <1>3, <1>4

(* After boot.                                                             *)
LEMMA CountInit == Init => CountInv
<1>1. SUFFICES ASSUME Init PROVE CountInv
  OBVIOUS
<1>2. duser = {} /\ kload = [k \in LoadPage |-> NULL] /\ phase = "idle"
      /\ used_blocks = (InitialUsed + 2) % CountMod
  BY <1>1 DEF Init
<1>3. FilePages = {}
  BY <1>2 DEF FilePages
<1>4. PagesHeld = 0
  BY <1>2, <1>3, FS_EmptySet DEF PagesHeld, FilePages
<1>5. InitialUsed + 2 + 0 = InitialUsed + 2
  BY InitialUsedInt
<1>6. QED BY <1>2, <1>4, <1>5 DEF CountInv, CountExact, FileLoaded

(* meminfo is exact: for one-page segments without gaps between them, the  *)
(* counter of used blocks is, modulo its width, what it was after boot and *)
(* one for each page that is mapped or loaded, whatever was started,       *)
(* forked, stopped and removed, and when memory was full, too.             *)
THEOREM CountIsExact ==
    ASSUME OnePageSegments, NoGaps, EnoughTables
    PROVE  Spec => []CountExact
<1>1. ASSUME LeaseInv, CountInv, [Next]_vars PROVE CountInv'
  <2>1. CASE UNCHANGED vars
    BY <1>1, <2>1 DEF vars, memVars, kernVars, dirVars, loopVars, CountInv, CountExact, PagesHeld,
       FileLoaded
  <2>2. CASE Next /\ ~panic
    <3>1. ~MapImageFails
      BY <1>1, <2>2, TablesStep
    <3>2. ~RejectFile
      BY <1>1 DEF RejectFile, OnePageSegments, LeaseInv, MemInv, MemTypes
    <3>3. QED BY <1>1, <2>2, <3>1, <3>2, CountLoad, CountLife DEF Next
  <2>3. QED BY <1>1, <2>1, <2>2 DEF panic
<1>2. CountInv => CountExact
  BY DEF CountInv
<1>3. QED BY <1>1, <1>2, CountInit, LeaseInvariant, PTL DEF Spec

-----------------------------------------------------------------------------
(* The place of the main thread's stack.                                   *)

(* Programs whose first segment begins on a page, with the entry point at  *)
(* its beginning, and whose last segment ends last, like those in apps/:   *)
(* they begin at 8 MB with main.                                           *)
Orderly ==
    \A p \in Programs : p.valid =>
        /\ p.entry = image_base(p) /\ image_base(p) % BlockLen = 0
        /\ \A k \in DOMAIN p.segs : p.segs[k].vaddr + p.segs[k].msz <= LoadEnd(p)

(* For such programs the stack and heap of the main thread begin after     *)
(* everything that load_elf_relocate writes.                               *)
THEOREM StacksFollowImage ==
    ASSUME Orderly
    PROVE  Spec => []StackAfterImage
<1>1. ASSUME NEW p \in Programs, p.valid, NEW k \in DOMAIN p.segs
      PROVE  Written(p.segs[k]) \cap ThreadPages(p, 0) = {}
  <2> DEFINE B == BlockLen  b == image_base(p)  e == LoadEnd(p)  s == p.segs[k]
             w == (e - b + B - 1) \div B  c == b \div B
  <2>1. /\ p.segs \in Seq(Segment) /\ Len(p.segs) >= 1 /\ B \in Nat \ {0}
        /\ StackPage(p, 0) = PageOf(b + image_size(p))
    BY <1>1, ProgramShape, BlockAssumption
  <2>2. \A i \in DOMAIN p.segs : p.segs[i].vaddr \in Nat /\ p.segs[i].msz \in Nat \ {0}
    <3>1. \A i \in DOMAIN p.segs : p.segs[i] \in Segment
      BY <2>1
    <3>2. QED BY <3>1 DEF Segment
  <2>3. b \in Nat /\ e \in Nat /\ b < e /\ b % B = 0 /\ p.entry = b
        /\ s.vaddr \in Nat /\ s.msz \in Nat \ {0} /\ s.vaddr + s.msz <= e
    <3>1. 1 \in DOMAIN p.segs /\ Len(p.segs) \in DOMAIN p.segs
      BY <2>1
    <3>2. b \in Nat /\ e \in Nat
      BY <2>2, <3>1 DEF image_base, LoadEnd
    <3>3. p.entry < LoadEnd(p)
      BY <1>1, LayoutAssumption
    <3>4. p.entry = b /\ b % B = 0 /\ s.vaddr + s.msz <= e
      BY <1>1 DEF Orderly
    <3>5. QED BY <1>1, <2>2, <3>2, <3>3, <3>4
  <2>4. image_size(p) = w * B
    BY <2>3 DEF image_size, RoundUp
  <2> HIDE DEF b, e, s
  <2>5. w \in Nat /\ w * B >= e - b
    <3>1. e - b + B - 1 \in Nat
      BY <2>1, <2>3
    <3> DEFINE x == e - b + B - 1  r == x % B
    <3> HIDE DEF x
    <3>2. x \in Nat /\ x = e - b + B - 1
      BY <3>1 DEF x
    <3>3. x \div B \in Nat /\ x = B * (x \div B) + r /\ r \in 0..(B - 1)
      <4>1. x \in Int /\ x \div B \in Nat
        BY <2>1, <3>2, DivTimes
      <4>2. QED BY <2>1, <4>1, DivMod, Zenon
    <3>4. w = x \div B
      BY DEF x
    <3> HIDE DEF w, r
    <3>5. w \in Nat /\ x = B * w + r
      BY <3>3, <3>4
    <3>6. B * w \in Nat /\ w * B = B * w
      BY <2>1, <3>5, SMT
    <3>7. QED BY <2>1, <2>3, <3>2, <3>3, <3>5, <3>6
  <2> HIDE DEF w
  <2>6. c \in Nat /\ b = c * B
    <3>1. b \div B \in Nat
      BY <2>1, <2>3, DivTimes
    <3>2. b = B * (b \div B) + (b % B)
      <4>1. b \in Int
        BY <2>3
      <4>2. QED BY <2>1, <4>1, DivMod, Zenon
    <3> DEFINE r == b % B
    <3>3. c \in Nat /\ b = B * c + r /\ r = 0
      BY <2>3, <3>1, <3>2
    <3> HIDE DEF c, r
    <3>4. B * c \in Nat /\ c * B = B * c
      BY <2>1, <3>3, SMT
    <3>5. QED BY <2>3, <3>3, <3>4
  <2> HIDE DEF c
  <2>7. StackPage(p, 0) = c + w
    <3>1. b + w * B = (c + w) * B /\ c + w \in Nat
      BY <2>1, <2>5, <2>6, SMT
    <3>2. ((c + w) * B) \div B = c + w
      BY <2>1, <3>1, DivPlus
    <3>3. QED BY <2>1, <2>4, <3>1, <3>2 DEF PageOf
  <2>8. ASSUME NEW x \in Nat, x < e PROVE x \div B < c + w
    <3>1. x \div B \in Nat /\ (x \div B) * B <= x
      BY <2>1, DivTimes
    <3>2. (c + w) * B = b + w * B /\ b + w * B >= e
      BY <2>1, <2>3, <2>5, <2>6, SMT
    <3>3. CASE x \div B >= c + w
      <4>1. B * (c + w) <= B * (x \div B) /\ c + w \in Nat
        BY <2>1, <2>5, <2>6, <3>1, <3>3, TimesMonotonic
      <4>2. B * (c + w) = (c + w) * B /\ B * (x \div B) = (x \div B) * B
        BY <2>1, <3>1, <4>1, SMT
      <4>3. (c + w) * B <= (x \div B) * B
        BY <4>1, <4>2
      <4> DEFINE y == (x \div B) * B  z == (c + w) * B
      <4>4. y \in Nat /\ z \in Nat
        BY <2>1, <3>1, <4>1, SMT
      <4>5. z >= e /\ z <= y /\ y <= x
        BY <3>1, <3>2, <4>3
      <4> HIDE DEF y, z
      <4>6. QED BY <2>3, <2>8, <4>4, <4>5
    <3>4. QED BY <2>5, <2>6, <3>1, <3>3
  <2>9. \A q \in Written(s) : q < c + w
    <3>1. s.vaddr + s.msz - 1 \in Nat /\ s.vaddr + s.msz - 1 < e
      BY <2>3
    <3>2. PageOf(s.vaddr + s.msz - 1) < c + w /\ PageOf(s.vaddr + s.msz - 1) \in Nat
      BY <2>1, <2>8, <3>1, DivTimes DEF PageOf
    <3>3. PageOf(s.vaddr) \in Nat
      BY <2>1, <2>3, DivTimes DEF PageOf
    <3>4. QED BY <2>5, <2>6, <3>2, <3>3 DEF Written
  <2>10. \A q \in ThreadPages(p, 0) : q \in Page /\ q >= c + w
    <3>1. \A i \in 0..(PagesPerThread - 1) :
             ThreadPage(p, 0, i) \in Page /\ ThreadPage(p, 0, i) >= StackPage(p, 0)
      BY <1>1, ThreadPagesFit, LayoutAssumption
    <3>2. QED BY <2>7, <3>1 DEF ThreadPages
  <2>11. Page \subseteq Int
    BY LayoutAssumption DEF Page
  <2>12. \A q \in Written(s) : q \notin ThreadPages(p, 0)
    <3>1. SUFFICES ASSUME NEW q \in Written(s), q \in ThreadPages(p, 0) PROVE FALSE
      OBVIOUS
    <3>2. q < c + w /\ q >= c + w /\ q \in Int
      BY <2>9, <2>10, <2>11, <3>1
    <3>3. c + w \in Int
      BY <2>5, <2>6
    <3>4. QED BY <3>2, <3>3
  <2>13. QED BY <2>12 DEF s
<1>2. MemInv => StackAfterImage
  BY <1>1 DEF MemInv, MemTypes, StackAfterImage, Loaded
<1>3. QED BY <1>2, MemInvariant, PTL
=============================================================================
