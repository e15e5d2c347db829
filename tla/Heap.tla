-------------------------------- MODULE Heap --------------------------------
(***************************************************************************)
(* The kernel heap (mm/kheap.c) and the heap of a user process (mm/heap.c, *)
(* proc/thread.c): the same first-fit allocator over a chain of headers.   *)
(*                                                                         *)
(* head2 is computed on a heap_header_t pointer, so that an offset of      *)
(* len + sizeof(heap_header_t) is scaled by the size of a header: every    *)
(* header lies a whole number of headers after the heap's start, and       *)
(* addresses are counted in headers here.  Sizes are counted in bytes,     *)
(* modulo WordMod (2^32) as size_t is.                                     *)
(*                                                                         *)
(* start_thread maps a heap for the new thread and copies the first page   *)
(* of the caller's over it.  What the copy holds is the caller's used, and *)
(* the pointers into the caller's chain: the threads of a process share    *)
(* one chain, that of the main thread, and each has a used of its own that *)
(* starts as a copy.  The other processes have heaps like this one's.      *)
(*                                                                         *)
(* A step is one iteration of the loop of first_free or kfree.  There is   *)
(* one operation at a time: system calls have interrupts off, and the      *)
(* console uses the heap only while no process runs.  A header stays in    *)
(* memory when its block is merged into another.  What clients write into  *)
(* their blocks is not modelled, so the model is exact until the first     *)
(* time that two blocks overlap.                                           *)
(*                                                                         *)
(* It ends where the code writes a header beyond the heap's memory.  As    *)
(* sizes count bytes and headers are placed sixteen times as far, that     *)
(* comes when a sixteenth of the size was given out.  At 0x200000, where   *)
(* the kernel heap ends, the paging structures begin, which the header     *)
(* overwrites or which clear it later; beyond a process' heap lie the      *)
(* pages of other threads, or none.                                        *)
(***************************************************************************)
EXTENDS Integers, FiniteSets, FiniteSetsExt

CONSTANTS
    Kernel,     \* the kernel heap, and its account
    User,       \* the heap of a process: that of its main thread
    Threads,    \* bound: the threads of the process, over its life
    Main,       \* its main thread, whose end ends the process
    Handles,    \* bound: the pointers that clients hold at any one time
    Lens,       \* the lengths that are asked for
    Hdr,        \* sizeof(heap_header_t)
    KSize,      \* heap_info.size of the kernel heap: HEAP_END - kernel_end
    USize,      \* heap_info->size of a thread's heap
    Limit,      \* where umalloc's loop stops: heap + (PAGE_SIZE * 4)
    Mapped,     \* where the pages of the process' heap end
    WordMod,    \* 2^32
    Null, None

Heaps == {Kernel, User}
Size(h) == IF h = Kernel THEN KSize ELSE USize

(* The heap_infos there may be: who calls, and whose used is changed.      *)
Accounts == {Kernel} \cup Threads
HeapOf(c) == IF c = Kernel THEN Kernel ELSE User

(* The first address beyond the memory of a heap.                          *)
End(h) == IF h = Kernel THEN KSize \div Hdr ELSE Mapped

ASSUME HeapAssumption ==
    /\ Kernel # User /\ Kernel \notin Threads /\ Main \in Threads
    /\ Hdr \in Nat \ {0} /\ Lens \subseteq Nat
    /\ KSize \in Nat /\ USize \in Nat /\ KSize >= Hdr /\ USize >= Hdr
    /\ Limit \in Nat /\ Mapped \in Nat
    /\ WordMod \in Nat /\ KSize < WordMod /\ USize < WordMod
    /\ Null \notin Nat /\ None \notin [heap : Heaps, addr : Nat, len : Lens]

VARIABLES
    head,       \* for each heap its headers, by address
    used,       \* heap_info.used of the kernel and of each thread
    alive,      \* the threads of the process
    held,       \* what clients hold: a block, or None
    op,         \* the operation in progress
    beyond,     \* a header was written beyond the memory of its heap
    forked,     \* history: the process has had a second thread
    blocks,     \* history: the headers that were not merged into another
    tight       \* history: the heaps in which a block was taken that had
                \* no room for the second header

vars == <<head, used, alive, held, op, beyond, forked, blocks, tight>>

Header == [size : 0 .. WordMod - 1, is_free : BOOLEAN, next : Nat \cup {Null}]
Block == [heap : Heaps, addr : Nat, len : Lens]
Idle == [at |-> "idle"]
Op == {Idle}
      \cup [at : {"search"}, heap : Heaps, cur : Nat \cup {Null}, len : Lens, by : Accounts]
      \cup [at : {"merge"}, heap : Heaps, cur : Nat]

TypeOK ==
    /\ DOMAIN head = Heaps
    /\ \A h \in Heaps : /\ DOMAIN head[h] \subseteq Nat
                        /\ \A a \in DOMAIN head[h] : head[h][a] \in Header
    /\ used \in [Accounts -> 0 .. WordMod - 1]
    /\ alive \subseteq Threads
    /\ held \in [Handles -> Block \cup {None}]
    /\ op \in Op
    /\ beyond \in BOOLEAN /\ forked \in BOOLEAN
    /\ DOMAIN blocks = Heaps
    /\ \A h \in Heaps : blocks[h] \subseteq DOMAIN head[h]
    /\ tight \in SUBSET Heaps

(* kheap_init and heap_init: one free block.  The process has one thread.  *)
FirstHeader(h) == [size |-> Size(h) - Hdr, is_free |-> TRUE, next |-> Null]
Init ==
    /\ head = [h \in Heaps |-> [a \in {0} |-> FirstHeader(h)]]
    /\ used = [c \in Accounts |-> IF c \in {Kernel, Main} THEN Hdr ELSE 0]
    /\ alive = {Main}
    /\ held = [k \in Handles |-> None]
    /\ op = Idle
    /\ beyond = FALSE /\ forked = FALSE
    /\ blocks = [h \in Heaps |-> {0}]
    /\ tight = {}

-----------------------------------------------------------------------------
(* start_thread, stop_thread                                               *)

Ready == ~beyond /\ op.at = "idle"

(* t makes the thread c, whose heap begins with the first page of t's.     *)
Fork(t, c) ==
    /\ Ready /\ t \in alive /\ c \notin alive
    /\ alive' = alive \cup {c}
    /\ used' = [used EXCEPT ![c] = used[t]]
    /\ forked' = TRUE
    /\ UNCHANGED <<head, held, op, beyond, blocks, tight>>

(* The pages of a thread's own heap go with it, its used with them; they   *)
(* hold no block.  What it held stays in use.                              *)
Exit(t) ==
    /\ Ready /\ t \in alive \ {Main}
    /\ alive' = alive \ {t}
    /\ used' = [used EXCEPT ![t] = 0]
    /\ UNCHANGED <<head, held, op, beyond, forked, blocks, tight>>

-----------------------------------------------------------------------------
(* kmalloc, umalloc_sys                                                    *)

(* The kernel, or the thread that runs.                                    *)
Callers == {Kernel} \cup alive

(* A heap is full when used has reached its size, whatever the chain says. *)
OutOfMemory(c) == used[c] >= Size(HeapOf(c))

AllocRefused(c) ==
    /\ Ready /\ c \in Callers
    /\ OutOfMemory(c)
    /\ UNCHANGED vars

AllocBegin(c, len) ==
    /\ Ready /\ c \in Callers
    /\ ~OutOfMemory(c)
    /\ \E k \in Handles : held[k] = None
    /\ op' = [at |-> "search", heap |-> HeapOf(c), cur |-> 0, len |-> len, by |-> c]
    /\ UNCHANGED <<head, used, alive, held, beyond, forked, blocks, tight>>

Searching == ~beyond /\ op.at = "search"

(* The condition of the while loop; only umalloc looks at the end.         *)
InLoop == op.cur # Null /\ (op.heap = Kernel \/ op.cur < Limit)

Cur == head[op.heap][op.cur]

(* The test does not ask for room for a second header.                     *)
Fits == Cur.size >= op.len /\ Cur.is_free

SearchNext ==
    /\ Searching /\ InLoop /\ ~Fits
    /\ op' = [op EXCEPT !.cur = Cur.next]
    /\ UNCHANGED <<head, used, alive, held, beyond, forked, blocks, tight>>

SearchFails ==
    /\ Searching /\ ~InLoop
    /\ op' = Idle
    /\ UNCHANGED <<head, used, alive, held, beyond, forked, blocks, tight>>

(* The second header; the mutant forgets the size of the first.            *)
Head2Close(a, len) == a + len
Head2(a, len) == a + len + Hdr

(* The header of what remains; the subtraction may wrap.                   *)
Remainder(size, len) == [size |-> (size - len - Hdr) % WordMod, is_free |-> TRUE, next |-> Null]

(* What a block costs; the mutant forgets its header.                      *)
CostBare(len) == len
Cost(len) == len + Hdr

(* Whether the second header lies in the memory of the heap.               *)
Writable(h, a) == a < End(h)

Take(k) ==
    LET h == op.heap
        a == op.cur
        b == Head2(a, op.len)
        taken == [size |-> op.len, is_free |-> FALSE, next |-> b]
    IN
    /\ Searching /\ InLoop /\ Fits
    /\ Writable(h, b)
    /\ held[k] = None
    /\ head' = [head EXCEPT ![h] =
                   [x \in DOMAIN head[h] \cup {b} |->
                      IF x = a THEN taken
                      ELSE IF x = b THEN Remainder(Cur.size, op.len)
                      ELSE head[h][x]]]
    /\ used' = [used EXCEPT ![op.by] = (@ + Cost(op.len)) % WordMod]
    /\ held' = [held EXCEPT ![k] = [heap |-> h, addr |-> a, len |-> op.len]]
    /\ op' = Idle
    /\ blocks' = [blocks EXCEPT ![h] = @ \cup {b}]
    /\ tight' = IF Cur.size < op.len + Hdr THEN tight \cup {h} ELSE tight
    /\ UNCHANGED <<alive, beyond, forked>>

(* Writing head2 faults, or changes the pages of a thread or the paging    *)
(* structures: nothing can be said any more.                               *)
TakeBeyond ==
    /\ Searching /\ InLoop /\ Fits
    /\ ~Writable(op.heap, Head2(op.cur, op.len))
    /\ beyond' = TRUE
    /\ UNCHANGED <<head, used, alive, held, op, forked, blocks, tight>>

-----------------------------------------------------------------------------
(* kfree, ufree_sys                                                        *)

(* Whose used is decreased: the one of the thread that calls free, which   *)
(* need not be the one that the block was counted in.                      *)
Charged(t, b) == IF b.heap = Kernel THEN Kernel ELSE t

(* is_free == 0 and the magic number is there.                             *)
InUse(b) == ~head[b.heap][b.addr].is_free

FreeBegin(t, k) ==
    LET b == held[k]
        c == Charged(t, b)
    IN
    /\ Ready /\ t \in alive
    /\ b # None /\ InUse(b)
    /\ head' = [head EXCEPT ![b.heap][b.addr].is_free = TRUE]
    /\ used' = [used EXCEPT ![c] = (@ - head[b.heap][b.addr].size) % WordMod]
    /\ op' = [at |-> "merge", heap |-> b.heap, cur |-> b.addr]
    /\ held' = [held EXCEPT ![k] = None]
    /\ UNCHANGED <<alive, beyond, forked, blocks, tight>>

(* A header that another operation has overwritten is left alone.          *)
FreeIgnored(k) ==
    /\ Ready
    /\ held[k] # None /\ ~InUse(held[k])
    /\ held' = [held EXCEPT ![k] = None]
    /\ UNCHANGED <<head, used, alive, op, beyond, forked, blocks, tight>>

Merging == ~beyond /\ op.at = "merge"

(* The loop goes on while the next block is free; the mutant merges with   *)
(* whatever follows.                                                       *)
MergeableAny == Cur.next # Null
Mergeable == Cur.next # Null /\ head[op.heap][Cur.next].is_free

(* One iteration: app, always head->next, becomes part of head.            *)
Merge ==
    LET h == op.heap
        app == head[h][Cur.next]
        merged == [size |-> (Cur.size + app.size + Hdr) % WordMod, is_free |-> TRUE,
                   next |-> app.next]
    IN
    /\ Merging /\ Mergeable
    /\ head' = [head EXCEPT ![h] =
                   [x \in DOMAIN head[h] |-> IF x = op.cur THEN merged ELSE head[h][x]]]
    /\ blocks' = [blocks EXCEPT ![h] = @ \ {Cur.next}]
    /\ UNCHANGED <<used, alive, held, op, beyond, forked, tight>>

MergeEnd ==
    /\ Merging /\ ~Mergeable
    /\ op' = Idle
    /\ UNCHANGED <<head, used, alive, held, beyond, forked, blocks, tight>>

-----------------------------------------------------------------------------
Next ==
    \/ \E t, c \in Threads : Fork(t, c)
    \/ \E t \in Threads : Exit(t)
    \/ \E c \in Accounts : AllocRefused(c) \/ \E len \in Lens : AllocBegin(c, len)
    \/ SearchNext \/ SearchFails \/ TakeBeyond
    \/ \E k \in Handles : Take(k) \/ FreeIgnored(k) \/ \E t \in Threads : FreeBegin(t, k)
    \/ Merge \/ MergeEnd

Spec == Init /\ [][Next]_vars

-----------------------------------------------------------------------------
(* Properties                                                              *)

(* The units a client uses: the block's header and the payload.            *)
Extent(b) == b.addr .. b.addr + (b.len + Hdr - 1) \div Hdr

(* Blocks that are held never overlap, lie in the heap's memory, and each  *)
(* keeps its header, so that it can be freed - in any order of allocations *)
(* and frees, splits and merges, forks and exits - as long as first_free   *)
(* did not take a block without room for the second header, which would be *)
(* written onto the next block, and until it writes a header beyond the    *)
(* heap's memory, where the model ends.                                    *)
BlocksApart(h) ==
    \A k \in Handles : held[k] # None /\ held[k].heap = h =>
        /\ InUse(held[k]) /\ head[h][held[k].addr].size = held[k].len
        /\ Extent(held[k]) \subseteq 0 .. End(h) - 1
        /\ \A m \in Handles \ {k} :
              held[m] # None /\ held[m].heap = h => Extent(held[k]) \cap Extent(held[m]) = {}
ApartUntilTight == \A h \in Heaps \ tight : BlocksApart(h)

(* used is never below what is held with its headers, so that first_free   *)
(* refuses no later than it should: freeing never gives a header back.     *)
(* This holds of the kernel heap, and of a process until it forks.  From   *)
(* then on each thread counts what it takes and gives back itself, in a    *)
(* copy of its maker's count, and none of the counts covers the chain.     *)
HeldIn(b, h) == IF b = None \/ b.heap # h THEN 0 ELSE b.len + Hdr
SumOver(f, S) == MapThenSumSet(LAMBDA x : f[x], S)
SumHeld(h) == SumOver([k \in Handles |-> HeldIn(held[k], h)], Handles)
Keepers == {Kernel} \cup (IF forked THEN {} ELSE {Main})
UsedCoversHeld ==
    \A c \in Keepers : HeapOf(c) \notin tight => used[c] >= Hdr + SumHeld(HeapOf(c))

-----------------------------------------------------------------------------
(* The inductive invariant.  Headers are links in memory that is there; in *)
(* a heap that was not overwritten, blocks lie one after another, a link   *)
(* leads to the block that follows, no block goes beyond Size(h) headers,  *)
(* and what is held is a block in use, held once.                          *)
AreFunctions ==
    /\ head = [h \in Heaps |-> head[h]]
    /\ blocks = [h \in Heaps |-> blocks[h]]
    /\ \A h \in Heaps : head[h] = [a \in DOMAIN head[h] |-> head[h][a]]
Links ==
    /\ \A h \in Heaps : \A a \in DOMAIN head[h] :
          head[h][a].next # Null => head[h][a].next \in DOMAIN head[h]
    /\ \A h \in Heaps : 0 \in DOMAIN head[h]
    /\ \A k \in Handles : held[k] # None => held[k].addr \in DOMAIN head[held[k].heap]
    /\ op.at # "idle" /\ op.cur # Null => op.cur \in DOMAIN head[op.heap]
BlockEnd(h, a) == a + head[h][a].size + Hdr
Tiled(h) ==
    /\ 0 \in blocks[h]
    /\ \A a \in blocks[h] :
         /\ BlockEnd(h, a) <= Size(h)
         /\ head[h][a].next # Null =>
               head[h][a].next \in blocks[h] /\ head[h][a].next = BlockEnd(h, a)
         /\ \A b \in blocks[h] : a < b => BlockEnd(h, a) <= b
HeldOnce(h) ==
    \A k \in Handles : held[k] # None /\ held[k].heap = h =>
        /\ held[k].addr \in blocks[h] /\ held[k].addr + held[k].len + Hdr < End(h)
        /\ ~head[h][held[k].addr].is_free /\ head[h][held[k].addr].size = held[k].len
        /\ \A m \in Handles \ {k} :
              held[m] # None /\ held[m].heap = h => held[m].addr # held[k].addr
OpOnBlock ==
    op.at # "idle" /\ op.heap \notin tight =>
        /\ op.cur # Null => op.cur \in blocks[op.heap]
        /\ op.at = "merge" => head[op.heap][op.cur].is_free
HeapInv ==
    /\ TypeOK /\ AreFunctions /\ Links
    /\ \A h \in Heaps \ tight : Tiled(h) /\ HeldOnce(h)
    /\ OpOnBlock

(* The books of the kernel, and of a process that has not forked: besides  *)
(* covering what is held, a search goes on only below the heap's size, so  *)
(* that used does not wrap when it ends.                                   *)
ASSUME LedgerAssumption ==
    /\ IsFiniteSet(Handles)
    /\ \A h \in Heaps : 2 * Size(h) <= WordMod
Ledger ==
    /\ UsedCoversHeld
    /\ ~forked => alive = {Main}
    /\ op.at = "search" =>
          /\ op.heap = HeapOf(op.by) /\ op.by \in Callers
          /\ op.by \in Keepers => used[op.by] < Size(op.heap)
=============================================================================
