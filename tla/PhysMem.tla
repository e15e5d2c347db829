------------------------------- MODULE PhysMem -------------------------------
(***************************************************************************)
(* The physical memory manager, mm/mm.c: a bitmap with one bit for each    *)
(* block, searched from the bottom.  map is the set of blocks whose bit is *)
(* set ("used").  Memory sizes are counted in blocks, addresses of the     *)
(* boot loader's map in bytes, as pmm_init converts them.                  *)
(***************************************************************************)
EXTENDS Integers, FiniteSets, Sequences

CONSTANTS
    BlockLen,       \* BLOCKS_LEN, also the size of a page
    WordBits,       \* bits in a word of the bitmap
    MaxBlocks,      \* pmm.max_blocks: the memory of the machine
    BitmapBlocks,   \* bits in the bitmap: all blocks of the address space
    MemsetBlocks,   \* bits that pmm_init sets: BITMAP_LEN bytes, not words
    KernelBlocks,   \* KERNEL_SPACE_END in blocks
    CountMod,       \* pmm.used_blocks is a uint32_t: it wraps at this value
    Regions         \* what the loop of pmm_init reads: the map, and the
                    \* memory after it (mmap_len counts bytes, not entries)

ASSUME BlockAssumption ==
    /\ {BlockLen, WordBits, MaxBlocks, KernelBlocks} \subseteq Nat \ {0}
    /\ BitmapBlocks \in Nat /\ MemsetBlocks \in Nat /\ CountMod \in Nat \ {0}
    /\ WordBits <= KernelBlocks /\ KernelBlocks < MaxBlocks
    /\ MaxBlocks < BitmapBlocks

Region == [addr_low : Nat, len_low : Nat, type : Nat]
ASSUME RegionsAssumption == Regions \in Seq(Region)

Block == 0..(BitmapBlocks - 1)
KernelSpace == 0..(KernelBlocks - 1)

VARIABLES map, used_blocks

(* pmm_init_reg: the whole blocks from the one the region begins in.       *)
pmm_init_reg(r) ==
    LET first == r.addr_low \div BlockLen
    IN  first..(first + r.len_low \div BlockLen - 1)

AvailableRegions == {k \in DOMAIN Regions : Regions[k].type = 1}

(* pmm_init: everything used, available regions freed, then the first      *)
(* KERNEL_SPACE_END bytes reserved, counted whether they were free or not. *)
(* The mutant lacks the last step.                                         *)
InitialMapOpen ==
    (0..(MemsetBlocks - 1)) \ UNION {pmm_init_reg(Regions[k]) : k \in AvailableRegions}
InitialMap ==
    ((0..(MemsetBlocks - 1)) \ UNION {pmm_init_reg(Regions[k]) : k \in AvailableRegions})
        \cup KernelSpace
InitialUsed ==
    MaxBlocks + KernelBlocks
        - Cardinality(UNION {{k} \X pmm_init_reg(Regions[k]) : k \in AvailableRegions})

(* pmm_first_free: only whole words of the bitmap are searched.            *)
Scanned == 0..((MaxBlocks \div WordBits) * WordBits - 1)
pmm_first_free(m) ==
    IF Scanned \subseteq m THEN -1
    ELSE CHOOSE b \in Scanned \ m : \A c \in Scanned \ m : b <= c

(* pmm_set_bit; bit -1 is the last bit of the first word (the shift takes  *)
(* its count modulo the word size).  The mutant leaves the bit alone.      *)
pmm_set_bit_lost(m, bit) == m
pmm_set_bit(m, bit) == m \cup {IF bit = -1 THEN WordBits - 1 ELSE bit}

(* pmm_malloc: the bitmap after it, and the block it returns.  NULL would  *)
(* be block 0, which is never free; for a full memory the code multiplies  *)
(* -1 by the block size and returns the last block of the address space.   *)
NoBlock == BitmapBlocks - 1
MallocMap(m) == pmm_set_bit(m, pmm_first_free(m))
MallocBlock(m) == IF pmm_first_free(m) = -1 THEN NoBlock ELSE pmm_first_free(m)
MallocCount(n) == (n + 1) % CountMod

(* pmm_free of the blocks S, called k times in all: kernel space is left   *)
(* alone.  The mutant forgets the count.                                   *)
FreeMap(m, S) == m \ (S \ KernelSpace)
FreeCountNot(n, k) == n
FreeCount(n, k) == (n - k) % CountMod
=============================================================================
