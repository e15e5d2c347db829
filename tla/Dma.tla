--------------------------------- MODULE Dma --------------------------------
(***************************************************************************)
(* The first of the two 8237 DMA controllers as drivers/x86/dma.c programs *)
(* it.  The state is a record that the routines of dma.c map to a new one: *)
(* the masked channels, the flip-flop that says which byte of a 16-bit     *)
(* register comes next, and the registers of the one channel in use.       *)
(***************************************************************************)
EXTENDS Integers

CONSTANTS Channel,  \* the channel in use, FLOPPY_DMA_CHANNEL
          Bytes     \* bytes of addresses and counts

Directions == {"toMemory", "toDevice"}
Word == [low : Bytes, high : Bytes]
DmaRegs == [masked : SUBSET (0 .. 3), flip : BOOLEAN, addr : Word, count : Word,
            page : Bytes, mode : Directions]

(* A byte written to a 16-bit register: the flip-flop chooses the half.    *)
HalfWritten(w, flip, b) == IF flip THEN [w EXCEPT !.high = b] ELSE [w EXCEPT !.low = b]

SetLow(d, reg, b) == [d EXCEPT ![reg] = HalfWritten(@, d.flip, b), !.flip = ~@]
dma_set_address(d, low, high) == SetLow(SetLow(d, "addr", low), "addr", high)
dma_set_count(d, low, high) == SetLow(SetLow(d, "count", low), "count", high)
dma_set_external_page_register(d, val) == [d EXCEPT !.page = val]

(* The register takes a channel in bits 0 and 1, and in bit 2 whether to   *)
(* mask it.  dma_mask_channel writes 1 << (channel - 1), which for channel *)
(* 2 names channel 2 and unmasks it.                                       *)
MaskRegister(d, val) ==
    [d EXCEPT !.masked = IF (val \div 4) % 2 = 1 THEN @ \cup {val % 4} ELSE @ \ {val % 4}]
dma_mask_channel(d) == MaskRegister(d, 2 ^ (Channel - 1))

(* DMA1_UNMASK_ALL_REG is of the other controller.                         *)
dma_unmask_all(d) == d

dma_set_mode(d, mode) == dma_unmask_all([dma_mask_channel(d) EXCEPT !.mode = mode])
dma_set_read(d) == dma_set_mode(d, "toMemory")
dma_set_write(d) == dma_set_mode(d, "toDevice")

dma_reset_flipflop(d) == [d EXCEPT !.flip = FALSE]

(* DMA0_TEMP_REG is the register of the master clear.                      *)
dma_reset(d) == [d EXCEPT !.masked = 0 .. 3, !.flip = FALSE]
=============================================================================
