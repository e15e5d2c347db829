------------------------------ MODULE MCProcMem ------------------------------
(* Model checking of ProcMem with pages of four bytes: the programs, and a *)
(* memory map as boot loaders report it.                                   *)
EXTENDS ProcMemInv

Seg(v, f, m) == [vaddr |-> v, fsz |-> f, msz |-> m]
Elf(file, entry, segs) == [file |-> file, valid |-> TRUE, entry |-> entry, segs |-> segs]

OnePage == Elf(1, 0, <<Seg(0, 3, 3)>>)
TwoSegments == Elf(2, 1, <<Seg(0, 3, 4), Seg(4, 2, 4)>>)
WithGap == Elf(2, 0, <<Seg(0, 1, 1), Seg(12, 2, 2)>>)
\* like the programs in apps/: text and constants in two pages, then data
Shipped == Elf(2, 0, <<Seg(0, 5, 5), Seg(8, 1, 1)>>)
\* a segment that ends with its page: one page too many is mapped for it
FullPage == Elf(1, 0, <<Seg(0, 4, 4)>>)
LateEntry == Elf(1, 2, <<Seg(0, 3, 4), Seg(4, 2, 2)>>)
LargeBss == Elf(1, 0, <<Seg(0, 3, 9)>>)
NotElf == [file |-> 1, valid |-> FALSE, entry |-> 0, segs |-> <<>>]
NoFile == [file |-> 0, valid |-> FALSE, entry |-> 0, segs |-> <<>>]

OnePageOnly == {OnePage}
WellFormed == {OnePage, TwoSegments}
AllPrograms ==
    {OnePage, TwoSegments, WithGap, Shipped, FullPage, LateEntry, LargeBss, NotElf, NoFile}

Reg(a, l, t) == [addr_low |-> a, len_low |-> l, type |-> t]
MemoryMap == <<Reg(0, 11, 1), Reg(11, 5, 2), Reg(16, 112, 1)>>
=============================================================================
