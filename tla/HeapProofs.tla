----------------------------- MODULE HeapProofs -----------------------------
(***************************************************************************)
(* Blocks stay apart, for any number of threads and clients, any sizes and *)
(* lengths, and any order of operations, forks and exits: HeapInv is       *)
(* inductive, one lemma for each action that changes a heap.  The counts   *)
(* of bytes used follow, as far as they can be relied upon.                *)
(***************************************************************************)
EXTENDS Heap, NatLemmas, FiniteSetTheorems, TLAPS

(* HeapInv holds at boot.                                                  *)
LEMMA InitHeap == Init => HeapInv
<1> SUFFICES ASSUME Init PROVE HeapInv
    OBVIOUS
<1>1. \A h \in Heaps : Size(h) - Hdr \in 0 .. WordMod - 1
    BY HeapAssumption DEF Size
<1>2. \A h \in Heaps : /\ DOMAIN head[h] = {0} /\ head[h][0] = FirstHeader(h)
                       /\ head[h] = [a \in DOMAIN head[h] |-> head[h][a]]
                       /\ blocks[h] = {0}
    BY DEF Init
<1>3. TypeOK
    <2>1. \A h \in Heaps : FirstHeader(h) \in Header
        BY <1>1 DEF FirstHeader, Header
    <2>2. Hdr \in 0 .. WordMod - 1
        BY HeapAssumption
    <2>3. /\ DOMAIN head = Heaps /\ DOMAIN blocks = Heaps
          /\ used \in [Accounts -> 0 .. WordMod - 1]
        BY <2>2, HeapAssumption DEF Init
    <2>4. /\ held \in [Handles -> Block \cup {None}] /\ op \in Op
          /\ beyond \in BOOLEAN /\ forked \in BOOLEAN /\ tight \in SUBSET Heaps
          /\ alive \subseteq Threads
        BY HeapAssumption DEF Init, Op
    <2>5. \A h \in Heaps :
             /\ DOMAIN head[h] \subseteq Nat /\ blocks[h] \subseteq DOMAIN head[h]
             /\ \A a \in DOMAIN head[h] : head[h][a] \in Header
        <3> TAKE h \in Heaps
        <3>1. DOMAIN head[h] = {0} /\ blocks[h] = {0} /\ head[h][0] \in Header
            BY <1>2, <2>1
        <3> QED
            BY <3>1
    <2> QED
        BY <2>3, <2>4, <2>5 DEF TypeOK
<1>4. AreFunctions
    BY <1>2 DEF Init, AreFunctions
<1>5. Links
    BY <1>2 DEF Init, Links, FirstHeader, Idle
<1>6. \A h \in Heaps : Tiled(h) /\ HeldOnce(h)
    BY <1>2, HeapAssumption DEF Init, Tiled, HeldOnce, BlockEnd, FirstHeader, Size
<1>7. OpOnBlock
    BY DEF Init, OpOnBlock, Idle
<1> QED
    BY <1>3, <1>4, <1>5, <1>6, <1>7 DEF HeapInv

(* A 32-bit result is a 32-bit value.                                      *)
LEMMA WordRange ==
    ASSUME NEW x \in Int
    PROVE  /\ x % WordMod \in 0 .. WordMod - 1
           /\ x \in 0 .. WordMod - 1 => x % WordMod = x
<1>1. WordMod \in Nat \ {0}
    BY HeapAssumption
<1> QED
    BY <1>1

(* Only the operation in progress moves.                                   *)
LEMMA CursorMoves ==
    ASSUME HeapInv, op' \in Op, UNCHANGED <<head, used, alive, held, beyond, forked, blocks, tight>>,
           op'.at # "idle" => /\ op'.cur # Null => op'.cur \in DOMAIN head[op'.heap]
                              /\ op'.heap \notin tight /\ op'.cur # Null =>
                                    op'.cur \in blocks[op'.heap]
                              /\ op'.at # "merge"
    PROVE  HeapInv'
<1>1. TypeOK'
    BY DEF HeapInv, TypeOK
<1>2. AreFunctions'
    BY DEF HeapInv, AreFunctions
<1>3. Links'
    BY DEF HeapInv, Links
<1>4. \A h \in Heaps \ tight : Tiled(h)' /\ HeldOnce(h)'
    BY DEF HeapInv, Tiled, HeldOnce, BlockEnd
<1>5. OpOnBlock'
    BY DEF OpOnBlock
<1> QED
    BY <1>1, <1>2, <1>3, <1>4, <1>5 DEF HeapInv

(* kmalloc sets its cursor on the first block.                             *)
LEMMA AllocBeginHeap ==
    ASSUME HeapInv, NEW c \in Accounts, NEW len \in Lens, AllocBegin(c, len)
    PROVE  HeapInv'
<1> DEFINE h == HeapOf(c)
<1>0. h \in Heaps
    BY DEF HeapOf, Heaps
<1>1. op' \in Op /\ op'.at = "search" /\ op'.cur = 0 /\ op'.heap = h
    BY <1>0 DEF AllocBegin, Op
<1>2. 0 \in DOMAIN head[h] /\ (h \notin tight => 0 \in blocks[h])
    BY <1>0 DEF HeapInv, Links, Tiled
<1> QED
    BY <1>1, <1>2, CursorMoves DEF AllocBegin

(* An operation ends.                                                      *)
LEMMA IdleHeap ==
    ASSUME HeapInv, SearchFails \/ MergeEnd
    PROVE  HeapInv'
    BY CursorMoves DEF SearchFails, MergeEnd, Idle, Op

(* kmalloc goes on to the next block.                                      *)
LEMMA SearchNextHeap ==
    ASSUME HeapInv, SearchNext
    PROVE  HeapInv'
<1> DEFINE h == op.heap
           a == op.cur
<1>1. /\ op \in [at : {"search"}, heap : Heaps, cur : Nat \cup {Null}, len : Lens,
             by : Accounts]
      /\ a # Null
    BY DEF SearchNext, Searching, InLoop, HeapInv, TypeOK, Op, Idle
<1>2. h \in Heaps /\ a \in DOMAIN head[h] /\ head[h][a] \in Header
    BY <1>1 DEF HeapInv, TypeOK, Links
<1>3. op' = [op EXCEPT !.cur = head[h][a].next]
    BY DEF SearchNext, Cur
<1>4. op' \in Op /\ op'.at = "search" /\ op'.heap = h /\ op'.cur = head[h][a].next
    BY <1>1, <1>2, <1>3 DEF Op, Header
<1>5. /\ op'.cur # Null => op'.cur \in DOMAIN head[h]
      /\ h \notin tight /\ op'.cur # Null => op'.cur \in blocks[h]
    BY <1>1, <1>2, <1>4 DEF HeapInv, Links, OpOnBlock, Tiled
<1> QED
    BY <1>4, <1>5, CursorMoves DEF SearchNext

(* first_free's split.  The taken block and the remainder tile the block   *)
(* there was, provided it had room for the second header.                  *)
LEMMA TakeHeap ==
    ASSUME HeapInv, NEW k \in Handles, Take(k)
    PROVE  HeapInv'
<1> DEFINE h == op.heap
           a == op.cur
           len == op.len
           sz == head[h][a].size
           b == a + len + Hdr
           rest == Remainder(sz, len)
           taken == [size |-> len, is_free |-> FALSE, next |-> b]
<1>1. /\ op \in [at : {"search"}, heap : Heaps, cur : Nat \cup {Null}, len : Lens,
             by : Accounts]
      /\ a # Null
    BY DEF Take, Searching, InLoop, HeapInv, TypeOK, Op, Idle
<1>2. /\ h \in Heaps /\ a \in Nat /\ len \in Lens /\ len \in Nat /\ b \in Nat /\ b > a
      /\ a \in DOMAIN head[h] /\ head[h][a] \in Header
      /\ sz \in 0 .. WordMod - 1 /\ sz >= len /\ head[h][a].is_free
    <2>1. h \in Heaps /\ a \in Nat /\ len \in Lens /\ len \in Nat /\ b \in Nat /\ b > a
        <3>1. h \in Heaps /\ a \in Nat /\ len \in Lens
            BY <1>1
        <3>2. len \in Nat /\ Hdr \in Nat \ {0}
            BY <3>1, HeapAssumption
        <3> QED
            BY <3>1, <3>2
    <2>2. a \in DOMAIN head[h] /\ head[h][a] \in Header
        BY <1>1, <2>1 DEF HeapInv, TypeOK, Links
    <2>3. sz >= len /\ head[h][a].is_free
        BY DEF Take, Fits, Cur
    <2> QED
        BY <2>1, <2>2, <2>3 DEF Header
<1>3. rest \in Header /\ taken \in Header
    <2>1. (sz - len - Hdr) % WordMod \in 0 .. WordMod - 1
        BY <1>2, WordRange, HeapAssumption
    <2>2. len \in 0 .. WordMod - 1
        BY <1>2, HeapAssumption
    <2> QED
        BY <2>1, <2>2, <1>2 DEF Remainder, Header
<1>4. head' = [head EXCEPT ![h] =
                   [x \in DOMAIN head[h] \cup {b} |->
                      IF x = a THEN taken ELSE IF x = b THEN rest ELSE head[h][x]]]
    BY DEF Take, Head2, Cur
<1>5. /\ DOMAIN head' = Heaps
      /\ \A g \in Heaps \ {h} : head'[g] = head[g]
      /\ head'[h] = [x \in DOMAIN head[h] \cup {b} |->
                       IF x = a THEN taken ELSE IF x = b THEN rest ELSE head[h][x]]
    BY <1>2, <1>4 DEF HeapInv, TypeOK
<1>6. /\ DOMAIN head'[h] = DOMAIN head[h] \cup {b}
      /\ head'[h][a] = taken /\ head'[h][b] = rest
      /\ \A x \in DOMAIN head[h] \ {a, b} : head'[h][x] = head[h][x]
    <2> HIDE DEF taken, rest, b
    <2>1. b # a
        BY <1>2 DEF b
    <2> QED
        BY <1>2, <1>5, <2>1
<1>7. /\ DOMAIN blocks' = Heaps /\ blocks'[h] = blocks[h] \cup {b}
      /\ \A g \in Heaps \ {h} : blocks'[g] = blocks[g]
    BY <1>2 DEF Take, Head2, HeapInv, TypeOK
<1>8. /\ held[k] = None /\ held' = [held EXCEPT ![k] = [heap |-> h, addr |-> a, len |-> len]]
      /\ op' = Idle /\ beyond' = beyond /\ forked' = forked /\ alive' = alive
      /\ b < End(h)
    BY DEF Take, Head2, Writable
<1>9. /\ tight' \in SUBSET Heaps /\ tight \subseteq tight'
      /\ h \notin tight' => sz >= len + Hdr
      /\ tight' \subseteq tight \cup {h}
    BY <1>2, HeapAssumption DEF Take, Cur, HeapInv, TypeOK
<1>10. TypeOK'
    <2>1. used' \in [Accounts -> 0 .. WordMod - 1]
        <3>1. used[op.by] \in Int /\ Cost(len) \in Int
            BY <1>1, <1>2, HeapAssumption DEF HeapInv, TypeOK, Cost
        <3>2. (used[op.by] + Cost(len)) % WordMod \in 0 .. WordMod - 1
            BY <3>1, WordRange
        <3> QED
            BY <3>2 DEF Take, HeapInv, TypeOK
    <2>2. held' \in [Handles -> Block \cup {None}]
        BY <1>8, <1>2 DEF HeapInv, TypeOK, Block
    <2>3. \A g \in Heaps : /\ DOMAIN head'[g] \subseteq Nat
                            /\ \A x \in DOMAIN head'[g] : head'[g][x] \in Header
                            /\ blocks'[g] \subseteq DOMAIN head'[g]
        <3> TAKE g \in Heaps
        <3>1. CASE g = h
            BY <3>1, <1>2, <1>3, <1>6, <1>7 DEF HeapInv, TypeOK
        <3>2. CASE g # h
            BY <3>2, <1>5, <1>7 DEF HeapInv, TypeOK
        <3> QED
            BY <3>1, <3>2
    <2> QED
        BY <2>1, <2>2, <2>3, <1>5, <1>7, <1>8, <1>9 DEF HeapInv, TypeOK, Op
<1>11. AreFunctions'
    <2>1. head' = [g \in Heaps |-> head'[g]]
        BY <1>4 DEF HeapInv, AreFunctions
    <2>2. blocks' = [g \in Heaps |-> blocks'[g]]
        BY DEF Take, HeapInv, AreFunctions
    <2>3. \A g \in Heaps : head'[g] = [x \in DOMAIN head'[g] |-> head'[g][x]]
        <3> TAKE g \in Heaps
        <3>1. CASE g = h
            BY <3>1, <1>5
        <3>2. CASE g # h
            BY <3>2, <1>5 DEF HeapInv, AreFunctions
        <3> QED
            BY <3>1, <3>2
    <2> QED
        BY <2>1, <2>2, <2>3 DEF AreFunctions
<1>12. Links'
    <2>1. \A g \in Heaps : \A x \in DOMAIN head'[g] :
             head'[g][x].next # Null => head'[g][x].next \in DOMAIN head'[g]
        <3> TAKE g \in Heaps
        <3>1. CASE g = h
            <4> TAKE x \in DOMAIN head'[g]
            <4>1. CASE x = a
                BY <4>1, <3>1, <1>6
            <4>2. CASE x = b
                BY <4>2, <3>1, <1>6 DEF Remainder
            <4>3. CASE x # a /\ x # b
                BY <4>3, <3>1, <1>6, <1>2 DEF HeapInv, Links
            <4> QED
                BY <4>1, <4>2, <4>3
        <3>2. CASE g # h
            BY <3>2, <1>5 DEF HeapInv, Links
        <3> QED
            BY <3>1, <3>2
    <2>2. \A g \in Heaps : DOMAIN head[g] \subseteq DOMAIN head'[g]
        BY <1>5, <1>6
    <2>3. \A m \in Handles : held'[m] # None => held'[m].addr \in DOMAIN head'[held'[m].heap]
        <3> TAKE m \in Handles
        <3>1. CASE m = k
            BY <3>1, <1>2, <1>6, <1>8 DEF HeapInv, TypeOK
        <3>2. CASE m # k
            BY <3>2, <2>2, <1>8 DEF HeapInv, TypeOK, Links, Block
        <3> QED
            BY <3>1, <3>2
    <2> QED
        BY <2>1, <2>2, <2>3, <1>8 DEF HeapInv, Links, Idle
<1>13. ASSUME NEW g \in Heaps \ tight' PROVE Tiled(g)' /\ HeldOnce(g)'
    <2>0. g \notin tight
        BY <1>9, <1>13
    <2>1. CASE g # h
        <3>1. head'[g] = head[g] /\ blocks'[g] = blocks[g]
            BY <2>1, <1>5, <1>7
        <3>2. Tiled(g)'
            BY <3>1, <2>0 DEF HeapInv, Tiled, BlockEnd
        <3>3. \A m \in Handles : held'[m] # None /\ held'[m].heap = g =>
                 m # k /\ held'[m] = held[m]
            BY <2>1, <1>8 DEF HeapInv, TypeOK
        <3>4. HeldOnce(g)'
            BY <3>1, <3>3, <2>0 DEF HeapInv, HeldOnce
        <3> QED
            BY <3>2, <3>4
    <2>2. CASE g = h
        <3>1. /\ h \notin tight /\ sz >= len + Hdr /\ a \in blocks[h]
              /\ Tiled(h) /\ HeldOnce(h)
            BY <2>0, <2>2, <1>9, <1>13, <1>1 DEF HeapInv, OpOnBlock
        <3>2. blocks[h] \subseteq DOMAIN head[h] /\ blocks[h] \subseteq Nat
            BY <1>2 DEF HeapInv, TypeOK
        <3>3. \A x \in blocks[h] : head[h][x].size \in Nat
            BY <3>2, <1>2, HeapAssumption DEF HeapInv, TypeOK, Header
        <3>4. b \notin blocks[h]
            BY <3>1, <3>2, <3>3, <1>2, HeapAssumption DEF Tiled, BlockEnd
        <3>5. rest = [size |-> sz - len - Hdr, is_free |-> TRUE, next |-> Null]
            <4>1. sz - len - Hdr \in 0 .. WordMod - 1
                BY <3>1, <1>2, HeapAssumption
            <4>2. (sz - len - Hdr) % WordMod = sz - len - Hdr
                BY <4>1, WordRange, <1>2, HeapAssumption
            <4> QED
                BY <4>2 DEF Remainder
        <3>6. \A x \in blocks[h] \ {a} : head'[h][x] = head[h][x] /\ x # b
            BY <1>6, <3>2, <3>4
        <3>7. Tiled(g)'
            <4>1. 0 \in blocks'[h]
                BY <3>1, <1>7 DEF Tiled
            <4>2. ASSUME NEW x \in blocks'[h]
                  PROVE  /\ x + head'[h][x].size + Hdr <= Size(h)
                         /\ head'[h][x].next # Null =>
                               /\ head'[h][x].next \in blocks'[h]
                               /\ head'[h][x].next = x + head'[h][x].size + Hdr
                         /\ \A y \in blocks'[h] : x < y => x + head'[h][x].size + Hdr <= y
                <5>0. /\ a + sz + Hdr <= Size(h) /\ Size(h) \in Nat
                      /\ \A y \in blocks[h] : a < y => a + sz + Hdr <= y
                    BY <3>1, HeapAssumption DEF Tiled, BlockEnd, Size
                <5>1. CASE x = a
                    BY <5>0, <5>1, <1>2, <1>6, <1>7, <3>1, <3>2, HeapAssumption
                <5>2. CASE x = b
                    <6>1. head'[h][x].size = sz - len - Hdr /\ head'[h][x].next = Null
                        BY <5>2, <1>6, <3>5
                    <6>2. \A y \in blocks'[h] : x < y => y \in blocks[h] /\ a < y
                        BY <5>2, <1>2, <1>7, <3>2, HeapAssumption
                    <6> QED
                        BY <6>1, <6>2, <5>0, <5>2, <1>2, HeapAssumption
                <5>3. CASE x # a /\ x # b
                    <6>1. x \in blocks[h] /\ head'[h][x] = head[h][x] /\ x \in Nat
                          /\ head[h][x].size \in Nat
                        BY <5>3, <3>2, <3>3, <3>6, <1>7
                    <6>2. /\ x + head[h][x].size + Hdr <= Size(h)
                          /\ head[h][x].next # Null =>
                               /\ head[h][x].next \in blocks[h]
                               /\ head[h][x].next = x + head[h][x].size + Hdr
                          /\ \A y \in blocks[h] : x < y => x + head[h][x].size + Hdr <= y
                        BY <6>1, <3>1 DEF Tiled, BlockEnd
                    <6>3. x < b => x + head[h][x].size + Hdr <= b
                        <7>1. x < a \/ a < x
                            BY <5>3, <6>1, <1>2
                        <7> QED
                            BY <7>1, <6>1, <6>2, <5>0, <3>1, <1>2, HeapAssumption
                    <6> QED
                        BY <6>1, <6>2, <6>3, <1>7
                <5> QED
                    BY <5>1, <5>2, <5>3
            <4> QED
                BY <2>2, <4>1, <4>2 DEF Tiled, BlockEnd, Size
        <3>8. HeldOnce(g)'
            <4>1. \A m \in Handles \ {k} : held'[m] = held[m]
                BY <1>8 DEF HeapInv, TypeOK
            <4>2. held'[k] = [heap |-> h, addr |-> a, len |-> len]
                BY <1>8 DEF HeapInv, TypeOK
            <4>3. \A m \in Handles \ {k} : held[m] # None /\ held[m].heap = h =>
                     /\ held[m].addr \in blocks[h] \ {a} /\ held[m].addr + held[m].len + Hdr < End(h)
                     /\ ~head[h][held[m].addr].is_free /\ head[h][held[m].addr].size = held[m].len
                BY <3>1, <1>2 DEF HeldOnce
            <4>4. \A m, n \in Handles \ {k} :
                     held[m] # None /\ held[m].heap = h /\ held[n] # None /\ held[n].heap = h /\ m # n =>
                         held[m].addr # held[n].addr
                BY <3>1 DEF HeldOnce
            <4>5. a \in blocks'[h] /\ ~head'[h][a].is_free /\ head'[h][a].size = len
                BY <1>6, <1>7, <3>1
            <4>6. \A m \in Handles \ {k} : held'[m] # None /\ held'[m].heap = h =>
                     /\ held'[m].addr \in blocks'[h] \ {a}
                     /\ ~head'[h][held'[m].addr].is_free
                     /\ head'[h][held'[m].addr].size = held'[m].len
                BY <4>1, <4>3, <3>6, <1>7
            <4> QED
                BY <2>2, <4>1, <4>2, <4>3, <4>4, <4>5, <4>6, <1>8 DEF HeldOnce, End
        <3> QED
            BY <2>2, <3>7, <3>8
    <2> QED
        BY <2>1, <2>2
<1>14. OpOnBlock'
    BY <1>8 DEF OpOnBlock, Idle
<1> QED
    BY <1>10, <1>11, <1>12, <1>13, <1>14 DEF HeapInv

(* kfree and ufree up to the loop.  In a heap that was not overwritten the *)
(* header is the block's own; used may be that of another heap.            *)
LEMMA FreeBeginHeap ==
    ASSUME HeapInv, NEW t \in Threads, NEW k \in Handles, FreeBegin(t, k)
    PROVE  HeapInv'
<1> DEFINE h == held[k].heap
           a == held[k].addr
           freed == [head[h][a] EXCEPT !.is_free = TRUE]
<1>1. /\ held[k] \in Block /\ h \in Heaps /\ a \in Nat /\ Charged(t, held[k]) \in Accounts
    BY DEF FreeBegin, HeapInv, TypeOK, Block, Charged, Accounts
<1>2. a \in DOMAIN head[h] /\ head[h][a] \in Header /\ freed \in Header
    <2>1. a \in DOMAIN head[h]
        BY DEF FreeBegin, HeapInv, Links
    <2>2. head[h][a] \in Header
        BY <1>1, <2>1 DEF HeapInv, TypeOK
    <2>3. freed \in Header
        BY <2>2 DEF Header
    <2> QED
        BY <2>1, <2>2, <2>3
<1>3. head' = [head EXCEPT ![h][a].is_free = TRUE]
    BY DEF FreeBegin
<1>4. /\ DOMAIN head' = Heaps
      /\ \A g \in Heaps \ {h} : head'[g] = head[g]
      /\ head'[h] = [head[h] EXCEPT ![a] = freed]
      /\ DOMAIN head'[h] = DOMAIN head[h]
    BY <1>1, <1>2, <1>3 DEF HeapInv, TypeOK
<1>5. /\ head'[h][a] = freed
      /\ \A x \in DOMAIN head[h] \ {a} : head'[h][x] = head[h][x]
      /\ freed.size = head[h][a].size /\ freed.next = head[h][a].next /\ freed.is_free
    BY <1>2, <1>4 DEF Header
<1>6. /\ \A g \in Heaps : DOMAIN head'[g] = DOMAIN head[g]
      /\ \A g \in Heaps : \A x \in DOMAIN head[g] :
           head'[g][x].size = head[g][x].size /\ head'[g][x].next = head[g][x].next
    <2>1. \A g \in Heaps : DOMAIN head'[g] = DOMAIN head[g]
        BY <1>4
    <2>2. ASSUME NEW g \in Heaps, NEW x \in DOMAIN head[g]
          PROVE  head'[g][x].size = head[g][x].size /\ head'[g][x].next = head[g][x].next
        <3>1. CASE g # h
            BY <3>1, <1>4
        <3>2. CASE g = h /\ x = a
            BY <3>2, <1>5
        <3>3. CASE g = h /\ x # a
            BY <3>3, <1>5
        <3> QED
            BY <3>1, <3>2, <3>3
    <2> QED
        BY <2>1, <2>2
<1>7. /\ held' = [held EXCEPT ![k] = None] /\ blocks' = blocks /\ tight' = tight
      /\ beyond' = beyond /\ forked' = forked /\ alive' = alive
      /\ op' = [at |-> "merge", heap |-> h, cur |-> a]
    BY DEF FreeBegin
<1>8. \A m \in Handles : held'[m] # None => m # k /\ held'[m] = held[m]
    BY <1>7 DEF HeapInv, TypeOK
<1>9. TypeOK'
    <2>1. used' \in [Accounts -> 0 .. WordMod - 1]
        <3> DEFINE c == Charged(t, held[k])
        <3>1. used[c] \in Int /\ head[h][a].size \in Int
            BY <1>1, <1>2, HeapAssumption DEF HeapInv, TypeOK, Header
        <3>2. (used[c] - head[h][a].size) % WordMod \in 0 .. WordMod - 1
            BY <3>1, WordRange
        <3>3. used' = [used EXCEPT ![c] = (used[c] - head[h][a].size) % WordMod]
            BY DEF FreeBegin
        <3> QED
            BY <3>2, <3>3 DEF HeapInv, TypeOK
    <2>2. held' \in [Handles -> Block \cup {None}]
        BY <1>7 DEF HeapInv, TypeOK
    <2>3. \A g \in Heaps : \A x \in DOMAIN head'[g] : head'[g][x] \in Header
        <3> TAKE g \in Heaps
        <3>1. CASE g = h
            BY <3>1, <1>2, <1>4, <1>5 DEF HeapInv, TypeOK
        <3>2. CASE g # h
            BY <3>2, <1>4 DEF HeapInv, TypeOK
        <3> QED
            BY <3>1, <3>2
    <2>4. op' \in Op
        BY <1>1, <1>7 DEF Op
    <2> QED
        BY <2>1, <2>2, <2>3, <2>4, <1>4, <1>6, <1>7 DEF HeapInv, TypeOK
<1>10. AreFunctions'
    <2>1. head' = [g \in Heaps |-> head'[g]]
        BY <1>3 DEF HeapInv, AreFunctions
    <2>2. \A g \in Heaps : head'[g] = [x \in DOMAIN head'[g] |-> head'[g][x]]
        <3> TAKE g \in Heaps
        <3>1. CASE g = h
            BY <3>1, <1>4 DEF HeapInv, AreFunctions
        <3>2. CASE g # h
            BY <3>2, <1>4 DEF HeapInv, AreFunctions
        <3> QED
            BY <3>1, <3>2
    <2> QED
        BY <2>1, <2>2, <1>7 DEF HeapInv, AreFunctions
<1>11. Links'
    <2>1. \A m \in Handles : held'[m] # None => held'[m].addr \in DOMAIN head'[held'[m].heap]
        BY <1>6, <1>8 DEF HeapInv, TypeOK, Links, Block
    <2>2. /\ op'.at # "idle" /\ op'.cur # Null => op'.cur \in DOMAIN head'[op'.heap]
        BY <1>1, <1>2, <1>6, <1>7
    <2> QED
        BY <2>1, <2>2, <1>6 DEF HeapInv, Links
<1>12. ASSUME NEW g \in Heaps \ tight' PROVE Tiled(g)' /\ HeldOnce(g)'
    <2>1. Tiled(g) /\ HeldOnce(g) /\ blocks[g] \subseteq DOMAIN head[g]
        BY <1>7, <1>12 DEF HeapInv, TypeOK
    <2>2. Tiled(g)'
        BY <2>1, <1>6, <1>7 DEF Tiled, BlockEnd, Size
    <2>3. \A m \in Handles : held'[m] # None /\ held'[m].heap = g =>
             /\ held'[m].addr \in blocks[g] /\ held'[m].addr + held'[m].len + Hdr < End(g)
             /\ ~head'[g][held'[m].addr].is_free /\ head'[g][held'[m].addr].size = held'[m].len
        <3> SUFFICES ASSUME NEW m \in Handles, held'[m] # None /\ held'[m].heap = g
                     PROVE  /\ held'[m].addr \in blocks[g]
                            /\ held'[m].addr + held'[m].len + Hdr < End(g)
                            /\ ~head'[g][held'[m].addr].is_free
                            /\ head'[g][held'[m].addr].size = held'[m].len
            OBVIOUS
        <3>1. /\ m # k /\ held'[m] = held[m] /\ held[m].addr \in blocks[g]
              /\ held[m].addr + held[m].len + Hdr < End(g)
              /\ ~head[g][held[m].addr].is_free /\ head[g][held[m].addr].size = held[m].len
            BY <1>8, <2>1 DEF HeldOnce
        <3>2. g = h => held[m].addr # a
            BY <2>1, <3>1 DEF HeldOnce, FreeBegin
        <3>3. head'[g][held[m].addr] = head[g][held[m].addr]
            BY <3>1, <3>2, <2>1, <1>4, <1>5
        <3> QED
            BY <3>1, <3>3
    <2>4. \A m, n \in Handles : held'[m] # None /\ held'[m].heap = g /\ held'[n] # None
                               /\ held'[n].heap = g /\ m # n => held'[m].addr # held'[n].addr
        BY <1>8, <2>1 DEF HeldOnce
    <2>5. HeldOnce(g)'
        BY <2>3, <2>4, <1>7 DEF HeldOnce, End
    <2> QED
        BY <2>2, <2>5
<1>13. OpOnBlock'
    <2>1. h \notin tight => a \in blocks[h]
        BY <1>1 DEF HeapInv, HeldOnce, FreeBegin
    <2> QED
        BY <2>1, <1>5, <1>7 DEF OpOnBlock
<1> QED
    BY <1>9, <1>10, <1>11, <1>12, <1>13 DEF HeapInv

(* A header that is in use no more is left alone.                          *)
LEMMA FreeIgnoredHeap ==
    ASSUME HeapInv, NEW k \in Handles, FreeIgnored(k)
    PROVE  HeapInv'
<1>1. /\ held' = [held EXCEPT ![k] = None]
      /\ UNCHANGED <<head, used, alive, op, beyond, forked, blocks, tight>>
    BY DEF FreeIgnored
<1>2. \A m \in Handles : held'[m] # None => m # k /\ held'[m] = held[m]
    BY <1>1 DEF HeapInv, TypeOK
<1>3. TypeOK'
    <2>1. held' \in [Handles -> Block \cup {None}]
        BY <1>1 DEF HeapInv, TypeOK
    <2> QED
        BY <2>1, <1>1 DEF HeapInv, TypeOK
<1>4. AreFunctions' /\ Links' /\ OpOnBlock'
    BY <1>1, <1>2 DEF HeapInv, AreFunctions, Links, OpOnBlock
<1>5. \A h \in Heaps \ tight : Tiled(h)' /\ HeldOnce(h)'
    BY <1>1, <1>2 DEF HeapInv, Tiled, HeldOnce, BlockEnd, Size, End
<1> QED
    BY <1>1, <1>3, <1>4, <1>5 DEF HeapInv

(* The fields of a header.                                                 *)
LEMMA SizesAreNat ==
    ASSUME NEW x \in Header
    PROVE  x.size \in Nat /\ x.next \in Nat \cup {Null}
    BY HeapAssumption DEF Header

(* One iteration of the loop that merges: the next block, which is free    *)
(* and begins where this one ends, becomes part of it.                     *)
LEMMA MergeHeap ==
    ASSUME HeapInv, Merge
    PROVE  HeapInv'
<1> DEFINE h == op.heap
           a == op.cur
           b == head[h][a].next
           merged == [size |-> (head[h][a].size + head[h][b].size + Hdr) % WordMod,
                      is_free |-> TRUE, next |-> head[h][b].next]
<1>1. op \in [at : {"merge"}, heap : Heaps, cur : Nat] /\ h \in Heaps /\ a \in Nat /\ a # Null
    BY HeapAssumption DEF Merge, Merging, HeapInv, TypeOK, Op, Idle
<1>1a. op.heap = h /\ op.cur = a /\ b = head[h][a].next
    OBVIOUS
<1> HIDE DEF h, a, b, merged
<1>2. /\ a \in DOMAIN head[h] /\ head[h][a] \in Header
      /\ b # Null /\ b \in DOMAIN head[h] /\ head[h][b] \in Header /\ head[h][b].is_free
    <2>1. a \in DOMAIN head[h]
        BY <1>1, <1>1a DEF HeapInv, Links
    <2>2. b # Null /\ head[h][b].is_free
        BY <1>1a DEF Merge, Mergeable, Cur
    <2>3. b \in DOMAIN head[h]
        BY <1>1, <1>1a, <2>1, <2>2 DEF HeapInv, Links
    <2> QED
        BY <1>1, <2>1, <2>2, <2>3 DEF HeapInv, TypeOK
<1>3. merged \in Header
    <2>1. head[h][a].size \in Nat /\ head[h][b].size \in Nat /\ head[h][b].next \in Nat \cup {Null}
        BY <1>2, SizesAreNat
    <2>2. (head[h][a].size + head[h][b].size + Hdr) % WordMod \in 0 .. WordMod - 1
        <3>1. head[h][a].size + head[h][b].size + Hdr \in Int
            BY <2>1, HeapAssumption
        <3> QED
            BY <3>1, WordRange
    <2> QED
        BY <2>1, <2>2 DEF Header, merged
<1>4. head' = [head EXCEPT ![h] =
                 [x \in DOMAIN head[h] |-> IF x = a THEN merged ELSE head[h][x]]]
    BY <1>1a DEF Merge, Cur, merged
<1>5. /\ DOMAIN head' = Heaps
      /\ \A g \in Heaps \ {h} : head'[g] = head[g]
      /\ head'[h] = [x \in DOMAIN head[h] |-> IF x = a THEN merged ELSE head[h][x]]
      /\ DOMAIN head'[h] = DOMAIN head[h] /\ head'[h][a] = merged
      /\ \A x \in DOMAIN head[h] \ {a} : head'[h][x] = head[h][x]
    BY <1>1, <1>2, <1>4 DEF HeapInv, TypeOK
<1>5a. /\ head'[h][a].next = head[h][b].next /\ head'[h][a].is_free
       /\ head'[h][a].size = merged.size
    <2> DEFINE w == (head[h][a].size + head[h][b].size + Hdr) % WordMod
               n == head[h][b].next
    <2>1. head'[h][a] = [size |-> w, is_free |-> TRUE, next |-> n] /\ merged.size = w
        BY <1>5 DEF merged
    <2> HIDE DEF w, n
    <2>2. head'[h][a].next = n /\ head'[h][a].is_free /\ head'[h][a].size = w
        BY <2>1
    <2> QED
        BY <2>1, <2>2 DEF n
<1>6. /\ UNCHANGED <<used, alive, held, op, beyond, forked, tight>>
      /\ DOMAIN blocks' = Heaps /\ blocks'[h] = blocks[h] \ {b}
      /\ \A g \in Heaps \ {h} : blocks'[g] = blocks[g]
    BY <1>1, <1>1a DEF Merge, Cur, HeapInv, TypeOK
<1>7. \A g \in Heaps : DOMAIN head'[g] = DOMAIN head[g]
    BY <1>5
<1>8. TypeOK'
    <2>1. \A g \in Heaps : /\ DOMAIN head'[g] \subseteq Nat
                            /\ \A x \in DOMAIN head'[g] : head'[g][x] \in Header
                            /\ blocks'[g] \subseteq DOMAIN head'[g]
        <3> TAKE g \in Heaps
        <3>1. CASE g = h
            BY <3>1, <1>3, <1>5, <1>6 DEF HeapInv, TypeOK
        <3>2. CASE g # h
            BY <3>2, <1>5, <1>6 DEF HeapInv, TypeOK
        <3> QED
            BY <3>1, <3>2
    <2> QED
        BY <2>1, <1>5, <1>6 DEF HeapInv, TypeOK
<1>9. AreFunctions'
    <2>1. head' = [g \in Heaps |-> head'[g]]
        BY <1>4 DEF HeapInv, AreFunctions
    <2>2. blocks' = [g \in Heaps |-> blocks'[g]]
        BY DEF Merge, HeapInv, AreFunctions
    <2>3. \A g \in Heaps : head'[g] = [x \in DOMAIN head'[g] |-> head'[g][x]]
        <3> TAKE g \in Heaps
        <3>1. CASE g = h
            BY <3>1, <1>5
        <3>2. CASE g # h
            BY <3>2, <1>5 DEF HeapInv, AreFunctions
        <3> QED
            BY <3>1, <3>2
    <2> QED
        BY <2>1, <2>2, <2>3 DEF AreFunctions
<1>10. Links'
    <2>1. ASSUME NEW g \in Heaps, NEW x \in DOMAIN head'[g], head'[g][x].next # Null
          PROVE  head'[g][x].next \in DOMAIN head'[g]
        <3>1. CASE g # h
            BY <3>1, <2>1, <1>5 DEF HeapInv, Links
        <3>2. CASE g = h /\ x = a
            BY <3>2, <2>1, <1>1, <1>2, <1>5a, <1>7 DEF HeapInv, Links
        <3>3. CASE g = h /\ x # a
            BY <3>3, <2>1, <1>1, <1>5 DEF HeapInv, Links
        <3> QED
            BY <3>1, <3>2, <3>3
    <2>2. \A m \in Handles : held[m] # None => held[m].addr \in DOMAIN head'[held[m].heap]
        BY <1>7 DEF HeapInv, TypeOK, Links, Block
    <2>3. \A g \in Heaps : 0 \in DOMAIN head'[g]
        BY <1>7 DEF HeapInv, Links
    <2>4. a \in DOMAIN head'[h]
        BY <1>2, <1>5
    <2> QED
        BY <1>1a, <2>1, <2>2, <2>3, <2>4, <1>6 DEF Links
<1>11. h \notin tight => Tiled(h) /\ HeldOnce(h) /\ a \in blocks[h] /\ head[h][a].is_free
    BY <1>1, <1>1a DEF HeapInv, OpOnBlock
<1>12. h \notin tight =>
          /\ b \in blocks[h] /\ b = a + head[h][a].size + Hdr /\ b > a
          /\ b + head[h][b].size + Hdr <= Size(h)
          /\ merged.size = head[h][a].size + head[h][b].size + Hdr
    <2> SUFFICES ASSUME h \notin tight
                 PROVE  /\ b \in blocks[h] /\ b = a + head[h][a].size + Hdr /\ b > a
                        /\ b + head[h][b].size + Hdr <= Size(h)
                        /\ merged.size = head[h][a].size + head[h][b].size + Hdr
        OBVIOUS
    <2>1. b \in blocks[h] /\ b = a + head[h][a].size + Hdr /\ b + head[h][b].size + Hdr <= Size(h)
        BY <1>2, <1>1a, <1>11 DEF Tiled, BlockEnd
    <2>2. head[h][a].size \in Nat /\ head[h][b].size \in Nat
        BY <1>2, SizesAreNat
    <2>3. Size(h) \in Nat /\ Size(h) < WordMod
        BY <1>1, HeapAssumption DEF Size
    <2>4. head[h][a].size + head[h][b].size + Hdr \in 0 .. WordMod - 1
        BY <1>1, <2>1, <2>2, <2>3, HeapAssumption
    <2>5. (head[h][a].size + head[h][b].size + Hdr) % WordMod
             = head[h][a].size + head[h][b].size + Hdr
        BY <2>4, WordRange
    <2>6. b > a
        BY <1>1, <2>1, <2>2, HeapAssumption
    <2> QED
        BY <2>1, <2>5, <2>6 DEF merged
<1>13. ASSUME NEW g \in Heaps \ tight' PROVE Tiled(g)' /\ HeldOnce(g)'
    <2>1. Tiled(g) /\ HeldOnce(g) /\ blocks[g] \subseteq DOMAIN head[g] /\ blocks[g] \subseteq Nat
        BY <1>6, <1>13 DEF HeapInv, TypeOK
    <2>2. CASE g # h
        <3>1. head'[g] = head[g] /\ blocks'[g] = blocks[g]
            BY <2>2, <1>5, <1>6
        <3> QED
            BY <3>1, <2>1, <1>6 DEF Tiled, HeldOnce, BlockEnd, Size, End
    <2>3. CASE g = h
        <3>1. /\ h \notin tight /\ b \in blocks[h] /\ a \in blocks[h]
              /\ b = a + head[h][a].size + Hdr /\ b > a
              /\ b + head[h][b].size + Hdr <= Size(h)
              /\ head[h][a].is_free
            BY <2>3, <1>6, <1>13, <1>11, <1>12
        <3>2. \A x \in blocks[h] : head[h][x].size \in Nat
            <4>1. \A x \in blocks[h] : head[h][x] \in Header
                BY <2>1, <2>3 DEF HeapInv, TypeOK
            <4> QED
                BY <4>1, SizesAreNat
        <3>3. \A x \in blocks'[h] \ {a} : x \in blocks[h] \ {b} /\ head'[h][x] = head[h][x]
            BY <2>1, <2>3, <1>5, <1>6
        <3>4. /\ head'[h][a].size = head[h][a].size + head[h][b].size + Hdr
              /\ head'[h][a].next = head[h][b].next
              /\ a + head'[h][a].size + Hdr = b + head[h][b].size + Hdr
            <4>1. /\ head'[h][a].size = head[h][a].size + head[h][b].size + Hdr
                  /\ head'[h][a].next = head[h][b].next
                BY <1>5a, <1>12, <3>1
            <4>2. head[h][a].size \in Nat /\ head[h][b].size \in Nat /\ a \in Nat /\ Hdr \in Nat
                BY <1>1, <3>1, <3>2, HeapAssumption
            <4>3. PICK u \in Nat, v \in Nat : u = head[h][a].size /\ v = head[h][b].size
                BY <4>2
            <4>4. head'[h][a].size = u + v + Hdr /\ b = a + u + Hdr
                BY <4>1, <4>3, <3>1
            <4>5. a + head'[h][a].size + Hdr = b + v + Hdr
                BY <4>2, <4>3, <4>4
            <4> QED
                BY <4>1, <4>3, <4>5, Zenon
        <3>5. \A x, y \in blocks[h] : x < y => x + head[h][x].size + Hdr <= y
            BY <2>1, <2>3 DEF Tiled, BlockEnd
        <3>6. \A x \in blocks[h] : head[h][x].next # Null =>
                 head[h][x].next \in blocks[h] /\ head[h][x].next = x + head[h][x].size + Hdr
            BY <2>1, <2>3 DEF Tiled, BlockEnd
        <3>7. ASSUME NEW x \in blocks'[h]
              PROVE  /\ x + head'[h][x].size + Hdr <= Size(h)
                     /\ head'[h][x].next # Null =>
                           /\ head'[h][x].next \in blocks'[h]
                           /\ head'[h][x].next = x + head'[h][x].size + Hdr
                     /\ \A y \in blocks'[h] : x < y => x + head'[h][x].size + Hdr <= y
            <4>1. CASE x = a
                <5>1. x + head'[h][x].size + Hdr = b + head[h][b].size + Hdr
                    BY <4>1, <3>4
                <5>2. head'[h][x].next # Null =>
                         /\ head'[h][x].next \in blocks[h]
                         /\ head'[h][x].next = b + head[h][b].size + Hdr
                    BY <4>1, <3>1, <3>4, <3>6
                <5>3. b + head[h][b].size + Hdr # b
                    BY <3>1, <3>2, <2>1, <2>3, HeapAssumption
                <5>4. \A y \in blocks'[h] : x < y => y \in blocks[h] /\ b < y
                    <6> SUFFICES ASSUME NEW y \in blocks'[h], a < y PROVE y \in blocks[h] /\ b < y
                        BY <4>1
                    <6>1. y \in blocks[h] /\ y # b /\ y \in Nat /\ b \in Nat
                        BY <1>6, <2>1, <2>3, <3>1
                    <6>2. b <= y
                        BY <6>1, <3>1, <3>5
                    <6> QED
                        BY <6>1, <6>2
                <5>5. \A y \in blocks'[h] : x < y => b + head[h][b].size + Hdr <= y
                    BY <5>4, <3>1, <3>5
                <5> QED
                    BY <5>1, <5>2, <5>3, <5>5, <3>1, <1>6
            <4>2. CASE x # a
                <5>1. x \in blocks[h] \ {b} /\ head'[h][x] = head[h][x] /\ x \in Nat
                    BY <4>2, <3>3, <2>1, <2>3
                <5>2. x + head[h][x].size + Hdr <= Size(h)
                    BY <5>1, <2>1, <2>3 DEF Tiled, BlockEnd
                <5>3. head[h][x].next # b
                    <6>1. SUFFICES ASSUME x + head[h][x].size + Hdr = b PROVE FALSE
                        BY <5>1, <3>1, <3>6, <1>2
                    <6>2. x < b /\ b \in Nat
                        BY <6>1, <5>1, <3>2, <3>1, <2>1, <2>3, HeapAssumption
                    <6>3. x < a \/ a < x
                        BY <4>2, <5>1, <1>1
                    <6>4. x < a => x + head[h][x].size + Hdr <= a
                        BY <5>1, <3>1, <3>5
                    <6>5. a < x => b <= x
                        BY <5>1, <3>1, <3>5
                    <6> QED
                        BY <6>1, <6>2, <6>3, <6>4, <6>5, <5>1, <3>1, <1>1
                <5> QED
                    BY <5>1, <5>2, <5>3, <3>5, <3>6, <1>6
            <4> QED
                BY <4>1, <4>2
        <3>8. 0 \in blocks'[h]
            BY <2>1, <2>3, <3>1, <1>1, <1>6 DEF Tiled
        <3>9. Tiled(g)'
            BY <2>3, <3>7, <3>8 DEF Tiled, BlockEnd, Size
        <3>10. \A m \in Handles : held[m] # None /\ held[m].heap = h =>
                  /\ held[m].addr \in blocks[h] \ {a, b} /\ held[m].addr + held[m].len + Hdr < End(h)
                  /\ ~head[h][held[m].addr].is_free /\ head[h][held[m].addr].size = held[m].len
            BY <2>1, <2>3, <3>1, <1>2 DEF HeldOnce
        <3>11. \A m \in Handles : held[m] # None /\ held[m].heap = h =>
                  /\ held[m].addr \in blocks'[h]
                  /\ head'[h][held[m].addr] = head[h][held[m].addr]
            BY <3>10, <3>3, <1>6
        <3>12. HeldOnce(g)'
            BY <2>1, <2>3, <3>10, <3>11, <1>6 DEF HeldOnce, End
        <3> QED
            BY <3>9, <3>12
    <2> QED
        BY <2>2, <2>3
<1>14. OpOnBlock'
    <2>1. h \notin tight => a \in blocks'[h] /\ head'[h][a].is_free
        <3>1. head'[h][a].is_free
            BY <1>5a
        <3>2. h \notin tight => a \in blocks[h] /\ a # b
            BY <1>1, <1>11, <1>12
        <3> QED
            BY <3>1, <3>2, <1>6
    <2> QED
        BY <2>1, <1>6, <1>1a DEF OpOnBlock
<1> QED
    BY <1>8, <1>9, <1>10, <1>13, <1>14 DEF HeapInv

(* The chains are left alone: refusals, forks and exits, the model's end.  *)
LEMMA StillHeap ==
    ASSUME HeapInv, UNCHANGED <<head, held, op, blocks, tight>>,
           used' \in [Accounts -> 0 .. WordMod - 1], alive' \subseteq Threads,
           beyond' \in BOOLEAN, forked' \in BOOLEAN
    PROVE  HeapInv'
<1>1. TypeOK'
    BY DEF HeapInv, TypeOK
<1>2. AreFunctions' /\ Links' /\ OpOnBlock'
    BY DEF HeapInv, AreFunctions, Links, OpOnBlock
<1>3. \A h \in Heaps \ tight : Tiled(h)' /\ HeldOnce(h)'
    BY DEF HeapInv, Tiled, HeldOnce, BlockEnd, Size, End
<1> QED
    BY <1>1, <1>2, <1>3 DEF HeapInv

(* A thread comes with a count of its own, or goes.                        *)
LEMMA ForkExitHeap ==
    ASSUME HeapInv, NEW t \in Threads, NEW c \in Threads, Fork(t, c) \/ Exit(t)
    PROVE  HeapInv'
<1>1. used \in [Accounts -> 0 .. WordMod - 1] /\ alive \subseteq Threads
      /\ beyond \in BOOLEAN /\ forked \in BOOLEAN
    BY DEF HeapInv, TypeOK
<1>2. t \in Accounts /\ c \in Accounts
    BY DEF Accounts
<1>3. 0 \in 0 .. WordMod - 1
    BY HeapAssumption
<1>4. used[t] \in 0 .. WordMod - 1
    BY <1>1, <1>2
<1>5. CASE Fork(t, c)
    <2>1. used' = [used EXCEPT ![c] = used[t]] /\ alive' = alive \cup {c}
          /\ forked' = TRUE /\ UNCHANGED <<head, held, op, beyond, blocks, tight>>
        BY <1>5 DEF Fork
    <2> QED
        BY <1>1, <1>4, <2>1, StillHeap
<1>6. CASE Exit(t)
    <2>1. used' = [used EXCEPT ![t] = 0] /\ alive' = alive \ {t}
          /\ UNCHANGED <<head, held, op, beyond, forked, blocks, tight>>
        BY <1>6 DEF Exit
    <2> QED
        BY <1>1, <1>3, <2>1, StillHeap
<1> QED
    BY <1>5, <1>6

(* The allocator keeps its chains: HeapInv holds in every state of every   *)
(* behaviour of kmalloc, kfree, malloc and free, forks and exits, up to    *)
(* where a header is written beyond a heap's memory.                       *)
THEOREM HeapInvariant == Spec => []HeapInv
<1>1. ASSUME HeapInv, [Next]_vars PROVE HeapInv'
    <2>0. ASSUME NEW t \in Threads, NEW c \in Threads, Fork(t, c) \/ Exit(t) PROVE HeapInv'
        BY <1>1, <2>0, ForkExitHeap
    <2>1. CASE UNCHANGED vars
        BY <1>1, <2>1, StillHeap DEF vars, HeapInv, TypeOK
    <2>2. ASSUME NEW c \in Accounts, AllocRefused(c) PROVE HeapInv'
        BY <1>1, <2>2, StillHeap DEF vars, HeapInv, TypeOK, AllocRefused
    <2>3. ASSUME NEW c \in Accounts, NEW len \in Lens, AllocBegin(c, len) PROVE HeapInv'
        BY <1>1, <2>3, AllocBeginHeap
    <2>4. CASE SearchNext
        BY <1>1, <2>4, SearchNextHeap
    <2>5. CASE SearchFails \/ MergeEnd
        BY <1>1, <2>5, IdleHeap
    <2>6. CASE TakeBeyond
        BY <1>1, <2>6, StillHeap DEF TakeBeyond, HeapInv, TypeOK
    <2>7. ASSUME NEW k \in Handles, Take(k) PROVE HeapInv'
        BY <1>1, <2>7, TakeHeap
    <2>8. ASSUME NEW k \in Handles, FreeIgnored(k) PROVE HeapInv'
        BY <1>1, <2>8, FreeIgnoredHeap
    <2>9. ASSUME NEW k \in Handles, NEW t \in Threads, FreeBegin(t, k) PROVE HeapInv'
        BY <1>1, <2>9, FreeBeginHeap
    <2>10. CASE Merge
        BY <1>1, <2>10, MergeHeap
    <2> QED
        BY <1>1, <2>0, <2>1, <2>2, <2>3, <2>4, <2>5, <2>6, <2>7, <2>8, <2>9, <2>10 DEF Next
<1> QED
    BY <1>1, InitHeap, PTL DEF Spec

(* A block's payload ends before its end in the chain.                     *)
LEMMA PayloadFits ==
    ASSUME NEW len \in Nat
    PROVE  (len + Hdr - 1) \div Hdr \in Nat /\ (len + Hdr - 1) \div Hdr < len + Hdr
<1> DEFINE n == len + Hdr - 1
           q == n \div Hdr
<1>1. n \in Nat /\ Hdr \in Nat \ {0}
    BY HeapAssumption
<1>2. q \in Nat /\ q * Hdr <= n
    BY <1>1, DivTimes
<1>3. q * 1 <= q * Hdr /\ q * Hdr \in Nat
    BY <1>1, <1>2, TimesMonotonic
<1>4. q <= n
    BY <1>1, <1>2, <1>3
<1> QED
    BY <1>1, <1>2, <1>4

(* Whatever kmalloc, kfree, malloc and free are called with, and in which  *)
(* order, and whatever threads come and go: blocks that are held do not    *)
(* overlap, lie in the heap's memory and keep their headers, in each heap  *)
(* where no block without room for the second header was taken, and up to  *)
(* where a header is written beyond a heap's memory.                       *)
THEOREM BlocksStayApart == Spec => []ApartUntilTight
<1>1. ASSUME HeapInv PROVE ApartUntilTight
    <2> SUFFICES ASSUME NEW h \in Heaps \ tight, NEW k \in Handles, held[k] # None, held[k].heap = h
                 PROVE  /\ InUse(held[k]) /\ head[h][held[k].addr].size = held[k].len
                        /\ Extent(held[k]) \subseteq 0 .. End(h) - 1
                        /\ \A m \in Handles \ {k} : held[m] # None /\ held[m].heap = h =>
                              Extent(held[k]) \cap Extent(held[m]) = {}
        BY DEF ApartUntilTight, BlocksApart
    <2>1. Tiled(h) /\ HeldOnce(h) /\ blocks[h] \subseteq Nat
        BY <1>1 DEF HeapInv, TypeOK
    <2>2. InUse(held[k]) /\ head[h][held[k].addr].size = held[k].len
        BY <2>1 DEF HeldOnce, InUse
    <2>2a. Extent(held[k]) \subseteq 0 .. End(h) - 1
        <3> DEFINE a == held[k].addr
                   p == (held[k].len + Hdr - 1) \div Hdr
        <3>1. a \in Nat /\ a + held[k].len + Hdr < End(h)
            BY <2>1 DEF HeldOnce
        <3>2. held[k].len \in Nat
            BY <1>1, HeapAssumption DEF HeapInv, TypeOK, Block
        <3>3. p \in Nat /\ p < held[k].len + Hdr
            BY <3>2, PayloadFits
        <3>4. Extent(held[k]) = a .. a + p
            BY DEF Extent
        <3>5. End(h) \in Nat /\ Hdr \in Nat
            BY HeapAssumption, DivTimes DEF End
        <3> HIDE DEF a, p
        <3> QED
            BY <3>1, <3>2, <3>3, <3>4, <3>5
    <2>3. ASSUME NEW m \in Handles \ {k}, held[m] # None, held[m].heap = h
          PROVE  Extent(held[k]) \cap Extent(held[m]) = {}
        <3> DEFINE a == held[k].addr
                   b == held[m].addr
        <3>1. /\ a \in blocks[h] /\ b \in blocks[h] /\ a # b /\ a \in Nat /\ b \in Nat
              /\ head[h][a].size = held[k].len /\ head[h][b].size = held[m].len
            BY <2>1, <2>3 DEF HeldOnce
        <3>2. held[k].len \in Nat /\ held[m].len \in Nat
            BY <1>1, <2>3, HeapAssumption DEF HeapInv, TypeOK, Block
        <3>3. /\ a < b => a + held[k].len + Hdr <= b
              /\ b < a => b + held[m].len + Hdr <= a
            BY <2>1, <3>1 DEF Tiled, BlockEnd
        <3>4. /\ (held[k].len + Hdr - 1) \div Hdr \in Nat
              /\ (held[k].len + Hdr - 1) \div Hdr < held[k].len + Hdr
              /\ (held[m].len + Hdr - 1) \div Hdr \in Nat
              /\ (held[m].len + Hdr - 1) \div Hdr < held[m].len + Hdr
            BY <3>2, PayloadFits
        <3> DEFINE p == (held[k].len + Hdr - 1) \div Hdr
                   q == (held[m].len + Hdr - 1) \div Hdr
        <3>5. Extent(held[k]) = a .. a + p /\ Extent(held[m]) = b .. b + q
            BY DEF Extent
        <3>6. /\ p \in Nat /\ p < held[k].len + Hdr
              /\ q \in Nat /\ q < held[m].len + Hdr
            BY <3>4
        <3> HIDE DEF p, q
        <3>7. a + p < b \/ b + q < a
            BY <3>1, <3>2, <3>3, <3>6, HeapAssumption
        <3> QED
            BY <3>1, <3>5, <3>6, <3>7
    <2> QED
        BY <2>2, <2>2a, <2>3
<1> QED
    BY <1>1, HeapInvariant, PTL

-----------------------------------------------------------------------------
(* Sums over a finite set, as MapThenSumSet computes them: it takes the    *)
(* elements away one by one, always the one that Pick names.               *)
Pick(s) == CHOOSE x \in s : TRUE
SumStep(it, f, s) == IF s = {} THEN 0 ELSE f[Pick(s)] + it[s \ {Pick(s)}]
Sums(it, f, S) ==
    \A s \in SUBSET S :
        /\ s = {} => it[s] = 0
        /\ s # {} => /\ Pick(s) \in s /\ s \ {Pick(s)} \in SUBSET S
                     /\ it[s] = f[Pick(s)] + it[s \ {Pick(s)}]

(* The element that is summed first is one of the set.                     *)
LEMMA PickIn ==
    ASSUME NEW s, s # {}
    PROVE  Pick(s) \in s
    BY Zenon DEF Pick

(* Among sets of subsets, one that is not reached by taking an element     *)
(* away: the base of every induction below.                                *)
LEMMA SmallestSubset ==
    ASSUME NEW S, IsFiniteSet(S), NEW B, B \subseteq SUBSET S, B # {}
    PROVE  \E s \in SUBSET S : s \in B /\ \A x \in s : s \ {x} \notin B
<1> DEFINE T == {n \in Nat : \E s \in B : Cardinality(s) = n}
<1>1. ASSUME NEW s \in B PROVE IsFiniteSet(s) /\ Cardinality(s) \in Nat
    <2>1. s \in SUBSET S
        OBVIOUS
    <2>2. IsFiniteSet(s)
        BY <2>1, FS_Subset
    <2> QED
        BY <2>2, FS_CardinalityType
<1>2. PICK n \in T : \A y \in T : n <= y
    <2>1. T \subseteq Nat /\ T # {}
        BY <1>1
    <2> HIDE DEF T
    <2> QED
        BY <2>1, LeastNat
<1>3. PICK s \in B : Cardinality(s) = n
    BY <1>2
<1>4. ASSUME NEW x \in s, s \ {x} \in B PROVE FALSE
    <2>1. Cardinality(s \ {x}) = n - 1
        BY <1>1, <1>3, FS_RemoveElement
    <2>2. Cardinality(s \ {x}) \in T
        BY <1>1, <1>4
    <2>3. n <= Cardinality(s \ {x})
        BY <1>2, <2>2, Zenon
    <2>4. n \in Nat
        OBVIOUS
    <2> QED
        BY <2>1, <2>3, <2>4
<1> QED
    BY <1>4

(* The sums of all subsets, as one function, exist.                        *)
LEMMA SumsExist ==
    ASSUME NEW S, IsFiniteSet(S), NEW f
    PROVE  \E it : it = [s \in SUBSET S |-> SumStep(it, f, s)]
<1> DEFINE Part(it, n) == \A s \in SUBSET S : Cardinality(s) <= n => it[s] = SumStep(it, f, s)
           T == {n \in Nat : ~ \E it : Part(it, n)}
           Extend(it) == [s \in SUBSET S |-> SumStep(it, f, s)]
<1>1. ASSUME NEW s \in SUBSET S
      PROVE  /\ Cardinality(s) \in Nat /\ Cardinality(s) <= Cardinality(S)
             /\ Cardinality(s) <= 0 => s = {}
             /\ \A x \in s : s \ {x} \in SUBSET S /\ Cardinality(s \ {x}) = Cardinality(s) - 1
    <2>1. IsFiniteSet(s) /\ Cardinality(s) <= Cardinality(S)
        BY FS_Subset
    <2>2. Cardinality(s) \in Nat
        BY <2>1, FS_CardinalityType
    <2>3. Cardinality(s) = 0 => s = {}
        BY <2>1, FS_EmptySet
    <2>4. \A x \in s : Cardinality(s \ {x}) = Cardinality(s) - 1
        BY <2>1, FS_RemoveElement
    <2> QED
        BY <2>1, <2>2, <2>3, <2>4
<1>2. ASSUME NEW it, NEW n \in Nat, Part(it, n - 1) PROVE Part(Extend(it), n)
    <2> SUFFICES ASSUME NEW s \in SUBSET S, Cardinality(s) <= n
                 PROVE  Extend(it)[s] = SumStep(Extend(it), f, s)
        OBVIOUS
    <2>1. Extend(it)[s] = SumStep(it, f, s)
        OBVIOUS
    <2>2. CASE s = {}
        BY <2>1, <2>2 DEF SumStep
    <2>3. CASE s # {}
        <3> DEFINE r == s \ {Pick(s)}
        <3>1. r \in SUBSET S /\ Cardinality(r) <= n - 1
            BY <1>1, <2>3, PickIn
        <3>2. it[r] = SumStep(it, f, r)
            BY <1>2, <3>1
        <3>3. Extend(it)[r] = SumStep(it, f, r)
            BY <3>1
        <3> QED
            BY <2>1, <2>3, <3>2, <3>3 DEF SumStep
    <2> QED
        BY <2>2, <2>3
<1>3. T = {}
    <2> SUFFICES ASSUME T # {} PROVE FALSE
        OBVIOUS
    <2>1. PICK n \in T : \A y \in T : n <= y
        <3>1. T \subseteq Nat
            OBVIOUS
        <3> HIDE DEF T
        <3> QED
            BY <3>1, LeastNat
    <2>2. n # 0
        <3> DEFINE z == [s \in SUBSET S |-> 0]
        <3>1. Part(z, 0)
            BY <1>1 DEF SumStep
        <3> QED
            BY <2>1, <3>1
    <2>3. n - 1 \in Nat /\ n - 1 \notin T
        BY <2>1, <2>2
    <2>4. PICK it : Part(it, n - 1)
        BY <2>3
    <2>5. Part(Extend(it), n)
        BY <1>2, <2>4
    <2> QED
        BY <2>1, <2>5
<1>4. Cardinality(S) \in Nat
    BY <1>1
<1>5. PICK it : Part(it, Cardinality(S))
    BY <1>3, <1>4
<1>6. \A s \in SUBSET S : it[s] = SumStep(it, f, s)
    BY <1>1, <1>5
<1> DEFINE g == Extend(it)
<1>7. ASSUME NEW s \in SUBSET S PROVE SumStep(it, f, s) = SumStep(g, f, s)
    <2>1. CASE s = {}
        BY <2>1 DEF SumStep
    <2>2. CASE s # {}
        <3>1. s \ {Pick(s)} \in SUBSET S
            OBVIOUS
        <3>2. g[s \ {Pick(s)}] = it[s \ {Pick(s)}]
            BY <1>6, <3>1
        <3> QED
            BY <2>2, <3>2 DEF SumStep
    <2> QED
        BY <2>1, <2>2
<1>8. g = [s \in SUBSET S |-> SumStep(g, f, s)]
    BY <1>7
<1> QED
    BY <1>8

(* SumOver is the one of them for the whole set.                           *)
LEMMA SumOverSums ==
    ASSUME NEW S, IsFiniteSet(S), NEW f
    PROVE  \E it : Sums(it, f, S) /\ SumOver(f, S) = it[S]
<1> DEFINE iter == CHOOSE it : it = [s \in SUBSET S |-> SumStep(it, f, s)]
<1>1. iter = [s \in SUBSET S |-> SumStep(iter, f, s)]
    <2>1. \E it : it = [s \in SUBSET S |-> SumStep(it, f, s)]
        BY SumsExist
    <2> QED
        BY <2>1, Zenon
<1>2. SumOver(f, S) = iter[S]
    BY Zenon DEF SumOver, MapThenSumSet, MapThenFoldSet, SumStep, Pick
<1> HIDE DEF iter
<1>3. ASSUME NEW s \in SUBSET S
      PROVE  /\ s = {} => iter[s] = 0
             /\ s # {} => /\ Pick(s) \in s /\ s \ {Pick(s)} \in SUBSET S
                          /\ iter[s] = f[Pick(s)] + iter[s \ {Pick(s)}]
    <2>1. iter[s] = SumStep(iter, f, s)
        BY <1>1, Zenon
    <2>2. CASE s = {}
        BY <2>1, <2>2 DEF SumStep
    <2>3. CASE s # {}
        BY <2>1, <2>3, PickIn DEF SumStep
    <2> QED
        BY <2>2, <2>3
<1>4. Sums(iter, f, S)
    BY <1>3, Zenon DEF Sums
<1> QED
    BY <1>2, <1>4

(* Sums of integers are integers.                                          *)
LEMMA SumsInt ==
    ASSUME NEW S, IsFiniteSet(S), NEW f \in [S -> Int], NEW it, Sums(it, f, S)
    PROVE  \A s \in SUBSET S : it[s] \in Int
<1> DEFINE B == {s \in SUBSET S : it[s] \notin Int}
<1> SUFFICES ASSUME B # {} PROVE FALSE
    OBVIOUS
<1>1. PICK s \in SUBSET S : s \in B /\ \A x \in s : s \ {x} \notin B
    <2>1. B \subseteq SUBSET S
        OBVIOUS
    <2> HIDE DEF B
    <2> QED
        BY <2>1, SmallestSubset
<1>2. s # {} /\ Pick(s) \in s /\ s \ {Pick(s)} \in SUBSET S
      /\ it[s] = f[Pick(s)] + it[s \ {Pick(s)}]
    <2>1. s = {} => it[s] = 0
        BY <1>1 DEF Sums
    <2>2. s # {}
        BY <1>1, <2>1
    <2> QED
        BY <1>1, <2>2 DEF Sums
<1>3. it[s \ {Pick(s)}] \in Int /\ f[Pick(s)] \in Int
    BY <1>1, <1>2
<1> QED
    BY <1>1, <1>2, <1>3

(* A sum of naturals is a natural.                                         *)
LEMMA SumNat ==
    ASSUME NEW S, IsFiniteSet(S), NEW f \in [S -> Nat]
    PROVE  SumOver(f, S) \in Nat
<1>1. PICK it : Sums(it, f, S) /\ SumOver(f, S) = it[S]
    BY SumOverSums
<1> DEFINE B == {s \in SUBSET S : it[s] \notin Nat}
<1> SUFFICES ASSUME B # {} PROVE FALSE
    BY <1>1
<1>2. PICK s \in SUBSET S : s \in B /\ \A x \in s : s \ {x} \notin B
    <2>1. B \subseteq SUBSET S
        OBVIOUS
    <2> HIDE DEF B
    <2> QED
        BY <2>1, SmallestSubset
<1>3. s # {} /\ Pick(s) \in s /\ s \ {Pick(s)} \in SUBSET S
      /\ it[s] = f[Pick(s)] + it[s \ {Pick(s)}]
    <2>1. s = {} => it[s] = 0
        BY <1>1 DEF Sums
    <2>2. s # {}
        BY <1>2, <2>1
    <2> QED
        BY <1>1, <2>2 DEF Sums
<1>4. it[s \ {Pick(s)}] \in Nat /\ f[Pick(s)] \in Nat
    BY <1>2, <1>3
<1> QED
    BY <1>2, <1>3, <1>4

(* A sum with one term changed.                                            *)
LEMMA SumChange ==
    ASSUME NEW S, IsFiniteSet(S), NEW f \in [S -> Int], NEW g \in [S -> Int], NEW k \in S,
           \A x \in S \ {k} : g[x] = f[x]
    PROVE  SumOver(g, S) = SumOver(f, S) + g[k] - f[k]
<1>1. PICK p : Sums(p, f, S) /\ SumOver(f, S) = p[S]
    BY SumOverSums
<1>2. PICK q : Sums(q, g, S) /\ SumOver(g, S) = q[S]
    BY SumOverSums
<1>3. \A s \in SUBSET S : p[s] \in Int /\ q[s] \in Int
    BY <1>1, <1>2, SumsInt
<1> DEFINE Change(s) == IF k \in s THEN g[k] - f[k] ELSE 0
           B == {s \in SUBSET S : q[s] # p[s] + Change(s)}
<1>4. B = {}
    <2> SUFFICES ASSUME B # {} PROVE FALSE
        OBVIOUS
    <2>1. PICK s \in SUBSET S : s \in B /\ \A x \in s : s \ {x} \notin B
        <3>1. B \subseteq SUBSET S
            OBVIOUS
        <3> HIDE DEF B
        <3> QED
            BY <3>1, SmallestSubset
    <2>2. s # {}
        <3>1. s = {} => p[s] = 0
            BY <1>1 DEF Sums
        <3>2. s = {} => q[s] = 0
            BY <1>2 DEF Sums
        <3> QED
            BY <2>1, <3>1, <3>2
    <2> DEFINE y == Pick(s)
               r == s \ {y}
    <2>3. /\ y \in s /\ r \in SUBSET S
          /\ p[s] = f[y] + p[r] /\ q[s] = g[y] + q[r]
        <3>1. y \in s /\ r \in SUBSET S /\ p[s] = f[y] + p[r]
            BY <1>1, <2>2 DEF Sums
        <3>2. q[s] = g[y] + q[r]
            BY <1>2, <2>2 DEF Sums
        <3> QED
            BY <3>1, <3>2
    <2>4. q[r] = p[r] + Change(r)
        BY <2>1, <2>3
    <2>5. f[y] \in Int /\ g[y] \in Int /\ f[k] \in Int /\ g[k] \in Int /\ p[r] \in Int /\ q[r] \in Int
        BY <1>3, <2>3
    <2>6. q[s] = p[s] + Change(s)
        <3>1. CASE y = k
            <4>1. k \notin r /\ k \in s
                BY <2>3, <3>1
            <4> HIDE DEF y, r
            <4> QED
                BY <2>3, <2>4, <2>5, <3>1, <4>1
        <3>2. CASE y # k
            <4>1. k \in r <=> k \in s
                BY <3>2
            <4>2. g[y] = f[y]
                BY <2>3, <3>2
            <4> HIDE DEF y, r
            <4> QED
                BY <2>3, <2>4, <2>5, <4>1, <4>2
        <3> QED
            BY <3>1, <3>2
    <2> QED
        BY <2>1, <2>6
<1>5. q[S] = p[S] + (g[k] - f[k])
    BY <1>4
<1> QED
    BY <1>1, <1>2, <1>3, <1>5

(* The sum of a constant.                                                  *)
LEMMA SumConstant ==
    ASSUME NEW S, IsFiniteSet(S), NEW c \in Int, NEW f, f = [x \in S |-> c]
    PROVE  SumOver(f, S) = c * Cardinality(S)
<1>1. PICK p : Sums(p, f, S) /\ SumOver(f, S) = p[S]
    BY SumOverSums
<1>2. \A s \in SUBSET S : IsFiniteSet(s) /\ Cardinality(s) \in Nat
    BY FS_Subset, FS_CardinalityType
<1> DEFINE B == {s \in SUBSET S : p[s] # c * Cardinality(s)}
<1>3. B = {}
    <2> SUFFICES ASSUME B # {} PROVE FALSE
        OBVIOUS
    <2>1. PICK s \in SUBSET S : s \in B /\ \A x \in s : s \ {x} \notin B
        <3>1. B \subseteq SUBSET S
            OBVIOUS
        <3> HIDE DEF B
        <3> QED
            BY <3>1, SmallestSubset
    <2>2. s # {}
        <3>1. s = {} => p[s] = 0 /\ Cardinality(s) = 0
            BY <1>1, FS_EmptySet DEF Sums
        <3>2. c * 0 = 0
            OBVIOUS
        <3> QED
            BY <2>1, <3>1, <3>2
    <2> DEFINE y == Pick(s)
               r == s \ {y}
    <2>3. y \in s /\ r \in SUBSET S /\ p[s] = f[y] + p[r]
        BY <1>1, <2>2 DEF Sums
    <2>4. p[r] = c * Cardinality(r) /\ f[y] = c
        BY <2>1, <2>3
    <2>5. Cardinality(r) = Cardinality(s) - 1
        BY <1>2, <2>3, FS_RemoveElement
    <2>6. p[s] = c * Cardinality(s)
        <3> HIDE DEF y, r
        <3> DEFINE n == Cardinality(s)
        <3>1. n \in Nat /\ Cardinality(r) = n - 1
            BY <1>2, <2>5
        <3> HIDE DEF n
        <3>2. c * n = c + c * (n - 1)
            BY <3>1
        <3>3. p[s] = c * n
            BY <2>3, <2>4, <3>1, <3>2
        <3> QED
            BY <3>3 DEF n
    <2> QED
        BY <2>1, <2>6
<1> QED
    BY <1>1, <1>3

-----------------------------------------------------------------------------
(* The books.                                                              *)

(* What the clients hold of a heap, by handle.                             *)
HeldBytes(h) == [k \in Handles |-> HeldIn(held[k], h)]

(* A heap is smaller than half of what a word counts.                      *)
LEMMA SizeRange ==
    ASSUME NEW h \in Heaps
    PROVE  /\ Size(h) \in Nat /\ Size(h) >= Hdr /\ Size(h) < WordMod /\ 2 * Size(h) <= WordMod
           /\ Hdr \in Nat \ {0} /\ WordMod \in Nat
    BY HeapAssumption, LedgerAssumption DEF Size

(* 32-bit arithmetic on what needs no wrap.                                *)
LEMMA NoWrap ==
    ASSUME NEW x \in Nat, x < WordMod
    PROVE  x % WordMod = x
    BY WordRange, HeapAssumption

(* What one handle holds, with its header.                                 *)
LEMMA HeldRange ==
    ASSUME HeapInv, NEW h \in Heaps
    PROVE  /\ HeldBytes(h) \in [Handles -> Nat] /\ HeldBytes(h) \in [Handles -> Int]
           /\ SumHeld(h) = SumOver(HeldBytes(h), Handles) /\ SumHeld(h) \in Nat
<1>1. ASSUME NEW k \in Handles PROVE HeldIn(held[k], h) \in Nat
    <2>1. held[k] = None \/ held[k].len \in Nat
        BY HeapAssumption DEF HeapInv, TypeOK, Block
    <2>2. Hdr \in Nat
        BY HeapAssumption
    <2> QED
        BY <2>1, <2>2 DEF HeldIn
<1>2. HeldBytes(h) \in [Handles -> Nat]
    BY <1>1 DEF HeldBytes
<1>3. SumHeld(h) = SumOver(HeldBytes(h), Handles)
    BY DEF SumHeld, HeldBytes
<1> QED
    BY <1>2, <1>3, SumNat, LedgerAssumption

(* The books are in order at boot.                                         *)
LEMMA InitLedger ==
    ASSUME Init
    PROVE  Ledger
<1>1. ASSUME NEW h \in Heaps PROVE SumHeld(h) = 0
    <2>1. HeldBytes(h) = [k \in Handles |-> 0]
        BY DEF Init, HeldBytes, HeldIn
    <2>2. SumOver(HeldBytes(h), Handles) = 0 * Cardinality(Handles)
        BY <2>1, LedgerAssumption, SumConstant
    <2>3. Cardinality(Handles) \in Nat
        BY LedgerAssumption, FS_CardinalityType
    <2> QED
        BY <2>2, <2>3 DEF SumHeld, HeldBytes
<1>2. ASSUME NEW c \in Keepers PROVE used[c] >= Hdr + SumHeld(HeapOf(c))
    <2>1. c \in Accounts /\ used[c] = Hdr /\ HeapOf(c) \in Heaps
        BY HeapAssumption DEF Keepers, Accounts, Init, HeapOf, Heaps
    <2> QED
        BY <1>1, <2>1, HeapAssumption
<1> QED
    BY <1>2 DEF Ledger, UsedCoversHeld, Init, Idle

(* A step that neither gives nor takes bytes, of threads that stay.        *)
LEMMA QuietLedger ==
    ASSUME Ledger, UNCHANGED <<used, alive, held, forked, tight>>,
           op'.at = "search" =>
              /\ op'.heap = HeapOf(op'.by) /\ op'.by \in Callers
              /\ op'.by \in Keepers => used[op'.by] < Size(op'.heap)
    PROVE  Ledger'
<1>1. \A h : SumHeld(h)' = SumHeld(h)
    BY DEF SumHeld
<1>2. Keepers' = Keepers /\ Callers' = Callers
    BY DEF Keepers, Callers
<1>3. \A c : HeapOf(c)' = HeapOf(c)
    BY DEF HeapOf
<1>4. UsedCoversHeld'
    BY <1>1, <1>2, <1>3 DEF Ledger, UsedCoversHeld
<1>5. op'.at = "search" =>
          /\ op'.heap = HeapOf(op'.by) /\ op'.by \in Callers
          /\ op'.by \in Keepers => used'[op'.by] < Size(op'.heap)
    OBVIOUS
<1> QED
    BY <1>2, <1>4, <1>5 DEF Ledger, Size, HeapOf

(* Given to a client: both sides grow by the block and its header.         *)
LEMMA TakeLedger ==
    ASSUME HeapInv, HeapInv', Ledger, NEW k \in Handles, Take(k)
    PROVE  Ledger'
<1>0. PICK h \in Heaps, len \in Lens, a \in Nat, d \in Accounts :
         h = op.heap /\ len = op.len /\ a = op.cur /\ d = op.by /\ op.at = "search"
    <2>1. op \in [at : {"search"}, heap : Heaps, cur : Nat \cup {Null}, len : Lens, by : Accounts]
          /\ op.cur # Null
        BY DEF Take, Searching, InLoop, HeapInv, TypeOK, Op, Idle
    <2> QED
        BY <2>1
<1>1. /\ h = HeapOf(d) /\ d \in Callers /\ (d \in Keepers => used[d] < Size(h))
      /\ UNCHANGED <<alive, forked>> /\ op'.at = "idle"
    BY <1>0 DEF Ledger, Take, Idle
<1>2. len \in Nat /\ Hdr \in Nat \ {0} /\ a # Null
    BY HeapAssumption
<1>3. /\ held' = [held EXCEPT ![k] = [heap |-> h, addr |-> a, len |-> len]] /\ held[k] = None
      /\ used' = [used EXCEPT ![d] = (@ + (len + Hdr)) % WordMod]
      /\ tight \subseteq tight' /\ (h \notin tight' => ~(head[h][a].size < len + Hdr))
    BY <1>0 DEF Take, Cost, Cur
<1>4. ASSUME NEW c \in Keepers, HeapOf(c) \notin tight'
      PROVE  used'[c] >= Hdr + SumHeld(HeapOf(c))'
    <2> DEFINE g == HeapOf(c)
               p == HeldBytes(g)
               q == [m \in Handles |-> HeldIn(held'[m], g)]
    <2>1. /\ c \in Accounts /\ g \in Heaps /\ used[c] >= Hdr + SumHeld(g)
          /\ used[c] \in Nat /\ DOMAIN used = Accounts /\ DOMAIN held = Handles
        <3>1. c \in Accounts /\ g \in Heaps
            BY HeapAssumption DEF Keepers, Accounts, HeapOf, Heaps
        <3>2. used[c] >= Hdr + SumHeld(g)
            BY <1>3, <1>4 DEF Ledger, UsedCoversHeld
        <3>3. used[c] \in 0 .. WordMod - 1
            BY <3>1 DEF HeapInv, TypeOK
        <3> QED
            BY <3>1, <3>2, <3>3, HeapAssumption DEF HeapInv, TypeOK
    <2>2. SumHeld(g)' = SumOver(q, Handles)
        BY DEF SumHeld
    <2>3. held'[k] = [heap |-> h, addr |-> a, len |-> len] /\ \A m \in Handles \ {k} : held'[m] = held[m]
        BY <1>3, <2>1
    <2>4. p[k] = 0 /\ \A m \in Handles \ {k} : q[m] = p[m]
        BY <1>3, <2>3 DEF HeldBytes, HeldIn
    <2>5. p \in [Handles -> Int] /\ SumHeld(g) = SumOver(p, Handles) /\ SumHeld(g) \in Nat
        BY <2>1, HeldRange
    <2>6. CASE g # h
        <3>1. used'[c] = used[c]
            BY <1>1, <1>3, <2>1, <2>6
        <3>2. q[k] = 0
            BY <2>3, <2>6 DEF HeldIn
        <3>3. q = [m \in Handles |-> p[m]]
            BY <2>4, <3>2
        <3>4. p = [m \in Handles |-> p[m]]
            BY <2>5
        <3> QED
            BY <2>1, <2>2, <2>5, <3>1, <3>3, <3>4
    <2>7. CASE g = h
        <3>1. c = d
            BY <1>1, <1>4, <2>7, HeapAssumption DEF Keepers, HeapOf, Ledger, Callers
        <3>2. len + Hdr <= Size(h)
            <4>1. a \in blocks[h] /\ Tiled(h) /\ ~(head[h][a].size < len + Hdr)
                BY <1>0, <1>2, <1>3, <1>4, <2>7 DEF HeapInv, OpOnBlock
            <4>2. a + head[h][a].size + Hdr <= Size(h)
                BY <4>1 DEF Tiled, BlockEnd
            <4>3. head[h][a].size \in Nat /\ Size(h) \in Nat
                BY <4>1, SizeRange DEF HeapInv, TypeOK, Header
            <4> QED
                BY <1>2, <4>1, <4>2, <4>3
        <3>3. used'[c] = used[c] + (len + Hdr)
            <4>1. used[c] < Size(h) /\ 2 * Size(h) <= WordMod /\ Size(h) \in Nat /\ WordMod \in Nat
                BY <1>1, <1>4, <3>1, SizeRange
            <4>2. (used[c] + (len + Hdr)) % WordMod = used[c] + (len + Hdr)
                <5> DEFINE x == used[c] + (len + Hdr)
                <5>1. x \in Nat /\ x < WordMod
                    BY <1>2, <2>1, <3>2, <4>1
                <5> HIDE DEF x
                <5>2. x % WordMod = x
                    BY <5>1, NoWrap
                <5> QED
                    BY <5>2 DEF x
            <4> QED
                BY <1>3, <2>1, <3>1, <4>2
        <3>4. q[k] = len + Hdr
            BY <1>2, <2>3, <2>7, HeapAssumption DEF HeldIn
        <3>5. q \in [Handles -> Int]
            <4>1. \A m \in Handles : q[m] \in Int
                BY <1>2, <2>4, <2>5, <3>4
            <4> QED
                BY <4>1
        <3>6. SumOver(q, Handles) = SumOver(p, Handles) + q[k] - p[k]
            <4> HIDE DEF p, q
            <4> QED
                BY <2>4, <2>5, <3>5, LedgerAssumption, SumChange
        <3> HIDE DEF p, q
        <3> QED
            BY <1>2, <2>1, <2>2, <2>4, <2>5, <3>3, <3>4, <3>6
    <2> QED
        BY <2>6, <2>7
<1>5. UsedCoversHeld'
    BY <1>1, <1>4 DEF UsedCoversHeld, Keepers, HeapOf
<1> QED
    BY <1>1, <1>5 DEF Ledger

(* Given back: the clients' side shrinks by the block and its header, used *)
(* by the block alone.                                                     *)
LEMMA FreeLedger ==
    ASSUME HeapInv, HeapInv', Ledger, NEW k \in Handles, NEW t \in Threads, FreeBegin(t, k)
    PROVE  Ledger'
<1>0. PICK h \in Heaps, len \in Nat, d \in Accounts :
         h = held[k].heap /\ len = held[k].len /\ d = Charged(t, held[k])
    <2>1. held[k] \in Block
        BY DEF FreeBegin, HeapInv, TypeOK
    <2>2. /\ held[k].heap \in Heaps /\ held[k].len \in Nat
          /\ Charged(t, held[k]) \in Accounts
        BY <2>1, HeapAssumption DEF Block, Charged, Accounts
    <2> QED
        BY <2>2
<1>1. /\ held' = [held EXCEPT ![k] = None] /\ held[k] # None /\ t \in alive
      /\ UNCHANGED <<alive, forked, tight>> /\ op'.at = "merge"
      /\ used' = [used EXCEPT ![d] = (@ - head[h][held[k].addr].size) % WordMod]
    BY <1>0 DEF FreeBegin
<1>2. HeapOf(d) = h
    BY <1>0, HeapAssumption DEF Charged, HeapOf, Heaps
<1>3. ASSUME NEW c \in Keepers, HeapOf(c) \notin tight
      PROVE  used'[c] >= Hdr + SumHeld(HeapOf(c))'
    <2> DEFINE g == HeapOf(c)
               p == HeldBytes(g)
               q == [m \in Handles |-> HeldIn(held'[m], g)]
    <2>1. /\ c \in Accounts /\ g \in Heaps /\ used[c] >= Hdr + SumHeld(g)
          /\ used[c] \in 0 .. WordMod - 1 /\ DOMAIN used = Accounts /\ DOMAIN held = Handles
        <3>1. c \in Accounts /\ g \in Heaps
            BY HeapAssumption DEF Keepers, Accounts, HeapOf, Heaps
        <3>2. used[c] >= Hdr + SumHeld(g)
            BY <1>3 DEF Ledger, UsedCoversHeld
        <3> QED
            BY <3>1, <3>2 DEF HeapInv, TypeOK
    <2>2. SumHeld(g)' = SumOver(q, Handles)
        BY DEF SumHeld
    <2>3. held'[k] = None /\ \A m \in Handles \ {k} : held'[m] = held[m]
        BY <1>1, <2>1
    <2>4. q[k] = 0 /\ \A m \in Handles \ {k} : q[m] = p[m]
        BY <2>3 DEF HeldBytes, HeldIn
    <2>5. /\ p \in [Handles -> Int] /\ p \in [Handles -> Nat]
          /\ SumHeld(g) = SumOver(p, Handles) /\ SumHeld(g) \in Nat
        BY <2>1, HeldRange
    <2>6. q \in [Handles -> Nat] /\ q \in [Handles -> Int]
        <3>1. \A m \in Handles : q[m] \in Nat
            BY <2>4, <2>5
        <3> QED
            BY <3>1
    <2>7. SumOver(q, Handles) = SumOver(p, Handles) + q[k] - p[k] /\ SumOver(q, Handles) \in Nat
        <3> HIDE DEF p, q
        <3> QED
            BY <2>4, <2>5, <2>6, LedgerAssumption, SumChange, SumNat
    <2>8. CASE g # h
        <3>1. used'[c] = used[c]
            BY <1>1, <1>2, <2>1, <2>8
        <3>2. p[k] = 0
            BY <1>0, <2>8 DEF HeldBytes, HeldIn
        <3> HIDE DEF p, q
        <3> QED
            BY <2>1, <2>2, <2>4, <2>5, <2>7, <3>1, <3>2
    <2>9. CASE g = h
        <3>1. c = d
            BY <1>0, <1>1, <1>2, <1>3, <2>9, HeapAssumption
              DEF Keepers, HeapOf, Ledger, Charged, Heaps
        <3>2. head[h][held[k].addr].size = len
            BY <1>0, <1>1, <1>3, <2>9 DEF HeapInv, HeldOnce
        <3>3. p[k] = len + Hdr
            BY <1>0, <1>1, <2>9 DEF HeldBytes, HeldIn
        <3>4. Hdr \in Nat /\ WordMod \in Nat
            BY HeapAssumption
        <3>5. used[c] - len >= Hdr + SumOver(q, Handles)
            <4> HIDE DEF p, q
            <4> QED
                BY <2>1, <2>4, <2>5, <2>7, <3>3, <3>4
        <3>6. used'[c] = used[c] - len
            <4> DEFINE x == used[c] - len
            <4>1. x \in Nat /\ x < WordMod
                <5> HIDE DEF p, q
                <5> QED
                    BY <2>1, <2>7, <3>4, <3>5
            <4> HIDE DEF x
            <4>2. x % WordMod = x
                BY <4>1, NoWrap
            <4> QED
                BY <1>1, <2>1, <3>1, <3>2, <4>2 DEF x
        <3> QED
            BY <2>2, <3>5, <3>6
    <2> QED
        BY <2>8, <2>9
<1>4. UsedCoversHeld'
    BY <1>1, <1>3 DEF UsedCoversHeld, Keepers, HeapOf
<1> QED
    BY <1>1, <1>4 DEF Ledger

(* A header is in use as long as its block is held, in a heap where no     *)
(* header was overwritten: nothing of such a heap is ignored.              *)
LEMMA IgnoredLedger ==
    ASSUME HeapInv, Ledger, NEW k \in Handles, FreeIgnored(k)
    PROVE  Ledger'
<1>1. /\ held' = [held EXCEPT ![k] = None] /\ held[k] # None /\ DOMAIN held = Handles
      /\ UNCHANGED <<used, alive, forked, tight, op>> /\ op.at = "idle"
    BY DEF FreeIgnored, Ready, HeapInv, TypeOK
<1>2. held[k].heap \in tight
    <2>1. held[k].heap \in Heaps /\ ~InUse(held[k])
        BY <1>1 DEF FreeIgnored, HeapInv, TypeOK, Block
    <2> QED
        BY <1>1, <2>1 DEF HeapInv, HeldOnce, InUse
<1>3. ASSUME NEW h, h \notin tight PROVE SumHeld(h)' = SumHeld(h)
    <2>1. \A m \in Handles : HeldIn(held'[m], h) = HeldIn(held[m], h)
        BY <1>1, <1>2, <1>3 DEF HeldIn
    <2> QED
        BY <2>1 DEF SumHeld
<1>4. UsedCoversHeld'
    BY <1>1, <1>3 DEF Ledger, UsedCoversHeld, Keepers, HeapOf
<1> QED
    BY <1>1, <1>4 DEF Ledger

(* A fork ends the books of the process, an exit comes after one; those of *)
(* the kernel go on.                                                       *)
LEMMA ForkExitLedger ==
    ASSUME HeapInv, Ledger, NEW t \in Threads, NEW c \in Threads, Fork(t, c) \/ Exit(t)
    PROVE  Ledger'
<1>1. UNCHANGED <<held, op, tight>> /\ op.at = "idle" /\ DOMAIN used = Accounts
      /\ forked' = TRUE
    <2>1. CASE Fork(t, c)
        BY <2>1 DEF Fork, Ready, HeapInv, TypeOK
    <2>2. CASE Exit(t)
        BY <2>2 DEF Exit, Ready, Ledger, HeapInv, TypeOK
    <2> QED
        BY <2>1, <2>2
<1>2. Keepers' = {Kernel} /\ Kernel \in Keepers
    BY <1>1 DEF Keepers
<1>3. used'[Kernel] = used[Kernel]
    BY <1>1, HeapAssumption DEF Fork, Exit, Accounts
<1>4. SumHeld(HeapOf(Kernel))' = SumHeld(HeapOf(Kernel)) /\ HeapOf(Kernel)' = HeapOf(Kernel)
    BY <1>1 DEF SumHeld, HeapOf
<1>5. UsedCoversHeld'
    BY <1>1, <1>2, <1>3, <1>4 DEF Ledger, UsedCoversHeld
<1> QED
    BY <1>1, <1>5 DEF Ledger

(* The books of the kernel heap, and of a process until it forks, cover    *)
(* what the clients hold, and no call makes them wrap, whatever is asked   *)
(* for and in which order, until a tight split in that heap and up to      *)
(* where a header is written beyond a heap's memory.                       *)
THEOREM LedgerInvariant == Spec => []Ledger
<1>1. ASSUME HeapInv, HeapInv', Ledger, [Next]_vars PROVE Ledger'
    <2>0. ASSUME NEW t \in Threads, NEW c \in Threads, Fork(t, c) \/ Exit(t) PROVE Ledger'
        BY <1>1, <2>0, ForkExitLedger
    <2>1. CASE UNCHANGED vars
        BY <1>1, <2>1, QuietLedger DEF vars, Ledger
    <2>2. ASSUME NEW c \in Accounts, AllocRefused(c) PROVE Ledger'
        BY <1>1, <2>2, QuietLedger DEF AllocRefused, vars, Ledger
    <2>3. ASSUME NEW c \in Accounts, NEW len \in Lens, AllocBegin(c, len) PROVE Ledger'
        <3>1. used[c] < Size(HeapOf(c)) /\ op'.heap = HeapOf(c) /\ op'.by = c /\ c \in Callers
            <4>1. HeapOf(c) \in Heaps
                BY DEF HeapOf, Heaps
            <4>2. used[c] \in 0 .. WordMod - 1 /\ Size(HeapOf(c)) \in Nat /\ WordMod \in Nat
                BY <1>1, <4>1, SizeRange DEF HeapInv, TypeOK
            <4>3. ~(used[c] >= Size(HeapOf(c)))
                BY <2>3 DEF AllocBegin, OutOfMemory
            <4>4. used[c] < Size(HeapOf(c))
                BY <4>2, <4>3
            <4> QED
                BY <2>3, <4>4 DEF AllocBegin
        <3> QED
            BY <1>1, <2>3, <3>1, QuietLedger DEF AllocBegin
    <2>4. CASE SearchNext
        <3>1. op'.at = op.at /\ op'.heap = op.heap /\ op'.by = op.by
            <4>1. op \in [at : {"search"}, heap : Heaps, cur : Nat \cup {Null}, len : Lens,
                          by : Accounts]
                BY <1>1, <2>4 DEF SearchNext, Searching, HeapInv, TypeOK, Op, Idle
            <4> QED
                BY <2>4, <4>1 DEF SearchNext
        <3> QED
            BY <1>1, <2>4, <3>1, QuietLedger DEF SearchNext, Ledger
    <2>5. CASE SearchFails \/ MergeEnd
        BY <1>1, <2>5, QuietLedger DEF SearchFails, MergeEnd, Idle
    <2>6. CASE TakeBeyond
        BY <1>1, <2>6, QuietLedger DEF TakeBeyond, Ledger
    <2>7. ASSUME NEW k \in Handles, Take(k) PROVE Ledger'
        BY <1>1, <2>7, TakeLedger
    <2>8. ASSUME NEW k \in Handles, FreeIgnored(k) PROVE Ledger'
        BY <1>1, <2>8, IgnoredLedger
    <2>9. ASSUME NEW k \in Handles, NEW t \in Threads, FreeBegin(t, k) PROVE Ledger'
        BY <1>1, <2>9, FreeLedger
    <2>10. CASE Merge
        <3>1. op' = op /\ op.at = "merge" /\ UNCHANGED <<used, alive, held, forked, tight>>
            BY <2>10 DEF Merge, Merging
        <3> QED
            BY <1>1, <3>1, QuietLedger
    <2> QED
        BY <1>1, <2>0, <2>1, <2>2, <2>3, <2>4, <2>5, <2>6, <2>7, <2>8, <2>9, <2>10 DEF Next
<1>2. Init => Ledger
    BY InitLedger
<1> QED
    BY <1>1, <1>2, HeapInvariant, PTL DEF Spec

(* used of the kernel heap, and of a process until it forks, is never      *)
(* below what is held with its headers.                                    *)
THEOREM UsedCovers == Spec => []UsedCoversHeld
<1>1. Ledger => UsedCoversHeld
    BY DEF Ledger
<1> QED
    BY <1>1, LedgerInvariant, PTL
=============================================================================
