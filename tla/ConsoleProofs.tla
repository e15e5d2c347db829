---------------------------- MODULE ConsoleProofs ----------------------------
(***************************************************************************)
(* The line on the screen is the line that is executed, on screens and     *)
(* lines of any size: ConsoleInv is inductive.  The lemmas say what each   *)
(* routine of video.c does to the text that ends at the cursor.            *)
(***************************************************************************)
EXTENDS Console, NatLemmas, SequenceTheorems, TLAPS

-----------------------------------------------------------------------------
(* The size of the screen.                                                 *)
LEMMA ScreenSize ==
    /\ W \in Nat \ {0} /\ H \in Nat \ {0, 1}
    /\ W * H \in Nat /\ W * (H - 1) \in Nat /\ W * H = W * (H - 1) + W /\ W * (H - 1) > 0
    /\ Cells = 0 .. W * H - 1
<1>1. W \in Nat \ {0} /\ H \in Nat \ {0, 1} /\ H - 1 \in Nat \ {0}
    BY ConsoleAssumption
<1>2. W * H \in Nat /\ W * (H - 1) \in Nat /\ W * H = W * (H - 1) + W
    BY <1>1
<1>3. W * (H - 1) >= W * 1
    BY <1>1, TimesMonotonic
<1> QED
    BY <1>1, <1>2, <1>3 DEF Cells

(* Where rows begin.                                                       *)
LEMMA Rows ==
    ASSUME NEW r \in Nat
    PROVE  /\ W * r \in Nat /\ W * (r + 1) = W * r + W
           /\ r < H => W * r <= W * (H - 1)
<1>1. W \in Nat /\ H \in Nat \ {0, 1}
    BY ConsoleAssumption
<1>2. W * r \in Nat /\ W * (r + 1) = W * r + W
    BY <1>1
<1>3. ASSUME r < H PROVE W * r <= W * (H - 1)
    <2>1. r <= H - 1 /\ H - 1 \in Nat
        BY <1>1, <1>3
    <2> QED
        BY <1>1, <2>1, TimesMonotonic
<1> QED
    BY <1>2, <1>3

(* The cursor is never beyond the place after the last cell.               *)
LEMMA CursorRange ==
    ASSUME NEW s, Good(s)
    PROVE  /\ Cursor(s) \in Int /\ Cursor(s) <= W * H
           /\ s.x < W => Cursor(s) < W * H
           /\ s.cells \in [Cells -> Glyphs] /\ s.x \in Int /\ s.y \in Nat /\ s.stray \in BOOLEAN
<1>1. s.cells \in [Cells -> Glyphs] /\ s.x \in Int /\ s.y \in Nat /\ s.stray \in BOOLEAN
      /\ s.x <= W /\ s.y < H
    BY DEF Good, Screens
<1>2. W * s.y \in Nat /\ W * s.y <= W * (H - 1)
    BY <1>1, Rows
<1>3. W * (H - 1) = W * H - W /\ W * H \in Nat /\ W \in Nat
    BY ScreenSize
<1>4. PICK k \in Nat : k = W * s.y
    BY <1>2
<1>5. PICK m \in Nat : m = W * H
    BY <1>3
<1>6. k + s.x \in Int /\ k + s.x <= m /\ (s.x < W => k + s.x < m)
    BY <1>1, <1>2, <1>3, <1>4, <1>5
<1> QED
    BY <1>1, <1>4, <1>5, <1>6 DEF Cursor

(* Screens with some fields changed; C stands for the screen's contents.   *)
ScreensOf(C) == [cells : C, x : Int, y : Nat, stray : BOOLEAN]

(* The parts of a screen.                                                  *)
LEMMA ScreenFields ==
    ASSUME NEW C, NEW s \in ScreensOf(C)
    PROVE  s.cells \in C /\ s.x \in Int /\ s.y \in Nat /\ s.stray \in BOOLEAN
    BY DEF ScreensOf

(* A screen with another column.                                           *)
LEMMA MoveX ==
    ASSUME NEW C, NEW s \in ScreensOf(C), NEW a \in Int
    PROVE  LET v == [s EXCEPT !.x = a]
           IN v \in ScreensOf(C) /\ v.x = a /\ v.y = s.y /\ v.cells = s.cells /\ v.stray = s.stray
    BY DEF ScreensOf

(* A screen with another row.                                              *)
LEMMA MoveY ==
    ASSUME NEW C, NEW s \in ScreensOf(C), NEW b \in Nat
    PROVE  LET v == [s EXCEPT !.y = b]
           IN v \in ScreensOf(C) /\ v.x = s.x /\ v.y = b /\ v.cells = s.cells /\ v.stray = s.stray
    BY DEF ScreensOf

(* A screen with other cells.                                              *)
LEMMA NewCells ==
    ASSUME NEW C, NEW s \in ScreensOf(C), NEW c \in C
    PROVE  LET v == [s EXCEPT !.cells = c]
           IN v \in ScreensOf(C) /\ v.x = s.x /\ v.y = s.y /\ v.cells = c /\ v.stray = s.stray
    BY DEF ScreensOf

(* A screen after a byte was written beside its cells.                     *)
LEMMA NewStray ==
    ASSUME NEW C, NEW s \in ScreensOf(C)
    PROVE  LET v == [s EXCEPT !.stray = TRUE]
           IN v \in ScreensOf(C) /\ v.x = s.x /\ v.y = s.y /\ v.cells = s.cells /\ v.stray = TRUE
    BY DEF ScreensOf

Contents == [Cells -> Glyphs]
(* The screens of the model are such.                                      *)
LEMMA ScreensContents == Screens = ScreensOf(Contents)
    BY DEF Screens, ScreensOf, Contents

(* What check does: nothing, go to the next row, or scroll by one row.     *)
LEMMA CheckStep ==
    ASSUME NEW s, s \in Screens, s.x <= W, s.y < H \/ (s.y = H /\ s.x = 0)
    PROVE  /\ Good(check(s)) /\ check(s).x < W /\ check(s).stray = s.stray
           /\ \/ Cursor(check(s)) = Cursor(s) /\ check(s).cells = s.cells
              \/ /\ Cursor(s) = W * H /\ Cursor(check(s)) = W * (H - 1)
                 /\ \A i \in Cells : i + W \in Cells => check(s).cells[i] = s.cells[i + W]
<1>1. s \in ScreensOf(Contents)
    BY ScreensContents
<1>2. s.cells \in Contents /\ s.x \in Int /\ s.y \in Nat /\ s.stray \in BOOLEAN
    BY <1>1, ScreenFields
<1> DEFINE w == IF Full(s.x) THEN [s EXCEPT !.x = 0, !.y = s.y + 1] ELSE s
<1>3. check(s) = IF w.y >= H THEN scroll([w EXCEPT !.y = w.y - 1]) ELSE w
    BY DEF check
<1>4. /\ w \in ScreensOf(Contents) /\ w.x < W /\ w.y <= H /\ w.cells = s.cells
      /\ w.stray = s.stray /\ W * w.y + w.x = W * s.y + s.x /\ (w.y = H => w.x = 0)
    <2>1. CASE s.x >= W
        <3>1. s.x = W /\ s.y < H
            BY <1>2, <2>1, ScreenSize
        <3>2. w = [s EXCEPT !.x = 0, !.y = s.y + 1]
            BY <2>1 DEF Full
        <3> HIDE DEF w
        <3>3. s.y + 1 \in Nat /\ 0 \in Int
            BY <1>2
        <3>4. /\ w \in ScreensOf(Contents) /\ w.x = 0 /\ w.y = s.y + 1 /\ w.cells = s.cells
              /\ w.stray = s.stray
            BY <1>1, <3>2, <3>3 DEF ScreensOf
        <3>5. W * (s.y + 1) = W * s.y + W /\ W * s.y \in Nat
            BY <1>2, Rows
        <3>6. PICK k \in Nat, l \in Nat : k = W * s.y /\ l = W * w.y
            BY <1>2, <3>3, <3>4, <3>5, Rows
        <3>7. W * w.y = W * (s.y + 1)
            BY <3>4
        <3>8. W \in Nat /\ l = k + W
            BY <3>5, <3>6, <3>7, ScreenSize
        <3>9. l + w.x = k + s.x
            BY <3>1, <3>4, <3>6, <3>8
        <3> QED
            BY <1>2, <3>1, <3>4, <3>6, <3>9, ScreenSize
    <2>2. CASE ~(s.x >= W)
        <3>1. w = s
            BY <2>2 DEF Full
        <3> HIDE DEF w
        <3> QED
            BY <1>1, <1>2, <2>2, <3>1, ScreenSize
    <2> QED
        BY <2>1, <2>2
<1> HIDE DEF w
<1>5. w.cells \in Contents /\ w.x \in Int /\ w.y \in Nat /\ w.stray \in BOOLEAN
    BY <1>4, ScreenFields
<1>6. CASE w.y >= H
    <2>1. w.y = H /\ w.x = 0 /\ w.y - 1 \in Nat
        BY <1>4, <1>5, <1>6, ScreenSize
    <2> DEFINE v == [w EXCEPT !.y = w.y - 1]
               c == [i \in Cells |-> IF i + W \in Cells THEN v.cells[i + W] ELSE Blank]
    <2>2. check(s) = [v EXCEPT !.cells = c]
        BY <1>3, <1>6 DEF scroll
    <2>3. /\ v \in ScreensOf(Contents) /\ v.x = 0 /\ v.y = H - 1 /\ v.cells = s.cells
          /\ v.stray = s.stray
        BY <1>4, <2>1, MoveY
    <2> HIDE DEF v
    <2>4. c \in Contents /\ \A i \in Cells : i + W \in Cells => c[i] = s.cells[i + W]
        <3>1. \A i \in Cells : i + W \in Cells => v.cells[i + W] \in Glyphs
            BY <1>2, <2>3, Zenon DEF Contents
        <3>2. Blank \in Glyphs
            BY Zenon DEF Glyphs
        <3>3. \A i \in Cells : (IF i + W \in Cells THEN v.cells[i + W] ELSE Blank) \in Glyphs
            BY <3>1, <3>2, Zenon
        <3>4. c \in Contents
            BY <3>3, Zenon DEF Contents
        <3> QED
            BY <2>3, <3>4
    <2> HIDE DEF c
    <2>5. check(s) \in ScreensOf(Contents) /\ check(s).x = 0 /\ check(s).y = H - 1
          /\ check(s).cells = c /\ check(s).stray = s.stray
        BY <2>2, <2>3, <2>4, NewCells
    <2>6. Cursor(s) = W * H /\ Cursor(check(s)) = W * (H - 1)
        BY <1>4, <2>1, <2>5, ScreenSize DEF Cursor
    <2>7. Good(check(s)) /\ check(s).x < W
        BY <2>5, ScreenSize, ScreensContents DEF Good
    <2> QED
        BY <2>4, <2>5, <2>6, <2>7
<1>7. CASE ~(w.y >= H)
    <2>1. check(s) = w
        BY <1>3, <1>7
    <2>2. w.y < H
        BY <1>5, <1>7, ScreenSize
    <2>3. Cursor(w) = Cursor(s)
        BY <1>4 DEF Cursor
    <2>4. Good(w)
        BY <1>4, <1>5, <2>2, ScreenSize, ScreensContents DEF Good
    <2> QED
        BY <1>4, <2>1, <2>3, <2>4
<1> QED
    BY <1>6, <1>7

(* Text that ends at the cursor stays so when the screen scrolls, as long  *)
(* as it is shorter than the rows that stay.                               *)
LEMMA CheckShows ==
    ASSUME NEW s, Good(s), NEW u \in Seq(Glyphs), Shows(s, u), Len(u) <= W * (H - 1)
    PROVE  Shows(check(s), u)
<1> DEFINE t == check(s)
           n == Len(u)
<1>1. s \in Screens /\ s.x <= W /\ s.y < H
    BY DEF Good
<1>2. \/ Cursor(t) = Cursor(s) /\ t.cells = s.cells
      \/ /\ Cursor(s) = W * H /\ Cursor(t) = W * (H - 1)
         /\ \A i \in Cells : i + W \in Cells => t.cells[i] = s.cells[i + W]
    BY <1>1, CheckStep
<1>3. n \in Nat /\ Cursor(s) >= n /\ \A i \in 1 .. n : s.cells[Cursor(s) - n + i - 1] = u[i]
    BY DEF Shows
<1> HIDE DEF t, n
<1>4. CASE Cursor(t) = Cursor(s) /\ t.cells = s.cells
    BY <1>3, <1>4 DEF Shows, t, n
<1>5. CASE /\ Cursor(s) = W * H /\ Cursor(t) = W * (H - 1)
           /\ \A i \in Cells : i + W \in Cells => t.cells[i] = s.cells[i + W]
    <2>1. n <= W * (H - 1)
        BY DEF n
    <2>2. ASSUME NEW i \in 1 .. n PROVE t.cells[Cursor(t) - n + i - 1] = u[i]
        <3> DEFINE j == W * (H - 1) - n + i - 1
        <3>1. j \in Cells /\ j + W \in Cells /\ j + W = W * H - n + i - 1
            BY <1>3, <2>1, ScreenSize
        <3> HIDE DEF j
        <3>2. t.cells[j] = s.cells[j + W]
            BY <1>5, <3>1
        <3>3. s.cells[j + W] = u[i]
            BY <1>3, <1>5, <3>1
        <3> QED
            BY <1>5, <3>2, <3>3 DEF j
    <2> QED
        BY <1>3, <1>5, <2>1, <2>2 DEF Shows, t, n
<1> QED
    BY <1>2, <1>4, <1>5

(* One character is written, in video memory or outside.                   *)
LEMMA PutScreen ==
    ASSUME NEW s \in ScreensOf(Contents), NEW i \in Int, NEW c \in Glyphs
    PROVE  /\ Put(s, i, c) \in ScreensOf(Contents)
           /\ Put(s, i, c).x = s.x /\ Put(s, i, c).y = s.y
           /\ i \in Cells => /\ Put(s, i, c).stray = s.stray /\ Put(s, i, c).cells[i] = c
                             /\ \A j \in Cells \ {i} : Put(s, i, c).cells[j] = s.cells[j]
<1>1. s.cells \in Contents
    BY ScreenFields
<1>2. CASE i \in Cells
    <2> DEFINE d == [s.cells EXCEPT ![i] = c]
    <2>1. Put(s, i, c) = [s EXCEPT !.cells = d]
        BY <1>2 DEF Put
    <2>2. d \in Contents /\ d[i] = c /\ \A j \in Cells \ {i} : d[j] = s.cells[j]
        BY <1>1, <1>2 DEF Contents
    <2> HIDE DEF d
    <2> QED
        BY <2>1, <2>2, NewCells
<1>3. CASE i \notin Cells
    <2>1. Put(s, i, c) = [s EXCEPT !.stray = TRUE]
        BY <1>3 DEF Put
    <2> QED
        BY <1>3, <2>1, NewStray
<1> QED
    BY <1>2, <1>3

(* A backspace: the cursor goes back, whatever row it comes from, and what *)
(* it was behind is blank.                                                 *)
LEMMA BackStep ==
    ASSUME NEW s, Good(s)
    PROVE  LET r == PrintChar(s, "BS")
           IN  /\ Good(r) /\ Cursor(r) = Cursor(s) - 1
               /\ Cursor(s) >= 1 =>
                     /\ r.stray = s.stray
                     /\ \A j \in Cells \ {Cursor(s) - 1} : r.cells[j] = s.cells[j]
<1>1. s \in ScreensOf(Contents) /\ s.x <= W /\ s.y < H
    BY ScreensContents DEF Good
<1>2. s.x \in Int /\ s.y \in Nat
    BY <1>1, ScreenFields
<1> DEFINE v == [s EXCEPT !.x = s.x - 1]
           k == W * s.y + s.x - 1
           r == PrintChar(s, "BS")
<1>3. r = Put(v, k, Blank)
    BY DEF PrintChar
<1>4. v \in ScreensOf(Contents) /\ v.x = s.x - 1 /\ v.y = s.y /\ v.cells = s.cells /\ v.stray = s.stray
    BY <1>1, <1>2, MoveX
<1>5. W * s.y \in Nat /\ k \in Int /\ k = Cursor(s) - 1 /\ Cursor(s) <= W * H /\ Cursor(s) \in Int
    BY <1>2, Rows, CursorRange DEF Cursor
<1>6. Blank \in Glyphs
    BY Zenon DEF Glyphs
<1> HIDE DEF v, k, r
<1>7. /\ r \in ScreensOf(Contents) /\ r.x = v.x /\ r.y = v.y
      /\ k \in Cells => r.stray = v.stray /\ \A j \in Cells \ {k} : r.cells[j] = v.cells[j]
    BY <1>3, <1>4, <1>5, <1>6, PutScreen
<1>8. Good(r)
    BY <1>1, <1>2, <1>4, <1>7, ScreenSize, ScreensContents DEF Good
<1>9. Cursor(r) = Cursor(s) - 1
    BY <1>2, <1>4, <1>5, <1>7 DEF Cursor
<1>10. Cursor(s) >= 1 => k \in Cells
    BY <1>5, ScreenSize
<1>11. Cursor(s) >= 1 => /\ r.stray = s.stray
                        /\ \A j \in Cells \ {Cursor(s) - 1} : r.cells[j] = s.cells[j]
    BY <1>4, <1>5, <1>7, <1>10
<1> QED
    BY <1>8, <1>9, <1>11 DEF r

(* A backspace takes the last character away.                              *)
LEMMA BackShows ==
    ASSUME NEW s, Good(s), NEW u \in Seq(Glyphs), NEW v \in Seq(Glyphs), Shows(s, u),
           Len(v) = Len(u) - 1, \A i \in 1 .. Len(v) : v[i] = u[i]
    PROVE  LET r == PrintChar(s, "BS")
           IN  Good(r) /\ Shows(r, v) /\ r.stray = s.stray
<1> DEFINE r == PrintChar(s, "BS")
           n == Len(v)
           q == Cursor(s)
<1>1. /\ Good(r) /\ Cursor(r) = q - 1
      /\ q >= 1 => r.stray = s.stray /\ \A j \in Cells \ {q - 1} : r.cells[j] = s.cells[j]
    BY BackStep
<1>2. n \in Nat /\ Len(u) = n + 1 /\ q \in Int /\ q <= W * H
    BY CursorRange
<1>3. q >= n + 1 /\ \A i \in 1 .. n + 1 : s.cells[q - (n + 1) + i - 1] = u[i]
    BY <1>2 DEF Shows
<1> HIDE DEF r, n, q
<1>4. ASSUME NEW i \in 1 .. n PROVE r.cells[Cursor(r) - n + i - 1] = v[i]
    <2> DEFINE j == q - 1 - n + i - 1
    <2>1. j \in Cells \ {q - 1} /\ j = q - (n + 1) + i - 1
        BY <1>2, <1>3, ScreenSize
    <2> HIDE DEF j
    <2>2. r.cells[j] = s.cells[j]
        BY <1>1, <1>2, <1>3, <2>1
    <2>3. s.cells[j] = u[i]
        BY <1>2, <1>3, <2>1
    <2>4. u[i] = v[i]
        BY DEF n
    <2> QED
        BY <1>1, <2>2, <2>3, <2>4 DEF j
<1>5. Shows(r, v)
    BY <1>1, <1>2, <1>3, <1>4 DEF Shows, n
<1> QED
    BY <1>1, <1>2, <1>3, <1>5 DEF r

(* A character: first check, then it is written at the cursor.             *)
LEMMA CharStep ==
    ASSUME NEW s, Good(s), NEW c \in Glyphs, c \notin Controls
    PROVE  LET t == check(s)
               r == PrintChar(s, c)
           IN  /\ Good(r) /\ Cursor(r) = Cursor(t) + 1
               /\ Cursor(t) >= 0 =>
                     /\ r.stray = s.stray /\ r.cells[Cursor(t)] = c
                     /\ \A j \in Cells \ {Cursor(t)} : r.cells[j] = t.cells[j]
<1> DEFINE t == check(s)
           v == [t EXCEPT !.x = t.x + 1]
           k == W * t.y + t.x
           r == PrintChar(s, c)
<1>1. r = Put(v, k, c)
    BY DEF PrintChar, Controls
<1>2. Good(t) /\ t.x < W /\ t.stray = s.stray
    <2>1. s \in Screens /\ s.x <= W /\ s.y < H
        BY DEF Good
    <2> QED
        BY <2>1, CheckStep
<1> HIDE DEF t
<1>3. t \in ScreensOf(Contents) /\ t.y < H
    BY <1>2, ScreensContents DEF Good
<1>4. t.x \in Int /\ t.y \in Nat /\ t.x + 1 \in Int
    BY <1>3, ScreenFields
<1>5. v \in ScreensOf(Contents) /\ v.x = t.x + 1 /\ v.y = t.y /\ v.cells = t.cells /\ v.stray = t.stray
    BY <1>3, <1>4, MoveX
<1>6. W * t.y \in Nat /\ k \in Int /\ k = Cursor(t) /\ k < W * H
    BY <1>2, <1>4, Rows, CursorRange DEF Cursor
<1> HIDE DEF v, k, r
<1>7. /\ r \in ScreensOf(Contents) /\ r.x = v.x /\ r.y = v.y
      /\ k \in Cells => /\ r.stray = v.stray /\ r.cells[k] = c
                        /\ \A j \in Cells \ {k} : r.cells[j] = v.cells[j]
    BY <1>1, <1>5, <1>6, PutScreen
<1>8. Good(r)
    BY <1>2, <1>3, <1>4, <1>5, <1>7, ScreenSize, ScreensContents DEF Good
<1>9. Cursor(r) = Cursor(t) + 1
    BY <1>4, <1>5, <1>6, <1>7 DEF Cursor
<1>10. k >= 0 => k \in Cells
    BY <1>6, ScreenSize
<1> QED
    BY <1>2, <1>5, <1>6, <1>7, <1>8, <1>9, <1>10 DEF r, t

(* A character is appended to what is shown.                               *)
LEMMA CharShows ==
    ASSUME NEW s, Good(s), NEW u \in Seq(Glyphs), Shows(s, u), Len(u) <= W * (H - 1),
           NEW c \in Glyphs, c \notin Controls
    PROVE  LET r == PrintChar(s, c)
           IN  Good(r) /\ Shows(r, Append(u, c)) /\ r.stray = s.stray
<1> DEFINE r == PrintChar(s, c)
           t == check(s)
           n == Len(u)
           q == Cursor(t)
           w == Append(u, c)
<1>1. /\ Good(r) /\ Cursor(r) = q + 1
      /\ q >= 0 => /\ r.stray = s.stray /\ r.cells[q] = c
                   /\ \A j \in Cells \ {q} : r.cells[j] = t.cells[j]
    BY CharStep
<1>2. Shows(t, u)
    BY CheckShows
<1>3. Good(t)
    <2>1. s \in Screens /\ s.x <= W /\ s.y < H
        BY DEF Good
    <2> QED
        BY <2>1, CheckStep
<1>4. n \in Nat /\ Len(w) = n + 1 /\ w[n + 1] = c /\ \A i \in 1 .. n : w[i] = u[i]
    OBVIOUS
<1>5. q \in Int /\ q <= W * H
    BY <1>3, CursorRange
<1>6. q >= n /\ \A i \in 1 .. n : t.cells[q - n + i - 1] = u[i]
    BY <1>2 DEF Shows
<1> HIDE DEF r, t, n, q, w
<1>7. ASSUME NEW i \in 1 .. n + 1 PROVE r.cells[Cursor(r) - (n + 1) + i - 1] = w[i]
    <2>1. CASE i = n + 1
        <3>1. Cursor(r) - (n + 1) + i - 1 = q
            BY <1>1, <1>4, <1>5, <2>1
        <3> QED
            BY <1>1, <1>4, <1>5, <1>6, <2>1, <3>1
    <2>2. CASE i # n + 1
        <3> DEFINE j == q - n + i - 1
        <3>1. /\ i \in 1 .. n /\ j \in Cells \ {q}
              /\ Cursor(r) - (n + 1) + i - 1 = j
            BY <1>1, <1>4, <1>5, <1>6, <2>2, ScreenSize
        <3>2. t.cells[j] = u[i]
            BY <1>6, <3>1
        <3> HIDE DEF j
        <3>3. r.cells[j] = t.cells[j]
            BY <1>1, <1>4, <1>5, <1>6, <3>1
        <3> QED
            BY <1>4, <3>1, <3>2, <3>3
    <2> QED
        BY <2>1, <2>2
<1>8. Shows(r, w)
    BY <1>1, <1>4, <1>5, <1>6, <1>7 DEF Shows
<1> QED
    BY <1>1, <1>4, <1>5, <1>6, <1>8 DEF r, w

(* A new line: the cursor is at the start of a row of the screen.          *)
LEMMA NewLineStep ==
    ASSUME NEW s, Good(s)
    PROVE  LET r == PrintChar(s, "NL")
           IN  Good(r) /\ Cursor(r) >= 0 /\ r.stray = s.stray
<1>1. s \in ScreensOf(Contents) /\ s.x <= W /\ s.y < H
    BY ScreensContents DEF Good
<1>2. s.x \in Int /\ s.y \in Nat /\ s.y + 1 \in Nat
    BY <1>1, ScreenFields
<1> DEFINE v == [s EXCEPT !.y = s.y + 1, !.x = 0]
           r == PrintChar(s, "NL")
<1>3. r = check(v)
    BY DEF PrintChar
<1>4. v \in ScreensOf(Contents) /\ v.x = 0 /\ v.y = s.y + 1 /\ v.stray = s.stray
    <2> DEFINE d == [s EXCEPT !.y = s.y + 1]
    <2>1. v = [d EXCEPT !.x = 0]
        OBVIOUS
    <2>2. d \in ScreensOf(Contents) /\ d.y = s.y + 1 /\ d.stray = s.stray
        BY <1>1, <1>2, MoveY
    <2> HIDE DEF d
    <2> QED
        BY <2>1, <2>2, MoveX
<1> HIDE DEF v, r
<1>5. v \in Screens /\ v.x <= W /\ (v.y < H \/ (v.y = H /\ v.x = 0))
    BY <1>1, <1>2, <1>4, ScreenSize, ScreensContents
<1>6. /\ Good(r) /\ r.stray = v.stray
      /\ Cursor(r) = Cursor(v) \/ Cursor(r) = W * (H - 1)
    BY <1>3, <1>5, CheckStep
<1>7. Cursor(v) \in Nat
    <2>1. W * v.y \in Nat
        BY <1>2, <1>4, Rows
    <2> QED
        BY <1>4, <2>1 DEF Cursor
<1> QED
    BY <1>4, <1>6, <1>7, ScreenSize DEF r

(* A return: the cursor is at the start of its row.                        *)
LEMMA ReturnStep ==
    ASSUME NEW s, Good(s)
    PROVE  LET r == PrintChar(s, "CR")
           IN  Good(r) /\ Cursor(r) >= 0 /\ r.stray = s.stray
<1>1. s \in ScreensOf(Contents) /\ s.x <= W /\ s.y < H
    BY ScreensContents DEF Good
<1>2. s.y \in Nat
    BY <1>1, ScreenFields
<1> DEFINE r == PrintChar(s, "CR")
<1>3. r = [s EXCEPT !.x = 0]
    BY DEF PrintChar
<1> HIDE DEF r
<1>4. r \in ScreensOf(Contents) /\ r.x = 0 /\ r.y = s.y /\ r.stray = s.stray
    BY <1>1, <1>3, MoveX
<1>5. Good(r)
    BY <1>1, <1>4, ScreensContents, ScreenSize DEF Good
<1>6. Cursor(r) >= 0
    <2>1. W * r.y \in Nat
        BY <1>2, <1>4, Rows
    <2> QED
        BY <1>4, <2>1 DEF Cursor
<1> QED
    BY <1>4, <1>5, <1>6 DEF r

-----------------------------------------------------------------------------
(* printk_string, character by character: f[n] is the screen after n.      *)
PrintStep(f, s, text, n) == IF n = 0 THEN check(s) ELSE PrintChar(f[n - 1], text[n])
Prints(f, s, text) ==
    /\ f[0] = check(s)
    /\ \A n \in 1 .. Len(text) : f[n] = PrintChar(f[n - 1], text[n])

(* The function that Prints describes exists.                              *)
LEMMA PrintsExist ==
    ASSUME NEW s, NEW text, NEW k \in Nat
    PROVE  \E f : f = [n \in 0 .. k |-> PrintStep(f, s, text, n)]
<1> DEFINE Is(f, m) == f = [n \in 0 .. m |-> PrintStep(f, s, text, n)]
           T == {m \in Nat : ~ \E f : Is(f, m)}
<1> SUFFICES ASSUME T # {} PROVE FALSE
    OBVIOUS
<1>1. PICK m \in T : \A j \in T : m <= j
    <2>1. T \subseteq Nat
        OBVIOUS
    <2> HIDE DEF T
    <2> QED
        BY <2>1, LeastNat
<1>2. m # 0
    <2> DEFINE f == [n \in 0 .. 0 |-> check(s)]
    <2>1. \A n \in 0 .. 0 : PrintStep(f, s, text, n) = check(s)
        BY DEF PrintStep
    <2>2. Is(f, 0)
        BY <2>1
    <2> QED
        BY <1>1, <2>2
<1>3. m \in Nat /\ m - 1 \in Nat /\ m - 1 \notin T
    BY <1>1, <1>2
<1>4. PICK f : Is(f, m - 1)
    BY <1>3
<1> DEFINE g == [n \in 0 .. m |-> IF n = m THEN PrintChar(f[m - 1], text[m]) ELSE f[n]]
<1>5. ASSUME NEW n \in 0 .. m PROVE g[n] = PrintStep(g, s, text, n)
    <2>1. CASE n = m
        <3>1. g[n] = PrintChar(f[m - 1], text[m]) /\ g[m - 1] = f[m - 1]
            BY <1>3, <2>1
        <3> HIDE DEF g
        <3> QED
            BY <1>2, <2>1, <3>1 DEF PrintStep
    <2>2. CASE n # m
        <3>1. n \in 0 .. m - 1 /\ (n # 0 => n - 1 \in 0 .. m - 1)
            BY <1>3, <2>2
        <3>2. g[n] = f[n] /\ (n # 0 => g[n - 1] = f[n - 1])
            BY <1>3, <3>1
        <3>3. f[n] = PrintStep(f, s, text, n)
            BY <1>4, <3>1, Zenon
        <3> HIDE DEF g
        <3> QED
            BY <3>2, <3>3 DEF PrintStep
    <2> QED
        BY <2>1, <2>2
<1>6. Is(g, m)
    BY <1>5
<1> QED
    BY <1>1, <1>6

(* printk_string ends with the last screen of it.                          *)
LEMMA PrintkWalk ==
    ASSUME NEW s, NEW text, Len(text) \in Nat
    PROVE  \E f : Prints(f, s, text) /\ printk_string(s, text) = f[Len(text)]
<1> DEFINE k == Len(text)
           after == CHOOSE f : f = [n \in 0 .. k |-> PrintStep(f, s, text, n)]
<1>1. after = [n \in 0 .. k |-> PrintStep(after, s, text, n)]
    <2>1. \E f : f = [n \in 0 .. k |-> PrintStep(f, s, text, n)]
        BY PrintsExist
    <2> QED
        BY <2>1, Zenon
<1>2. printk_string(s, text) = after[k]
    BY Zenon DEF printk_string, PrintStep
<1> HIDE DEF after
<1>3. ASSUME NEW n \in 0 .. k PROVE after[n] = PrintStep(after, s, text, n)
    BY <1>1, Zenon
<1>4. after[0] = check(s)
    <2>1. 0 \in 0 .. k
        OBVIOUS
    <2>2. after[0] = PrintStep(after, s, text, 0)
        BY <1>3, <2>1, Zenon
    <2> QED
        BY <2>2, Zenon DEF PrintStep
<1>5. ASSUME NEW n \in 1 .. k PROVE after[n] = PrintChar(after[n - 1], text[n])
    <2>1. n \in 0 .. k /\ n # 0
        OBVIOUS
    <2>2. after[n] = PrintStep(after, s, text, n)
        BY <1>3, <2>1, Zenon
    <2> QED
        BY <2>1, <2>2, Zenon DEF PrintStep
<1>6. Prints(after, s, text)
    BY <1>4, <1>5, Zenon DEF Prints
<1> QED
    BY <1>2, <1>6, Zenon

(* A single character.                                                     *)
LEMMA PrintkOne ==
    ASSUME NEW s, NEW c
    PROVE  printk_string(s, <<c>>) = PrintChar(check(s), c)
<1> DEFINE text == <<c>>
<1>1. Len(text) = 1 /\ text[1] = c /\ Len(text) \in Nat
    OBVIOUS
<1> HIDE DEF text
<1>2. PICK f : Prints(f, s, text) /\ printk_string(s, text) = f[Len(text)]
    BY <1>1, PrintkWalk
<1>3. f[0] = check(s) /\ f[1] = PrintChar(f[1 - 1], text[1])
    BY <1>1, <1>2 DEF Prints
<1>4. printk_string(s, text) = PrintChar(check(s), c)
    BY <1>1, <1>2, <1>3
<1> QED
    BY <1>4 DEF text

(* check keeps a screen in order.                                          *)
LEMMA CheckGood ==
    ASSUME NEW s, Good(s)
    PROVE  /\ Good(check(s)) /\ check(s).stray = s.stray
           /\ Cursor(s) >= 0 => Cursor(check(s)) >= 0
<1>1. s \in Screens /\ s.x <= W /\ s.y < H
    BY DEF Good
<1>2. /\ Good(check(s)) /\ check(s).stray = s.stray
      /\ Cursor(check(s)) = Cursor(s) \/ Cursor(check(s)) = W * (H - 1)
    BY <1>1, CheckStep
<1> QED
    BY <1>2, ScreenSize

(* A character that is printed leaves the screen in order, and the cursor  *)
(* on it unless it is a backspace.                                         *)
LEMMA OutputStep ==
    ASSUME NEW s, Good(s), NEW c \in Glyphs
    PROVE  LET r == PrintChar(s, c)
           IN  /\ Good(r)
               /\ Cursor(s) >= 0 /\ c # "BS" => Cursor(r) >= 0 /\ r.stray = s.stray
<1>1. CASE c = "NL"
    BY <1>1, NewLineStep
<1>2. CASE c = "CR"
    BY <1>2, ReturnStep
<1>3. CASE c = "BS"
    BY <1>3, BackStep
<1>4. CASE c \notin Controls
    <2>1. Good(check(s)) /\ (Cursor(s) >= 0 => Cursor(check(s)) >= 0)
        BY CheckGood
    <2>2. Cursor(check(s)) \in Int
        BY <2>1, CursorRange
    <2> QED
        BY <1>4, <2>1, <2>2, CharStep
<1> QED
    BY <1>1, <1>2, <1>3, <1>4 DEF Controls

Settled(r, s) == Good(r) /\ Cursor(r) >= 0 /\ r.stray = s.stray

(* Strings of the screen's characters: what is printed, and the prompt.    *)
LEMMA Texts ==
    /\ \A t \in Outputs : t \in Seq(Glyphs)
    /\ Prompt \in Seq(Glyphs) /\ Len(Prompt) \in Nat
<1>1. ASSUME NEW t \in Seq(STRING), Range(t) \subseteq Glyphs PROVE t \in Seq(Glyphs)
    <2>1. Len(t) \in Nat /\ DOMAIN t = 1 .. Len(t) /\ t \in [1 .. Len(t) -> STRING]
        OBVIOUS
    <2>2. \A n \in DOMAIN t : t[n] \in Glyphs
        BY <1>1, Zenon DEF Range
    <2> QED
        BY <2>1, <2>2
<1>2. ASSUME NEW t \in Outputs PROVE t \in Seq(Glyphs)
    <2>1. Range(t) \subseteq Glyphs
        BY Zenon DEF Glyphs
    <2>2. t \in Seq(STRING)
        BY ConsoleAssumption
    <2> QED
        BY <1>1, <2>1, <2>2
<1>3. Prompt \in Seq(Glyphs) /\ Len(Prompt) \in Nat
    <2>1. Range(Prompt) \subseteq Glyphs
        BY Zenon DEF Glyphs
    <2>2. Prompt \in Seq(STRING) /\ Len(Prompt) \in Nat
        BY ConsoleAssumption
    <2> QED
        BY <1>1, <2>1, <2>2
<1> QED
    BY <1>2, <1>3

(* What is printed keeps the screen in order, and the cursor on it unless  *)
(* there is a backspace in it.                                             *)
LEMMA OutputPrints ==
    ASSUME NEW s, Good(s), NEW t \in Seq(Glyphs)
    PROVE  /\ Good(printk_string(s, t))
           /\ Cursor(s) >= 0 /\ "BS" \notin Range(t) => Settled(printk_string(s, t), s)
<1>1. Len(t) \in Nat /\ \A n \in 1 .. Len(t) : t[n] \in Glyphs /\ t[n] \in Range(t)
    BY DEF Range
<1>2. PICK f : Prints(f, s, t) /\ printk_string(s, t) = f[Len(t)]
    BY <1>1, PrintkWalk
<1> DEFINE Plain == Cursor(s) >= 0 /\ "BS" \notin Range(t)
           Fine(n) == Good(f[n]) /\ (Plain => Settled(f[n], s))
           T == {n \in 0 .. Len(t) : ~ Fine(n)}
<1>3. T = {}
    <2> SUFFICES ASSUME T # {} PROVE FALSE
        OBVIOUS
    <2>1. PICK n \in T : \A j \in T : n <= j
        <3>1. T \subseteq Nat
            BY <1>1
        <3> HIDE DEF T
        <3> QED
            BY <3>1, LeastNat
    <2>2. n # 0
        <3>1. Fine(0)
            BY <1>2, CheckGood DEF Prints, Settled
        <3> QED
            BY <2>1, <3>1
    <2>3. n \in 1 .. Len(t) /\ n - 1 \in 0 .. Len(t) /\ n - 1 \notin T
        BY <1>1, <2>1, <2>2
    <2>4. Good(f[n - 1]) /\ (Plain => Settled(f[n - 1], s))
        BY <2>3
    <2>5. f[n] = PrintChar(f[n - 1], t[n]) /\ t[n] \in Glyphs /\ (Plain => t[n] # "BS")
        <3>1. f[n] = PrintChar(f[n - 1], t[n])
            BY <1>2, <2>3, Zenon DEF Prints
        <3> QED
            BY <1>1, <2>3, <3>1
    <2> HIDE DEF Plain
    <2>6. Good(f[n]) /\ (Plain => Settled(f[n], s))
        BY <2>4, <2>5, OutputStep DEF Settled
    <2> QED
        BY <2>1, <2>6
<1>4. Fine(Len(t))
    BY <1>1, <1>3
<1> QED
    BY <1>2, <1>4

(* The prompt is what is shown before the cursor.                          *)
LEMMA PromptPrints ==
    ASSUME NEW s, Good(s), Cursor(s) >= 0
    PROVE  LET r == printk_string(s, Prompt)
           IN  Good(r) /\ Shows(r, Prompt) /\ r.stray = s.stray
<1> DEFINE k == Len(Prompt)
           Up(n) == SubSeq(Prompt, 1, n)
<1>1. k \in Nat /\ Prompt \in Seq(Glyphs) /\ k <= W * (H - 1)
      /\ \A n \in 1 .. k : Prompt[n] \in Glyphs /\ Prompt[n] \notin Controls
    <2>1. Prompt \in Seq(Glyphs) /\ k \in Nat
        BY Texts
    <2>2. \A n \in 1 .. k : Prompt[n] \in Glyphs
        BY <2>1
    <2>3. k <= W * (H - 1)
        BY <2>1, ScreenSize, ConsoleAssumption
    <2> QED
        BY <2>1, <2>2, <2>3, ConsoleAssumption
<1>2. PICK f : Prints(f, s, Prompt) /\ printk_string(s, Prompt) = f[k]
    BY <1>1, PrintkWalk
<1> DEFINE Fine(n) == Good(f[n]) /\ Shows(f[n], Up(n)) /\ f[n].stray = s.stray
           T == {n \in 0 .. k : ~ Fine(n)}
<1>3. \A n \in 0 .. k : Up(n) \in Seq(Glyphs) /\ Len(Up(n)) = n
    BY <1>1
<1>4. \A n \in 1 .. k : Up(n) = Append(Up(n - 1), Prompt[n])
    BY <1>1
<1>5. Up(k) = Prompt
    BY <1>1
<1> HIDE DEF Up
<1>6. Fine(0)
    <2>1. f[0] = check(s)
        BY <1>2 DEF Prints
    <2>2. Good(f[0]) /\ Cursor(f[0]) >= 0 /\ f[0].stray = s.stray
        BY <2>1, CheckGood
    <2>3. Len(Up(0)) = 0
        BY <1>1, <1>3
    <2>4. Shows(f[0], Up(0))
        BY <2>2, <2>3 DEF Shows
    <2> QED
        BY <2>2, <2>4
<1>7. T = {}
    <2> SUFFICES ASSUME T # {} PROVE FALSE
        OBVIOUS
    <2>1. PICK n \in T : \A j \in T : n <= j
        <3>1. T \subseteq Nat
            BY <1>1
        <3> HIDE DEF T
        <3> QED
            BY <3>1, LeastNat
    <2>2. n # 0
        BY <1>6, <2>1
    <2>3. n \in 1 .. k /\ n - 1 \in 0 .. k /\ n - 1 \notin T
        BY <1>1, <2>1, <2>2
    <2>4. Fine(n - 1)
        BY <2>3
    <2>5. f[n] = PrintChar(f[n - 1], Prompt[n])
        BY <1>2, <2>3, Zenon DEF Prints
    <2> DEFINE d == f[n - 1]
               u == Up(n - 1)
               c == Prompt[n]
    <2>6. /\ Good(d) /\ Shows(d, u) /\ d.stray = s.stray /\ u \in Seq(Glyphs) /\ Len(u) <= W * (H - 1)
          /\ c \in Glyphs /\ c \notin Controls /\ Up(n) = Append(u, c) /\ f[n] = PrintChar(d, c)
        <3>1. Len(u) = n - 1 /\ u \in Seq(Glyphs)
            BY <1>3, <2>3
        <3>2. Len(u) <= W * (H - 1)
            BY <1>1, <2>3, <3>1, ScreenSize
        <3>3. Good(d) /\ Shows(d, u) /\ d.stray = s.stray
            BY <2>4
        <3>4. c \in Glyphs /\ c \notin Controls /\ Up(n) = Append(u, c)
            BY <1>1, <1>4, <2>3
        <3> QED
            BY <2>5, <3>1, <3>2, <3>3, <3>4
    <2> HIDE DEF d, u, c
    <2>7. Fine(n)
        BY <2>6, CharShows
    <2> QED
        BY <2>1, <2>7
<1>8. k \in 0 .. k
    BY <1>1
<1>9. Fine(k)
    BY <1>7, <1>8
<1> QED
    BY <1>2, <1>5, <1>9

(* The cursor is back in column 0 of a row after Enter.                    *)
LEMMA EnterPrints ==
    ASSUME NEW s, Good(s)
    PROVE  Settled(printk_string(s, <<"NL">>), s)
<1>1. printk_string(s, <<"NL">>) = PrintChar(check(s), "NL")
    BY PrintkOne
<1>2. Good(check(s)) /\ check(s).stray = s.stray
    BY CheckGood
<1> QED
    BY <1>1, <1>2, NewLineStep DEF Settled

(* clear leaves a screen in order.                                         *)
LEMMA ClearScreen ==
    ASSUME NEW s \in Screens
    PROVE  Settled(clear(s), s)
<1> DEFINE c == [i \in Cells |-> Blank]
           v == [s EXCEPT !.cells = c]
           w == [v EXCEPT !.x = 0]
           r == clear(s)
<1>1. r = [w EXCEPT !.y = 0]
    BY DEF clear
<1>2. c \in Contents
    <2>1. Blank \in Glyphs
        BY Zenon DEF Glyphs
    <2> QED
        BY <2>1 DEF Contents
<1> HIDE DEF c
<1>3. s \in ScreensOf(Contents)
    BY ScreensContents
<1>4. v \in ScreensOf(Contents) /\ v.stray = s.stray
    BY <1>2, <1>3, NewCells
<1> HIDE DEF v
<1>5. w \in ScreensOf(Contents) /\ w.x = 0 /\ w.stray = s.stray
    BY <1>4, MoveX
<1> HIDE DEF w, r
<1>6. r \in ScreensOf(Contents) /\ r.x = 0 /\ r.y = 0 /\ r.stray = s.stray
    BY <1>1, <1>5, MoveY
<1>7. Good(r)
    BY <1>6, ScreensContents, ScreenSize DEF Good
<1>8. W * 0 = 0
    BY ScreenSize
<1>9. Cursor(r) = 0
    BY <1>6, <1>8 DEF Cursor
<1> QED
    BY <1>6, <1>7, <1>9 DEF Settled, r

-----------------------------------------------------------------------------
(* ConsoleInv is inductive.                                                *)

(* What a step draws is the screen afterwards, with nothing written yet.   *)
LEMMA DrawHere ==
    ASSUME NEW s, Good(s), Draw(s)
    PROVE  /\ Good(Here') /\ stray' = s.stray
           /\ \A v : Shows(s, v) => Shows(Here', v)
<1>1. s \in ScreensOf(Contents) /\ s.x <= W /\ s.y < H
    BY ScreensContents DEF Good
<1>2. Here' = [cells |-> s.cells, x |-> s.x, y |-> s.y, stray |-> FALSE] /\ stray' = s.stray
    BY DEF Here, Draw
<1>3. Here' \in ScreensOf(Contents)
    BY <1>1, <1>2, ScreenFields DEF ScreensOf
<1>4. Here'.cells = s.cells /\ Here'.x = s.x /\ Here'.y = s.y
    BY <1>2
<1>5. Good(Here')
    BY <1>1, <1>3, <1>4, ScreensContents DEF Good
<1>6. ASSUME NEW v, Shows(s, v) PROVE Shows(Here', v)
    BY <1>4, <1>6 DEF Shows, Cursor
<1> QED
    BY <1>2, <1>5, <1>6

(* The line with the prompt: text that fits on the screen with a row to    *)
(* spare.                                                                  *)
LEMMA TextFits ==
    ASSUME ConsoleInv
    PROVE  /\ before \o line \in Seq(Glyphs) /\ line \in Seq(Glyphs) /\ before \in Seq(Glyphs)
           /\ Len(before \o line) \in Nat /\ Len(before \o line) <= W * (H - 1)
           /\ Good(Here) /\ ~Here.stray
           /\ ~overrun => Shows(Here, before \o line) /\ Cursor(Here) >= 0
<1>1. Chars \subseteq Glyphs
    BY Zenon DEF Glyphs
<1>2. Prompt \in Seq(Glyphs) /\ Len(Prompt) \in Nat
    BY Texts
<1>3. line \in Seq(Chars) /\ Len(line) <= MaxLine /\ before \in {Prompt, <<>>}
    BY DEF ConsoleInv
<1>4. line \in Seq(Glyphs)
    <2>1. \A n \in 1 .. Len(line) : line[n] \in Glyphs
        BY <1>1, <1>3
    <2> QED
        BY <1>3, <2>1
<1>5. before \in Seq(Glyphs) /\ Len(before) \in Nat /\ Len(before) <= Len(Prompt)
    <2>1. CASE before = Prompt
        BY <1>2, <2>1
    <2>2. CASE before = <<>>
        BY <1>2, <2>2
    <2> QED
        BY <1>3, <2>1, <2>2
<1>6. /\ before \o line \in Seq(Glyphs) /\ Len(before \o line) \in Nat
      /\ Len(before \o line) = Len(before) + Len(line)
    BY <1>4, <1>5
<1>7. Len(before \o line) <= W * (H - 1)
    <2>1. Len(line) \in Nat /\ MaxLine \in Nat /\ Len(Prompt) + MaxLine < W * (H - 1)
        BY <1>3, ConsoleAssumption
    <2> QED
        BY <1>2, <1>3, <1>5, <1>6, <2>1, ScreenSize
<1>8. Good(Here) /\ (~overrun => Shows(Here, before \o line))
    BY DEF ConsoleInv
<1>9. ~Here.stray
    BY DEF Here
<1>10. ~overrun => Cursor(Here) >= 0
    <2>1. Cursor(Here) \in Int
        BY <1>8, CursorRange
    <2>2. ~overrun => Cursor(Here) >= Len(before \o line)
        BY <1>8 DEF Shows
    <2> QED
        BY <1>6, <2>1, <2>2
<1> QED
    BY <1>4, <1>5, <1>6, <1>7, <1>8, <1>9, <1>10

(* What a step may do outside video memory.                                *)
Kept == stray' => overrun \/ erased'
Modes == {"command", "process", "gets", "halted"}

(* A cursor that is not before the screen.                                 *)
LEMMA BelowZero == \A i \in Int : ~(i < 0) => i >= 0
    OBVIOUS

(* ConsoleInv holds with a new prompt.                                     *)
LEMMA PromptedInv ==
    ASSUME NEW s, Good(s), Prompted(s)
    PROVE  ConsoleInv' /\ (Cursor(s) >= 0 => stray' = s.stray)
<1> DEFINE r == printk_string(s, Prompt)
<1>0. Cursor(s) \in Int
    BY CursorRange
<1>1. Good(r) /\ (Cursor(s) >= 0 => Shows(r, Prompt) /\ r.stray = s.stray)
    <2>1. Prompt \in Seq(Glyphs)
        BY Texts
    <2> QED
        BY <2>1, OutputPrints, PromptPrints
<1>2. Draw(r) /\ mode' = "console" /\ line' = <<>> /\ before' = Prompt /\ overrun' = (Cursor(s) < 0)
    BY DEF Prompted
<1> HIDE DEF r
<1>3. Good(Here') /\ stray' = r.stray /\ (Shows(r, Prompt) => Shows(Here', Prompt))
    BY <1>1, <1>2, DrawHere
<1>4. before' \o line' = Prompt
    <2>1. Prompt \in Seq(STRING)
        BY ConsoleAssumption
    <2> QED
        BY <1>2, <2>1
<1>5. line' \in Seq(Chars) /\ Len(line') <= MaxLine
    <2>1. MaxLine \in Nat
        BY ConsoleAssumption
    <2> QED
        BY <1>2, <2>1
<1>6. ~overrun' => Cursor(s) >= 0
    BY <1>0, <1>2, BelowZero, Zenon
<1>7. Good(Here') /\ (~overrun' => Shows(Here', before' \o line'))
    BY <1>1, <1>3, <1>4, <1>6
<1>8. overrun' \in BOOLEAN
    BY <1>2
<1>9. ConsoleInv'
    BY <1>2, <1>5, <1>7, <1>8 DEF ConsoleInv, Shows, Cursor, Good
<1> QED
    BY <1>1, <1>3, <1>9

(* ConsoleInv holds with a command or a process going on.                  *)
LEMMA ToInv ==
    ASSUME NEW s, Good(s), NEW m \in Modes, To(m, s)
    PROVE  ConsoleInv' /\ stray' = s.stray
<1>0. Cursor(s) \in Int
    BY CursorRange
<1>1. Draw(s) /\ mode' = m /\ line' = <<>> /\ before' = <<>> /\ overrun' = (Cursor(s) < 0)
    BY DEF To
<1>2. Good(Here') /\ stray' = s.stray /\ \A v : Shows(s, v) => Shows(Here', v)
    BY <1>1, DrawHere
<1>3. line' \in Seq(Chars) /\ Len(line') <= MaxLine /\ Len(before' \o line') = 0
    <2>1. MaxLine \in Nat
        BY ConsoleAssumption
    <2> QED
        BY <1>1, <2>1
<1>4. ~overrun' => Cursor(s) >= 0
    BY <1>0, <1>1, BelowZero, Zenon
<1>5. ~overrun' => Shows(Here', before' \o line')
    <2>1. ~overrun' => Shows(s, before' \o line')
        BY <1>3, <1>4 DEF Shows
    <2> QED
        BY <1>2, <2>1
<1>6. overrun' \in BOOLEAN
    BY <1>1
<1>7. ConsoleInv'
    BY <1>1, <1>2, <1>3, <1>5, <1>6 DEF ConsoleInv, Shows, Cursor, Modes, Good
<1> QED
    BY <1>2, <1>7

(* ConsoleInv is kept when a command or the process prints.                *)
LEMMA PrintedInv ==
    ASSUME ConsoleInv, mode \in {"command", "process", "halted"}, NEW t \in Outputs, Printed(t)
    PROVE  ConsoleInv' /\ Kept
<1> DEFINE r == printk_string(Here, t)
<1>1. Good(Here) /\ ~Here.stray /\ (~overrun => Cursor(Here) >= 0)
    BY TextFits
<1>2. Good(r) /\ (Cursor(Here) >= 0 /\ "BS" \notin Range(t) => Settled(r, Here))
    <2>1. t \in Seq(Glyphs)
        BY Texts
    <2> QED
        BY <1>1, <2>1, OutputPrints
<1>3. Draw(r) /\ overrun' = (Cursor(r) < 0) /\ erased' = ("BS" \in Range(t))
      /\ UNCHANGED <<mode, line, before>>
    BY DEF Printed
<1>4. line = <<>> /\ before = <<>>
    BY DEF ConsoleInv
<1> HIDE DEF r
<1>5. Good(Here') /\ stray' = r.stray /\ \A v : Shows(r, v) => Shows(Here', v)
    BY <1>2, <1>3, DrawHere
<1>6. Cursor(r) \in Int
    BY <1>2, CursorRange
<1>7. Len(before' \o line') = 0
    BY <1>3, <1>4
<1>8. overrun' \in BOOLEAN /\ (~overrun' => Shows(Here', before' \o line'))
    <2>1. overrun' \in BOOLEAN
        BY <1>3
    <2>2. ~overrun' => Cursor(r) >= 0
        BY <1>3, <1>6, BelowZero, Zenon
    <2>3. ~overrun' => Shows(r, before' \o line')
        BY <1>6, <1>7, <2>2 DEF Shows
    <2> QED
        BY <1>5, <2>1, <2>3
<1>10. ConsoleInv'
    BY <1>3, <1>5, <1>8 DEF ConsoleInv, Shows, Cursor, Good
<1>11. Kept
    BY <1>1, <1>2, <1>3, <1>5 DEF Kept, Settled
<1> QED
    BY <1>10, <1>11

(* ConsoleInv is kept when a character is typed.                           *)
LEMMA TypeInv ==
    ASSUME ConsoleInv, NEW c \in Chars, Type(c)
    PROVE  ConsoleInv' /\ (stray' => overrun)
<1> DEFINE u == before \o line
           t == check(Here)
           r == printk_string(Here, <<c>>)
<1>1. c \in Glyphs /\ c \notin Controls
    <2>1. c \in Glyphs
        BY Zenon DEF Glyphs
    <2> QED
        BY <2>1, ConsoleAssumption
<1>2. r = PrintChar(t, c)
    BY PrintkOne
<1>3. /\ u \in Seq(Glyphs) /\ Len(u) <= W * (H - 1) /\ Good(Here) /\ ~Here.stray
      /\ ~overrun => Shows(Here, u)
    BY TextFits
<1>4. Good(t) /\ ~t.stray /\ (~overrun => Shows(t, u))
    BY <1>3, CheckGood, CheckShows
<1>5. line' = Append(line, c) /\ Draw(r) /\ UNCHANGED <<mode, before, overrun>>
      /\ mode \in {"console", "gets"} /\ Len(line) + 1 < MaxLine
    BY DEF Type
<1> HIDE DEF t, r
<1>6. Good(r)
    BY <1>1, <1>2, <1>4, CharStep
<1>7. ~overrun => Shows(r, Append(u, c)) /\ ~r.stray
    BY <1>1, <1>2, <1>3, <1>4, CharShows
<1>8. Good(Here') /\ stray' = r.stray /\ \A w : Shows(r, w) => Shows(Here', w)
    BY <1>5, <1>6, DrawHere
<1>9. line' \in Seq(Chars) /\ Len(line') <= MaxLine
    <2>1. line \in Seq(Chars) /\ MaxLine \in Nat
        BY ConsoleAssumption DEF ConsoleInv
    <2> QED
        BY <1>5, <2>1
<1>10. before' \o line' = Append(u, c)
    <2>1. before \in Seq(Glyphs) /\ line \in Seq(Glyphs)
        BY TextFits
    <2> QED
        BY <1>1, <1>5, <2>1
<1>11. ~overrun' => Shows(Here', before' \o line')
    BY <1>5, <1>7, <1>8, <1>10
<1>12. ConsoleInv'
    BY <1>5, <1>8, <1>9, <1>11 DEF ConsoleInv, Shows, Cursor, Good
<1> QED
    BY <1>5, <1>7, <1>8, <1>12

(* A text without its last character.                                      *)
LEMMA FrontOf ==
    ASSUME NEW l \in Seq(Glyphs), l # <<>>
    PROVE  /\ Front(l) \in Seq(Glyphs) /\ Len(Front(l)) = Len(l) - 1
           /\ \A i \in 1 .. Len(l) - 1 : Front(l)[i] = l[i]
<1>1. Front(l) \in Seq(Glyphs)
    BY DEF Front
<1>2. \A i \in 1 .. Len(l) - 1 : Front(l)[i] = l[i]
    BY DEF Front
<1>3. Len(Front(l)) = Len(l) - 1
    <2>1. \A n \in Nat : n >= 1 => (IF 1 <= n - 1 THEN n - 1 - 1 + 1 ELSE 0) = n - 1
        OBVIOUS
    <2>2. Len(l) \in Nat /\ Len(l) >= 1
        BY EmptySeq
    <2>3. \A i \in 1 .. Len(l) - 1 : l[i] \in Glyphs
        BY <2>2
    <2>4. Len(Front(l)) = IF 1 <= Len(l) - 1 THEN Len(l) - 1 - 1 + 1 ELSE 0
        BY <2>2, <2>3, SubSeqProperties DEF Front
    <2> QED
        BY <2>1, <2>2, <2>4, Zenon
<1> QED
    BY <1>1, <1>2, <1>3

(* Text without its last character is the start of the text.               *)
LEMMA FrontText ==
    ASSUME NEW b \in Seq(Glyphs), NEW l \in Seq(Glyphs), l # <<>>
    PROVE  /\ b \o Front(l) \in Seq(Glyphs) /\ Len(b \o Front(l)) = Len(b \o l) - 1
           /\ \A i \in 1 .. Len(b \o Front(l)) : (b \o Front(l))[i] = (b \o l)[i]
<1> DEFINE w == Front(l)
<1>0. w \in Seq(Glyphs) /\ Len(w) = Len(l) - 1 /\ \A i \in 1 .. Len(l) - 1 : w[i] = l[i]
    BY FrontOf
<1> HIDE DEF w
<1>1. Len(b) \in Nat /\ Len(l) \in Nat /\ Len(w) \in Nat /\ Len(w) = Len(l) - 1
    BY <1>0
<1>2. b \o w \in Seq(Glyphs) /\ Len(b \o w) = Len(b) + Len(w) /\ Len(b \o l) = Len(b) + Len(l)
    <2>1. b \o w \in Seq(Glyphs)
        BY <1>0, ConcatProperties
    <2>2. Len(b \o w) = Len(b) + Len(w)
        BY <1>0, ConcatProperties
    <2>3. Len(b \o l) = Len(b) + Len(l)
        BY <1>0, ConcatProperties
    <2> QED
        BY <2>1, <2>2, <2>3
<1>3. ASSUME NEW i \in 1 .. Len(b) + Len(w) PROVE (b \o w)[i] = (b \o l)[i]
    <2>1. i \in Int /\ i <= Len(b) + Len(l)
        BY <1>1
    <2>2. CASE i <= Len(b)
        <3>1. (b \o w)[i] = b[i] /\ (b \o l)[i] = b[i]
            BY <1>0, <1>1, <2>1, <2>2
        <3> QED
            BY <3>1
    <2>3. CASE ~(i <= Len(b))
        <3>1. (b \o w)[i] = w[i - Len(b)]
            BY <1>0, <1>1, <2>1, <2>3
        <3>2. (b \o l)[i] = l[i - Len(b)]
            BY <1>0, <1>1, <2>1, <2>3
        <3>3. i - Len(b) \in 1 .. Len(l) - 1
            BY <1>0, <1>1, <2>1, <2>3
        <3> QED
            BY <1>0, <3>1, <3>2, <3>3
    <2> QED
        BY <2>2, <2>3
<1>4. /\ b \o w \in Seq(Glyphs) /\ Len(b \o w) = Len(b \o l) - 1
      /\ \A i \in 1 .. Len(b \o w) : (b \o w)[i] = (b \o l)[i]
    BY <1>1, <1>2, <1>3
<1> QED
    BY <1>4 DEF w

(* A backspace with something on the line, in the console and in gets.     *)
LEMMA BackInv ==
    ASSUME ConsoleInv, mode \in {"console", "gets"}, line # <<>>, line' = Front(line),
           Draw(printk_string(Here, <<"BS">>)), UNCHANGED <<mode, before, overrun>>
    PROVE  ConsoleInv' /\ (stray' => overrun)
<1> DEFINE u == before \o line
           v == before \o Front(line)
           t == check(Here)
           r == printk_string(Here, <<"BS">>)
<1>1. r = PrintChar(t, "BS")
    BY PrintkOne
<1>2. /\ u \in Seq(Glyphs) /\ Len(u) <= W * (H - 1) /\ Good(Here) /\ ~Here.stray
      /\ ~overrun => Shows(Here, u)
    BY TextFits
<1>3. Good(t) /\ ~t.stray /\ (~overrun => Shows(t, u))
    BY <1>2, CheckGood, CheckShows
<1>4. Front(line) \in Seq(Chars) /\ Len(Front(line)) = Len(line) - 1
      /\ \A i \in 1 .. Len(line) - 1 : Front(line)[i] = line[i]
    BY DEF ConsoleInv, Front
<1>5. v \in Seq(Glyphs) /\ Len(v) = Len(u) - 1 /\ \A i \in 1 .. Len(v) : v[i] = u[i]
    <2>1. before \in Seq(Glyphs) /\ line \in Seq(Glyphs)
        BY TextFits
    <2> QED
        BY <2>1, FrontText
<1>6. Good(r)
    BY <1>1, <1>3, BackStep
<1> HIDE DEF t, r, u, v
<1>7. ~overrun => Shows(r, v) /\ ~r.stray
    BY <1>1, <1>2, <1>3, <1>5, BackShows
<1>8. Good(Here') /\ stray' = r.stray /\ \A w : Shows(r, w) => Shows(Here', w)
    BY <1>6, DrawHere DEF r
<1>9. line' \in Seq(Chars) /\ Len(line') <= MaxLine
    <2>1. line \in Seq(Chars) /\ Len(line) <= MaxLine /\ MaxLine \in Nat
        BY ConsoleAssumption DEF ConsoleInv
    <2> QED
        BY <1>4, <2>1
<1>10. before' \o line' = v
    BY DEF v
<1>11. ~overrun' => Shows(Here', before' \o line')
    BY <1>7, <1>8, <1>10
<1>12. ConsoleInv'
    BY <1>8, <1>9, <1>11 DEF ConsoleInv, Shows, Cursor, Good
<1> QED
    BY <1>7, <1>8, <1>12

(* What gets echoes at the start of its line.                              *)
LEMMA OverrunInv ==
    ASSUME ConsoleInv, mode = "gets", line = <<>>, line' = <<>>, overrun' = TRUE,
           Draw(printk_string(Here, <<"BS">>)), UNCHANGED <<mode, before>>
    PROVE  ConsoleInv'
<1> DEFINE r == printk_string(Here, <<"BS">>)
<1>1. r = PrintChar(check(Here), "BS")
    BY PrintkOne
<1>2. Good(Here)
    BY DEF ConsoleInv
<1>3. Good(check(Here))
    BY <1>2, CheckGood
<1>4. Good(r)
    BY <1>1, <1>3, BackStep
<1> HIDE DEF r
<1>5. Good(Here')
    BY <1>4, DrawHere DEF r
<1> QED
    BY <1>5 DEF ConsoleInv, Good

(* Enter in the console: whatever the command is, the next is a prompt or  *)
(* what the command prints, on a screen that is in order.                  *)
LEMMA ExecInv ==
    ASSUME ConsoleInv, console_exec
    PROVE  ConsoleInv' /\ ~stray'
<1> DEFINE s == printk_string(Here, <<"NL">>)
           e == clear(s)
<1>1. Good(Here) /\ ~Here.stray
    BY TextFits
<1>2. Settled(s, Here)
    BY <1>1, EnterPrints
<1>3. \/ \E m \in Modes : To(m, s)
      \/ Prompted(e)
    BY Zenon DEF console_exec, Modes
<1> HIDE DEF s
<1>4. Settled(e, s)
    BY <1>2, ClearScreen DEF Settled, Good
<1> HIDE DEF e
<1>5. Good(s) /\ ~s.stray /\ Good(e) /\ Cursor(e) >= 0 /\ ~e.stray
    BY <1>1, <1>2, <1>4 DEF Settled
<1>6. CASE \E m \in Modes : To(m, s)
    BY <1>5, <1>6, ToInv
<1>7. CASE Prompted(e)
    BY <1>5, <1>7, PromptedInv
<1> QED
    BY <1>3, <1>6, <1>7

(* ConsoleInv holds at boot.                                               *)
LEMMA InitConsole ==
    ASSUME Init
    PROVE  ConsoleInv
<1> DEFINE z == [cells |-> [i \in Cells |-> Blank], x |-> 0, y |-> 0, stray |-> FALSE]
           e == clear(z)
           s == printk_string(e, Prompt)
<1>1. screen = s.cells /\ x = s.x /\ y = s.y /\ stray = s.stray
      /\ mode = "console" /\ line = <<>> /\ before = Prompt /\ overrun = FALSE
    BY DEF Init
<1>2. z \in Screens /\ z.stray = FALSE
    <2>1. Blank \in Glyphs
        BY Zenon DEF Glyphs
    <2> QED
        BY <2>1 DEF Screens
<1> HIDE DEF z
<1>3. Settled(e, z)
    BY <1>2, ClearScreen
<1> HIDE DEF e
<1>4. Good(s) /\ Shows(s, Prompt) /\ s.stray = FALSE
    BY <1>2, <1>3, PromptPrints DEF Settled
<1> HIDE DEF s
<1>5. Here = s
    <2>1. s \in ScreensOf(Contents)
        BY <1>4, ScreensContents DEF Good
    <2>2. s = [cells |-> s.cells, x |-> s.x, y |-> s.y, stray |-> s.stray]
        BY <2>1, Zenon DEF ScreensOf
    <2> QED
        BY <1>1, <1>4, <2>2 DEF Here
<1>6. before \o line = Prompt /\ line \in Seq(Chars) /\ Len(line) <= MaxLine
    BY <1>1, ConsoleAssumption
<1>7. Good(Here) /\ Shows(Here, before \o line)
    BY <1>4, <1>5, <1>6
<1> QED
    BY <1>1, <1>6, <1>7 DEF ConsoleInv

(* One step of anyone.                                                     *)
LEMMA NextConsole ==
    ASSUME ConsoleInv, [Next]_vars
    PROVE  ConsoleInv' /\ (UNCHANGED vars \/ Kept)
<1>0. Good(Here) /\ ~Here.stray /\ (~overrun => Cursor(Here) >= 0) /\ Here \in Screens
    BY TextFits DEF Good
<1>1. CASE UNCHANGED vars
    <2>1. Here' = Here
        BY <1>1 DEF vars, Here
    <2> QED
        BY <1>1, <2>1 DEF vars, ConsoleInv, Good, Shows, Cursor
<1>2. ASSUME NEW c \in Chars, Type(c) PROVE ConsoleInv' /\ Kept
    BY <1>2, TypeInv DEF Kept
<1>3. CASE Backspace
    BY <1>3, BackInv DEF Backspace, MayGoBack, Kept
<1>4. CASE console_exec
    BY <1>4, ExecInv DEF Kept
<1>5. CASE CommandEnds
    BY <1>0, <1>5, PromptedInv DEF CommandEnds, Kept
<1>6. ASSUME NEW t \in Outputs, CommandPrints(t) \/ ProcPrints(t) PROVE ConsoleInv' /\ Kept
    BY <1>6, PrintedInv DEF CommandPrints, ProcPrints
<1>7. CASE ProcClears
    <2>1. Good(clear(Here)) /\ ~clear(Here).stray
        BY <1>0, ClearScreen DEF Settled
    <2> QED
        BY <1>7, <2>1, ToInv DEF ProcClears, Modes, Kept
<1>8. CASE gets
    BY <1>0, <1>8, ToInv DEF gets, Modes, Kept
<1>9. CASE GetsBackspace
    <2>1. CASE line = <<>>
        BY <1>9, <2>1, OverrunInv DEF GetsBackspace, ConsoleInv, Kept
    <2>2. CASE line # <<>>
        <3>1. overrun' = overrun
            BY <1>9, <2>2 DEF GetsBackspace, ConsoleInv
        <3> QED
            BY <1>9, <2>2, <3>1, BackInv DEF GetsBackspace, Kept
    <2> QED
        BY <2>1, <2>2
<1>10. Settled(printk_string(Here, <<"NL">>), Here)
    BY <1>0, EnterPrints
<1>11. CASE GetsEnter
    BY <1>0, <1>10, <1>11, ToInv DEF GetsEnter, Settled, Modes, Kept
<1>12. CASE ProcEnds
    BY <1>0, <1>10, <1>12, PromptedInv DEF ProcEnds, Settled, Kept
<1> QED
    BY <1>1, <1>2, <1>3, <1>4, <1>5, <1>6, <1>7, <1>8, <1>9, <1>11, <1>12 DEF Next

(* The screen is in order, and shows the prompt and the line before the    *)
(* cursor, whatever is typed, printed and erased.                          *)
THEOREM ConsoleInvariant == Spec => []ConsoleInv
    BY InitConsole, NextConsole, PTL DEF Spec

(* The line that Enter executes or gets returns is the one on the screen.  *)
THEOREM LineIsShown == Spec => []LineShown
<1>1. ASSUME ConsoleInv PROVE LineShown
    <2> SUFFICES ASSUME ~overrun, NEW i \in 1 .. Len(before \o line)
                 PROVE  /\ Cursor(Here) - Len(before \o line) + i - 1 \in Cells
                        /\ screen[Cursor(Here) - Len(before \o line) + i - 1] = (before \o line)[i]
        BY Zenon DEF LineShown
    <2> DEFINE n == Len(before \o line)
               q == Cursor(Here)
    <2>1. n \in Nat /\ Good(Here) /\ Shows(Here, before \o line)
        BY <1>1, TextFits
    <2>2. Here.cells = screen
        BY DEF Here
    <2>3. q \in Int /\ q <= W * H
        BY <2>1, CursorRange
    <2>4. q >= n /\ screen[q - n + i - 1] = (before \o line)[i]
        BY <2>1, <2>2 DEF Shows
    <2> HIDE DEF n, q
    <2>5. i \in 1 .. n
        BY DEF n
    <2>6. q - n + i - 1 \in Cells
        BY <2>1, <2>3, <2>4, <2>5, ScreenSize
    <2>7. q - n + i - 1 \in Cells /\ screen[q - n + i - 1] = (before \o line)[i]
        BY <2>4, <2>6
    <2> QED
        BY <2>7 DEF n, q
<1> QED
    BY <1>1, ConsoleInvariant, PTL

(* Nothing is written outside video memory, whatever is typed and printed, *)
(* but by a backspace that is for no character of the line, and by what    *)
(* follows it on a line that begins before the screen or that gets has     *)
(* gone back beyond.                                                       *)
THEOREM VideoMemoryOnly == Spec => StaysInVideoMemory
<1>1. ASSUME ConsoleInv, [Next]_vars PROVE [stray' => overrun \/ erased']_vars
    BY <1>1, NextConsole DEF Kept
<1> QED
    BY <1>1, ConsoleInvariant, PTL DEF Spec, StaysInVideoMemory
=============================================================================
