------------------------------ MODULE Ps2Proofs -----------------------------
(* Proofs about Ps2, for any screen, any packets of the mouse and any keys *)
(* between them: where the pointer goes, and the order of the keys.        *)
EXTENDS Ps2, SequenceTheorems, TLAPS

(* A byte of the mouse is in the buffer.                                   *)
Sent == port.full /\ port.aux

(* The types that a step needs of its predecessor.                         *)
PortType ==
    /\ port.full \in BOOLEAN
    /\ port.full => port.aux \in BOOLEAN /\ port.id \in 0 .. kbd
    /\ Sent => port.byte \in 0 .. 255
PointerTypes ==
    /\ mouse \in Seq(0 .. 255) /\ want \in [x : 0 .. MaxX, y : 0 .. MaxY]
    /\ stolen \in BOOLEAN /\ astray \in BOOLEAN /\ packets \in Nat
Types == TypeOK /\ PortType /\ PointerTypes

(* Where a packet leads the pointer from a place; where it is once the     *)
(* byte in the buffer is taken for the end of a packet.                    *)
After(at, dx, dy) == mouse_check_bounds(at.x + Signed(dx), at.y - Signed(dy))
Place == [x |-> info.x, y |-> info.y]
Base == IF Sent THEN After(info, mouse_byte[1], port.byte) ELSE Place
First(b) == AlwaysOne(b) /\ ~Overflow(b)

(* The handler's place in a packet, and what it has kept of it, agree with *)
(* what the mouse has still to send and the buffer holds.                  *)
InStep ==
    /\ Len(mouse) = 0 => mouse_cycle = (IF Sent THEN 2 ELSE 0) /\ want = Base
    /\ Len(mouse) = 1 =>
          /\ mouse_cycle = IF Sent THEN 1 ELSE 2
          /\ want = After(info, IF Sent THEN port.byte ELSE mouse_byte[1], mouse[1])
    /\ Len(mouse) = 2 =>
          /\ mouse_cycle = IF Sent THEN 0 ELSE 1
          /\ Sent => First(port.byte)
          /\ want = After(info, mouse[1], mouse[2])
    /\ Len(mouse) = 3 =>
          /\ mouse_cycle = IF Sent THEN 2 ELSE 0
          /\ First(mouse[1]) /\ want = After(Base, mouse[2], mouse[3])
    /\ Len(mouse) <= 3
    /\ mouse_cycle > 0 => ~Overflow(mouse_byte[0])
Followed == ~stolen /\ ~astray => InStep
PointerInv == Types /\ Followed

-----------------------------------------------------------------------------
(* Movements                                                               *)

(* mouse_check_bounds puts any two integers on the screen.                 *)
LEMMA BoundsOnScreen ==
    ASSUME NEW a \in Int, NEW b \in Int
    PROVE  mouse_check_bounds(a, b) \in [x : 0 .. MaxX, y : 0 .. MaxY]
<1>1. MaxX \in Nat /\ MaxY \in Nat
  BY Ps2Assumption
<1>2. Within(a, MaxX) \in 0 .. MaxX /\ Within(b, MaxY) \in 0 .. MaxY
  BY <1>1 DEF Within
<1>3. QED BY <1>2 DEF mouse_check_bounds

(* The screen has a size.                                                  *)
LEMMA ScreenSize == MaxX \in Nat /\ MaxY \in Nat
  BY ONLY Ps2Assumption

(* A packet leads to a place on the screen.                                *)
LEMMA AfterOnScreen ==
    ASSUME NEW at, at.x \in Int, at.y \in Int, NEW dx \in Int, NEW dy \in Int
    PROVE  After(at, dx, dy) \in [x : 0 .. MaxX, y : 0 .. MaxY]
<1>1. Signed(dx) \in Int /\ Signed(dy) \in Int
  BY DEF Signed
<1>2. at.x + Signed(dx) \in Int /\ at.y - Signed(dy) \in Int
  BY <1>1
<1>3. QED BY <1>2, BoundsOnScreen DEF After

(* Only the place counts, not the button.                                  *)
LEMMA AfterPlace ==
    ASSUME NEW at, NEW to, at.x = to.x, at.y = to.y, NEW dx, NEW dy
    PROVE  After(at, dx, dy) = After(to, dx, dy)
BY DEF After

(* The two constant records.                                               *)
LEMMA Records == NoKey.id = 0 /\ Empty.full = FALSE
BY DEF NoKey, Empty

-----------------------------------------------------------------------------
(* Each step preserves the invariant                                       *)

KeyCode(key) == Press(key) \/ Repeat(key) \/ Release(key)

(* The keyboard has one code more to send.                                 *)
LEMMA CodeSent ==
    ASSUME TypeOK, NEW key \in Keys, KeyCode(key)
    PROVE  /\ \E pressed \in BOOLEAN : sent' = Append(sent, [key |-> key, down |-> pressed])
           /\ down' \subseteq Keys /\ sent' \in Seq([key : Keys, down : BOOLEAN])
           /\ Len(sent) \in Nat /\ Len(sent') = Len(sent) + 1 /\ Len(sent') <= MaxCodes
           /\ \A i \in 1 .. Len(sent) : sent'[i] = sent[i]
           /\ UNCHANGED <<kbd, irq1, lastkey, reader, taken, mouseVars, port, stolen>>
<1>1. PICK pressed \in BOOLEAN : SendCode(key, pressed)
  BY DEF KeyCode, Press, Repeat, Release
<1>2. down' \subseteq Keys
  BY DEF KeyCode, Press, Repeat, Release, TypeOK
<1> DEFINE e == [key |-> key, down |-> pressed]
<1>3. /\ sent' = Append(sent, e) /\ Len(sent) < MaxCodes
      /\ UNCHANGED <<kbd, irq1, lastkey, reader, taken, mouseVars, port, stolen>>
  BY <1>1 DEF SendCode
<1>4. sent \in Seq([key : Keys, down : BOOLEAN]) /\ e \in [key : Keys, down : BOOLEAN] /\ MaxCodes \in Nat
  BY Ps2Assumption DEF TypeOK
<1>5. \E b \in BOOLEAN : sent' = Append(sent, [key |-> key, down |-> b])
  BY <1>3
<1> HIDE DEF e
<1>6. /\ sent' \in Seq([key : Keys, down : BOOLEAN]) /\ Len(sent) \in Nat /\ Len(sent') = Len(sent) + 1
      /\ \A i \in 1 .. Len(sent) : sent'[i] = sent[i]
  BY <1>3, <1>4
<1>7. QED BY <1>2, <1>3, <1>4, <1>5, <1>6

(* The keys' variables, where a step changes only them.                    *)
LEMMA KeySteps ==
    ASSUME PointerInv,
           \/ \E key \in Keys : KeyCode(key)
           \/ keyboard_get_lastkey \/ keyboard_invalidate_lastkey
    PROVE  PointerInv'
<1>0. TypeOK /\ PortType /\ PointerTypes
  BY DEF PointerInv, Types
<1>1. UNCHANGED <<mouseVars, port, stolen, kbd, irq1>>
  BY <1>0, CodeSent DEF keyboard_get_lastkey, keyboard_invalidate_lastkey
<1>2. /\ down' \subseteq Keys /\ sent' \in Seq([key : Keys, down : BOOLEAN])
      /\ Len(sent') <= MaxCodes /\ kbd \in 0 .. Len(sent')
      /\ lastkey'.id \in 0 .. kbd /\ reader'.id \in 0 .. kbd
  <2>1. Len(sent) \in Nat /\ kbd \in 0 .. Len(sent)
    BY <1>0 DEF TypeOK
  <2>2. CASE \E key \in Keys : KeyCode(key)
    <3>1. /\ down' \subseteq Keys /\ sent' \in Seq([key : Keys, down : BOOLEAN])
          /\ Len(sent') = Len(sent) + 1 /\ Len(sent') <= MaxCodes /\ UNCHANGED <<lastkey, reader>>
      BY <1>0, <2>2, CodeSent
    <3>2. QED BY <1>0, <2>1, <3>1 DEF TypeOK
  <2>3. CASE keyboard_get_lastkey
    BY <1>0, <2>1, <2>3 DEF TypeOK, keyboard_get_lastkey
  <2>4. CASE keyboard_invalidate_lastkey
    <3>1. UNCHANGED <<down, sent>> /\ lastkey' = NoKey /\ reader' = NoKey
      BY <2>4 DEF keyboard_invalidate_lastkey, Invalidated
    <3>2. 0 \in 0 .. kbd
      BY <2>1
    <3>3. QED BY <1>0, <2>1, <3>1, <3>2, Records DEF TypeOK
  <2>5. QED BY <2>2, <2>3, <2>4
<1>3. TypeOK'
  BY <1>0, <1>1, <1>2 DEF TypeOK, mouseVars
<1>4. PortType'
  BY <1>0, <1>1 DEF PortType, Sent
<1>5. PointerTypes' /\ Followed'
  BY <1>0, <1>1 DEF PointerTypes, PointerInv, Followed, InStep, Sent, Base, Place, mouseVars
<1>6. QED BY <1>3, <1>4, <1>5 DEF PointerInv, Types

(* The keyboard's handler takes a byte of the keyboard, or has stolen one. *)
LEMMA KeyboardHandler ==
    ASSUME PointerInv, keyboard_read_key
    PROVE  PointerInv'
<1>0. TypeOK /\ PortType /\ PointerTypes
  BY DEF PointerInv, Types
<1>1. /\ irq1' = FALSE /\ port' = Empty /\ stolen' = (stolen \/ Sent)
      /\ UNCHANGED <<down, sent, kbd, reader, mouseVars>>
      /\ lastkey' = NoKey \/ (port.full /\ lastkey'.id = port.id)
  <2>1. lastkey' = NoKey \/ (port.full /\ \E c : lastkey' = [char |-> c, id |-> port.id])
    BY Zenon DEF keyboard_read_key
  <2>2. lastkey' = NoKey \/ (port.full /\ lastkey'.id = port.id)
    BY <2>1
  <2>3. QED BY <2>2, Zenon DEF keyboard_read_key, Sent
<1>2. TypeOK'
  <2>1. 0 \in 0 .. kbd
    BY <1>0 DEF TypeOK
  <2>2. lastkey'.id \in 0 .. kbd'
    BY <1>0, <1>1, <2>1, Records DEF PortType
  <2>3. QED BY <1>0, <1>1, <2>2 DEF TypeOK, mouseVars
<1>3. ~port'.full /\ ~Sent' /\ port'.full \in BOOLEAN
  BY <1>1 DEF Empty, Sent
<1>4. PortType'
  BY <1>3 DEF PortType
<1>5. stolen' \in BOOLEAN /\ PointerTypes'
  BY <1>0, <1>1 DEF PointerTypes, PortType, Sent, mouseVars
<1>6. Followed'
  <2>1. SUFFICES ASSUME ~stolen', ~astray' PROVE InStep'
    BY DEF Followed
  <2>2. ~Sent /\ ~stolen /\ ~astray
    BY <1>0, <1>1, <2>1 DEF PointerTypes, PortType, Sent, mouseVars
  <2>3. InStep
    BY <2>2 DEF PointerInv, Followed
  <2>4. QED BY <1>1, <1>3, <2>2, <2>3 DEF InStep, Base, Place, mouseVars
<1>7. QED BY <1>2, <1>4, <1>5, <1>6 DEF PointerInv, Types

(* A byte of the keyboard enters the buffer.                               *)
LEMMA KeyboardByte ==
    ASSUME PointerInv, KeyboardSends
    PROVE  PointerInv'
<1>0. TypeOK /\ PortType /\ PointerTypes
  BY DEF PointerInv, Types
<1>1. /\ ~port.full /\ port' = Byte(CodeOf(sent[kbd + 1]), FALSE, kbd + 1) /\ irq1' = TRUE
      /\ kbd < Len(sent) /\ kbd' = kbd + 1
      /\ UNCHANGED <<down, sent, lastkey, reader, mouseVars, stolen>>
  BY DEF KeyboardSends
<1>2. port'.full /\ ~port'.aux /\ port'.aux \in BOOLEAN /\ port'.full \in BOOLEAN /\ port'.id = kbd + 1
  BY <1>1 DEF Byte
<1>3. TypeOK'
  <2>1. kbd' \in 0 .. Len(sent') /\ 0 .. kbd \subseteq 0 .. kbd'
    BY <1>0, <1>1 DEF TypeOK
  <2>2. QED BY <1>0, <1>1, <2>1 DEF TypeOK, mouseVars
<1>4. ~Sent /\ ~Sent'
  BY <1>1, <1>2 DEF Sent
<1>5. PortType'
  <2>1. kbd + 1 \in 0 .. kbd'
    BY <1>0, <1>1 DEF TypeOK
  <2>2. QED BY <1>2, <1>4, <2>1 DEF PortType
<1>6. PointerTypes' /\ Followed'
  BY <1>0, <1>1, <1>4 DEF PointerTypes, PointerInv, Followed, InStep, Base, Place, mouseVars
<1>7. QED BY <1>3, <1>5, <1>6 DEF PointerInv, Types

(* The mouse's handler begins, ends, or drops a byte of the keyboard.      *)
LEMMA HandlerIdle ==
    ASSUME PointerInv,
           \/ mouse_int \/ MouseHandlerEnds
           \/ (mouse_handler /\ ~FromMouse(port))
    PROVE  PointerInv'
<1>0. TypeOK /\ PortType /\ PointerTypes
  BY DEF PointerInv, Types
<1>1. /\ UNCHANGED <<keyVars, mouse, mouse_cycle, mouse_byte, info, want, packets, astray, stolen>>
      /\ irq12' \in BOOLEAN /\ inMouse' \in BOOLEAN
      /\ port' = port \/ (~Sent /\ port' = Empty)
  BY <1>0 DEF mouse_int, MouseHandlerEnds, mouse_handler, FromMouse, Sent, TypeOK
<1>2. TypeOK'
  BY <1>0, <1>1 DEF TypeOK, keyVars
<1>3. PortType' /\ (Sent' <=> Sent) /\ (Sent => port' = port)
  <2>1. CASE port' = port
    BY <1>0, <1>1, <2>1 DEF PortType, Sent, keyVars
  <2>2. CASE ~Sent /\ port' = Empty
    BY <2>2, Records DEF PortType, Sent
  <2>3. QED BY <1>1, <2>1, <2>2
<1>4. PointerTypes'
  BY <1>0, <1>1 DEF PointerTypes
<1>5. Followed'
  BY <1>1, <1>3 DEF PointerInv, Followed, InStep, Base, Place
<1>6. QED BY <1>2, <1>3, <1>4, <1>5 DEF PointerInv, Types

(* Movements of less than 128 are what the handler takes for them.         *)
LEMMA PacketBytes ==
    ASSUME NEW p \in Packets
    PROVE  /\ p \in Seq(0 .. 255) /\ Len(p) = 3 /\ AlwaysOne(p[1])
           /\ Dx(p) \in Int /\ Dy(p) \in Int
           /\ ~Far(p) => Dx(p) = Signed(p[2]) /\ Dy(p) = Signed(p[3])
<1>1. p \in Seq(0 .. 255) /\ Len(p) = 3 /\ (p[1] \div 8) % 2 = 1
  BY Ps2Assumption
<1>2. PICK Bytes : Bytes = 0 .. 255
  OBVIOUS
<1>3. p \in Seq(Bytes) /\ 1 \in 1 .. Len(p) /\ 2 \in 1 .. Len(p) /\ 3 \in 1 .. Len(p)
  BY ONLY <1>1, <1>2
<1>4. p[1] \in Bytes /\ p[2] \in Bytes /\ p[3] \in Bytes
  BY ONLY <1>3, ElementOfSeq, Zenon
<1>5. PICK a \in 0 .. 255, b \in 0 .. 255, c \in 0 .. 255 : a = p[1] /\ b = p[2] /\ c = p[3]
  BY ONLY <1>2, <1>4
<1>6. PICK i \in {0, 1}, j \in {0, 1} : i = (a \div 16) % 2 /\ j = (a \div 32) % 2
  BY ONLY <1>5
<1>7. Dx(p) = b - 256 * i /\ Dy(p) = c - 256 * j
  BY ONLY <1>5, <1>6 DEF Dx, Dy
<1>8. \A d \in 0 .. 255, k \in {0, 1} : d - 256 * k \in -128 .. 127 => d - 256 * k = Signed(d)
  BY ONLY DEF Signed
<1>9. Dx(p) \in Int /\ Dy(p) \in Int
  BY ONLY <1>5, <1>6, <1>7
<1>10. ASSUME ~Far(p) PROVE Dx(p) = Signed(b) /\ Dy(p) = Signed(c)
  <2>1. Dx(p) \in -128 .. 127 /\ Dy(p) \in -128 .. 127
    BY <1>10, Zenon DEF Far
  <2>2. b - 256 * i \in -128 .. 127 /\ c - 256 * j \in -128 .. 127
    BY ONLY <1>7, <2>1
  <2>3. b - 256 * i = Signed(b) /\ c - 256 * j = Signed(c)
    BY ONLY <1>8, <2>2, Zenon
  <2>4. QED BY ONLY <1>7, <2>3, Zenon
<1>11. QED BY ONLY <1>1, <1>5, <1>9, <1>10 DEF AlwaysOne

(* A new packet: the last byte of the one before may still be in the       *)
(* buffer.                                                                 *)
LEMMA NewPacket ==
    ASSUME PointerInv, NEW p \in Packets, MouseMoves(p)
    PROVE  PointerInv'
<1>0. TypeOK /\ PortType /\ PointerTypes
  BY DEF PointerInv, Types
<1>1. /\ mouse = <<>> /\ mouse' = p /\ packets' = packets + 1
      /\ want' = mouse_check_bounds(want.x + Dx(p), want.y - Dy(p))
      /\ astray' = (astray \/ Overflow(p[1]) \/ Far(p))
      /\ UNCHANGED <<keyVars, irq12, inMouse, mouse_cycle, mouse_byte, info, port, stolen>>
  BY DEF MouseMoves
<1>2. /\ p \in Seq(0 .. 255) /\ Len(p) = 3 /\ AlwaysOne(p[1])
      /\ Dx(p) \in Int /\ Dy(p) \in Int
      /\ ~Far(p) => Dx(p) = Signed(p[2]) /\ Dy(p) = Signed(p[3])
  BY PacketBytes
<1>3. TypeOK' /\ PortType'
  BY <1>0, <1>1 DEF TypeOK, PortType, Sent, keyVars
<1>4. PointerTypes'
  <2>1. want' \in [x : 0 .. MaxX, y : 0 .. MaxY]
    <3>1. want \in [x : 0 .. MaxX, y : 0 .. MaxY]
      BY <1>0, Zenon DEF PointerTypes
    <3>2. want.x + Dx(p) \in Int /\ want.y - Dy(p) \in Int
      <4>1. Dx(p) \in Int /\ Dy(p) \in Int
        BY <1>2, Zenon
      <4>2. want.x \in 0 .. MaxX /\ want.y \in 0 .. MaxY
        BY ONLY <3>1
      <4>3. QED BY ONLY <4>1, <4>2, ScreenSize
    <3>3. mouse_check_bounds(want.x + Dx(p), want.y - Dy(p)) \in [x : 0 .. MaxX, y : 0 .. MaxY]
      BY ONLY <3>2, BoundsOnScreen, Zenon
    <3>4. QED BY ONLY <1>1, <3>3
  <2>2. astray' \in BOOLEAN
    BY <1>1
  <2>3. mouse' \in Seq(0 .. 255) /\ packets' \in Nat /\ stolen' \in BOOLEAN
    <3>1. packets \in Nat /\ stolen \in BOOLEAN
      BY <1>0, Zenon DEF PointerTypes
    <3>2. mouse' = p /\ packets' = packets + 1 /\ stolen' = stolen
      BY <1>1, Zenon
    <3>3. QED BY ONLY <1>2, <3>1, <3>2
  <2>4. QED BY ONLY <2>1, <2>2, <2>3 DEF PointerTypes
<1>5. Followed'
  <2>1. SUFFICES ASSUME ~stolen', ~astray' PROVE InStep'
    BY DEF Followed
  <2>2. ~stolen /\ ~astray /\ ~Overflow(p[1]) /\ ~Far(p)
    BY <1>0, <1>1, <2>1 DEF PointerTypes
  <2>3. InStep /\ Len(mouse) = 0
    BY <1>1, <2>2 DEF PointerInv, Followed
  <2>4. /\ mouse_cycle = (IF Sent THEN 2 ELSE 0) /\ want = Base
        /\ mouse_cycle > 0 => ~Overflow(mouse_byte[0])
    BY <2>3 DEF InStep
  <2>5. Base' = Base /\ (Sent' <=> Sent)
    BY <1>1 DEF Base, Place, Sent
  <2>6. want' = After(want, p[2], p[3])
    BY <1>1, <1>2, <2>2 DEF After
  <2>7. QED BY <1>1, <1>2, <2>2, <2>4, <2>5, <2>6 DEF InStep, First
<1>6. QED BY <1>3, <1>4, <1>5 DEF PointerInv, Types

(* The next byte of a packet enters the buffer.                            *)
LEMMA MouseByte ==
    ASSUME PointerInv, MouseSends
    PROVE  PointerInv'
<1>0. TypeOK /\ PortType /\ PointerTypes
  BY DEF PointerInv, Types
<1>1. /\ mouse # <<>> /\ ~port.full /\ port' = Byte(Head(mouse), TRUE, 0) /\ mouse' = Tail(mouse)
      /\ irq12' = TRUE
      /\ UNCHANGED <<keyVars, inMouse, mouse_cycle, mouse_byte, info, want, packets, astray, stolen>>
  BY DEF MouseSends
<1>2. /\ port'.full /\ port'.full \in BOOLEAN /\ port'.aux /\ port'.aux \in BOOLEAN
      /\ port'.id = 0 /\ port'.byte = Head(mouse)
  BY <1>1 DEF Byte
<1>3. /\ Len(mouse) \in Nat /\ Len(mouse) >= 1 /\ Head(mouse) = mouse[1] /\ mouse[1] \in 0 .. 255
      /\ mouse' \in Seq(0 .. 255) /\ Len(mouse') = Len(mouse) - 1
      /\ \A i \in 1 .. Len(mouse) - 1 : mouse'[i] = mouse[i + 1]
  <2>1. mouse \in Seq(0 .. 255) /\ mouse # <<>>
    BY <1>0, <1>1 DEF PointerTypes
  <2>2. Len(mouse) \in Nat /\ Len(mouse) >= 1 /\ Head(mouse) = mouse[1] /\ mouse[1] \in 0 .. 255
    <3>1. Len(mouse) \in Nat /\ Len(mouse) >= 1 /\ Head(mouse) = mouse[1]
      BY <2>1
    <3>2. 1 \in 1 .. Len(mouse)
      BY <3>1
    <3>3. QED BY <2>1, <3>1, <3>2, ElementOfSeq
  <2>3. Tail(mouse) \in Seq(0 .. 255) /\ Len(Tail(mouse)) = Len(mouse) - 1
    BY <2>1
  <2>4. \A i \in 1 .. Len(mouse) - 1 : Tail(mouse)[i] = mouse[i + 1]
    BY <2>1
  <2>5. QED BY <1>1, <2>2, <2>3, <2>4
<1>4. TypeOK'
  BY <1>0, <1>1 DEF TypeOK, keyVars
<1>5. PortType'
  <2>1. 0 \in 0 .. kbd'
    BY <1>4 DEF TypeOK
  <2>2. QED BY <1>2, <1>3, <2>1 DEF PortType
<1>6. PointerTypes'
  BY <1>0, <1>1, <1>3 DEF PointerTypes
<1>7. Followed'
  <2>1. SUFFICES ASSUME ~stolen', ~astray' PROVE InStep'
    BY DEF Followed
  <2>2. InStep
    BY <1>1, <2>1 DEF PointerInv, Followed
  <2>3. /\ ~Sent /\ Sent' /\ port'.byte = mouse[1] /\ Base = Place
        /\ UNCHANGED <<mouse_cycle, mouse_byte, info, want>>
    BY <1>1, <1>2, <1>3 DEF Sent, Base
  <2>4. CASE Len(mouse) = 1
    <3>1. mouse_cycle = 2 /\ want = After(info, mouse_byte[1], mouse[1]) /\ ~Overflow(mouse_byte[0])
      BY <2>2, <2>3, <2>4 DEF InStep
    <3>2. Len(mouse') = 0
      BY <1>3, <2>4
    <3>3. Base' = After(info, mouse_byte[1], mouse[1])
      BY <2>3, Zenon DEF Base
    <3>4. QED BY <2>3, <3>1, <3>2, <3>3 DEF InStep
  <2>5. CASE Len(mouse) = 2
    <3>1. mouse_cycle = 1 /\ want = After(info, mouse[1], mouse[2]) /\ ~Overflow(mouse_byte[0])
      BY <2>2, <2>3, <2>5 DEF InStep
    <3>2. Len(mouse') = 1 /\ mouse'[1] = mouse[2]
      BY <1>3, <2>5
    <3>3. want' = After(info', IF Sent' THEN port'.byte ELSE mouse_byte'[1], mouse'[1])
      BY <2>3, <3>1, <3>2, Zenon
    <3>4. QED BY <2>3, <3>1, <3>2, <3>3 DEF InStep
  <2>6. CASE Len(mouse) = 3
    <3>1. /\ mouse_cycle = 0 /\ First(mouse[1])
          /\ want = After(Place, mouse[2], mouse[3])
      BY <2>2, <2>3, <2>6 DEF InStep
    <3>2. Len(mouse') = 2 /\ mouse'[1] = mouse[2] /\ mouse'[2] = mouse[3]
      BY <1>3, <2>6
    <3>3. After(Place, mouse[2], mouse[3]) = After(info, mouse[2], mouse[3])
      BY AfterPlace DEF Place
    <3>4. want' = After(info', mouse'[1], mouse'[2]) /\ First(port'.byte)
      BY <2>3, <3>1, <3>2, <3>3, Zenon
    <3>5. QED BY <2>3, <3>1, <3>2, <3>4 DEF InStep
  <2>7. QED BY <1>3, <2>2, <2>4, <2>5, <2>6 DEF InStep
<1>8. QED BY <1>4, <1>5, <1>6, <1>7 DEF PointerInv, Types

(* The end of a packet moves the pointer to a place on the screen.         *)
LEMMA PacketEnds ==
    ASSUME Types, Sent, TakeMouseByte(port.byte), mouse_cycle = 2, ~Overflow(mouse_byte[0])
    PROVE  /\ mouse_cycle' = 0 /\ info' \in [x : 0 .. MaxX, y : 0 .. MaxY, button : {0, 1, 2, 4}]
           /\ Place' = After(info, mouse_byte[1], port.byte)
<1> DEFINE at == mouse_check_bounds(info.x + Signed(mouse_byte[1]), info.y - Signed(port.byte))
<1>2. /\ mouse_cycle' = 0
      /\ info' = [x |-> at.x, y |-> at.y, button |-> Button(mouse_byte[0], info.button)]
  BY DEF TakeMouseByte
<1>3. at = After(info, mouse_byte[1], port.byte)
  BY DEF After
<1>4. /\ info.x \in Int /\ info.y \in Int /\ info.button \in {0, 1, 2, 4}
      /\ mouse_byte[0] \in 0 .. 255 /\ mouse_byte[1] \in 0 .. 255 /\ port.byte \in 0 .. 255
  <2>1. /\ info \in [x : 0 .. MaxX, y : 0 .. MaxY, button : {0, 1, 2, 4}]
        /\ mouse_byte \in [0 .. 2 -> 0 .. 255]
    BY Zenon DEF Types, TypeOK
  <2>2. port.byte \in 0 .. 255
    BY Zenon DEF Types, PortType
  <2>3. QED BY ONLY <2>1, <2>2, ScreenSize
<1>5. at \in [x : 0 .. MaxX, y : 0 .. MaxY]
  <2>1. mouse_byte[1] \in Int /\ port.byte \in Int /\ info.x \in Int /\ info.y \in Int
    BY ONLY <1>4
  <2>2. After(info, mouse_byte[1], port.byte) \in [x : 0 .. MaxX, y : 0 .. MaxY]
    BY ONLY <2>1, AfterOnScreen, Zenon
  <2> HIDE DEF at
  <2>3. QED BY ONLY <1>3, <2>2, Zenon
<1>6. Button(mouse_byte[0], info.button) \in {0, 1, 2, 4}
  BY <1>4 DEF Button
<1>7. at = [x |-> at.x, y |-> at.y]
  BY <1>5
<1>8. info'.x = at.x /\ info'.y = at.y
  BY <1>2
<1>9. QED BY <1>2, <1>3, <1>5, <1>6, <1>7, <1>8 DEF Place

(* The mouse's handler takes a byte of the mouse.                          *)
LEMMA MouseHandler ==
    ASSUME PointerInv, mouse_handler, FromMouse(port)
    PROVE  PointerInv'
<1>0. Types /\ TypeOK /\ PortType /\ PointerTypes
  BY DEF PointerInv, Types
<1>1. /\ Sent /\ TakeMouseByte(port.byte) /\ port' = Empty
      /\ UNCHANGED <<keyVars, mouse, irq12, inMouse, want, packets, astray, stolen>>
  BY DEF mouse_handler, FromMouse, Sent
<1>2. /\ port.byte \in 0 .. 255 /\ mouse_cycle \in 0 .. 2 /\ mouse_byte \in [0 .. 2 -> 0 .. 255]
      /\ mouse_byte' = [mouse_byte EXCEPT ![mouse_cycle] = port.byte]
  BY <1>0, <1>1 DEF PortType, TypeOK, TakeMouseByte
<1>3. ~Sent' /\ PortType'
  BY <1>1, Records DEF Sent, PortType
<1>4. PointerTypes'
  BY <1>0, <1>1 DEF PointerTypes
<1>5. TypeOK'
  <2>1. mouse_byte' \in [0 .. 2 -> 0 .. 255]
    BY <1>2
  <2>2. mouse_cycle' \in 0 .. 2 /\ info' \in [x : 0 .. MaxX, y : 0 .. MaxY, button : {0, 1, 2, 4}]
    <3>1. CASE mouse_cycle = 2 /\ ~Overflow(mouse_byte[0])
      BY <1>0, <1>1, <3>1, PacketEnds
    <3>2. CASE ~(mouse_cycle = 2 /\ ~Overflow(mouse_byte[0]))
      <4>1. mouse_cycle' \in {0, 1, 2} /\ info' = info
        BY <1>1, <1>2, <3>2 DEF TakeMouseByte
      <4>2. QED BY <1>0, <4>1 DEF TypeOK
    <3>3. QED BY <3>1, <3>2
  <2>3. QED BY <1>0, <1>1, <2>1, <2>2 DEF TypeOK, keyVars
<1>6. Followed'
  <2>1. SUFFICES ASSUME ~stolen', ~astray' PROVE InStep'
    BY DEF Followed
  <2>2. InStep
    BY <1>1, <2>1 DEF PointerInv, Followed
  <2>3. mouse' = mouse /\ want' = want /\ Base' = Place'
    BY <1>1, <1>3 DEF Base
  <2>4. ASSUME mouse_cycle = 2
        PROVE  mouse_cycle' = 0 /\ Place' = Base
    <3>1. ~Overflow(mouse_byte[0])
      BY <2>2, <2>4 DEF InStep
    <3>2. QED BY <1>0, <1>1, <2>4, <3>1, PacketEnds DEF Base
  <2>5. CASE Len(mouse) = 0
    <3>1. mouse_cycle = 2 /\ want = Base
      BY <1>1, <2>2, <2>5 DEF InStep
    <3>2. QED BY <1>3, <2>3, <2>4, <2>5, <3>1 DEF InStep
  <2>6. CASE Len(mouse) = 1
    <3>1. mouse_cycle = 1 /\ want = After(info, port.byte, mouse[1]) /\ ~Overflow(mouse_byte[0])
      BY <1>1, <2>2, <2>6 DEF InStep
    <3>2. mouse_cycle' = 2 /\ info' = info
      BY <1>1, <3>1 DEF TakeMouseByte
    <3>3. mouse_byte'[0] = mouse_byte[0] /\ mouse_byte'[1] = port.byte
      BY <1>2, <3>1
    <3>4. want' = After(info', IF Sent' THEN port'.byte ELSE mouse_byte'[1], mouse'[1])
      BY <1>3, <2>3, <3>1, <3>2, <3>3, Zenon
    <3>5. QED BY <1>3, <2>3, <2>6, <3>1, <3>2, <3>3, <3>4 DEF InStep
  <2>7. CASE Len(mouse) = 2
    <3>1. mouse_cycle = 0 /\ First(port.byte) /\ want = After(info, mouse[1], mouse[2])
      BY <1>1, <2>2, <2>7 DEF InStep
    <3>2. mouse_cycle' = 1 /\ info' = info
      BY <1>1, <3>1 DEF TakeMouseByte, First
    <3>3. mouse_byte'[0] = port.byte /\ ~Overflow(port.byte)
      BY <1>2, <3>1 DEF First
    <3>4. QED BY <1>3, <2>3, <2>7, <3>1, <3>2, <3>3 DEF InStep
  <2>8. CASE Len(mouse) = 3
    <3>1. mouse_cycle = 2 /\ First(mouse[1]) /\ want = After(Base, mouse[2], mouse[3])
      BY <1>1, <2>2, <2>8 DEF InStep
    <3>2. mouse_cycle' = 0 /\ Base' = Base
      BY <2>3, <2>4, <3>1
    <3>3. QED BY <1>3, <2>3, <2>8, <3>1, <3>2 DEF InStep
  <2>9. Len(mouse) \in 0 .. 3
    <3>1. Len(mouse) \in Nat
      BY <1>0 DEF PointerTypes
    <3>2. Len(mouse) <= 3
      BY <2>2 DEF InStep
    <3>3. \A k \in Nat : k <= 3 => k \in 0 .. 3
      OBVIOUS
    <3>4. QED BY <3>1, <3>2, <3>3, Zenon
  <2>10. QED BY <2>5, <2>6, <2>7, <2>8, <2>9
<1>7. QED BY <1>3, <1>4, <1>5, <1>6 DEF PointerInv, Types

-----------------------------------------------------------------------------
(* The keys: the inductive invariant                                       *)

(* The buffer holds a byte of the keyboard; it is the code of its number.  *)
FromKeyboard == port.full /\ ~port.aux
ByteOfKey ==
    FromKeyboard => port.id \in 1 .. kbd /\ port.byte = CodeOf(sent[port.id])

(* A character and the code it is of.                                      *)
IsOf(key) ==
    /\ key.id \in 1 .. kbd
    /\ sent[key.id].key \in DOMAIN KEYCODE =>
          /\ key.char = sent[key.id].key
          /\ sent[key.id].down <=> key.char \notin WhenReleased

(* No character of this code or a later one is known yet.                  *)
NewFrom(id) ==
    /\ lastkey.id < id /\ reader.id < id
    /\ \A i \in 1 .. Len(taken) : taken[i].id < id

InOrder ==
    /\ lastkey # NoKey => IsOf(lastkey) /\ \A i \in 1 .. Len(taken) : taken[i].id < lastkey.id
    /\ reader # NoKey => IsOf(reader) /\ \A i \in 1 .. Len(taken) : taken[i].id < reader.id
    /\ \A i \in 1 .. Len(taken) : IsOf(taken[i])
    /\ \A i \in 1 .. Len(taken) - 1 : taken[i].id < taken[i + 1].id

(* The byte in the buffer is of a code that nothing is known of.           *)
Once == FromKeyboard => NewFrom(port.id)

Chosen == [char : {"NUL"} \cup UNION {keyboard_to_ascii(b) : b \in Nat}, id : Nat]
KeyTypes == lastkey \in Chosen /\ reader \in Chosen /\ taken \in Seq(Chosen)
KeysInv == Types /\ KeyTypes /\ ByteOfKey /\ (~stolen => InOrder /\ Once)

(* The table of codes.                                                     *)
LEMMA Codes ==
    /\ KEYCODE["q"] = 16 /\ KEYCODE["w"] = 17 /\ KEYCODE["e"] = 18 /\ KEYCODE["r"] = 19
    /\ KEYCODE["t"] = 20 /\ KEYCODE["z"] = 21 /\ KEYCODE["u"] = 22 /\ KEYCODE["i"] = 23
    /\ KEYCODE["o"] = 24 /\ KEYCODE["p"] = 25 /\ KEYCODE["a"] = 30 /\ KEYCODE["s"] = 31
    /\ KEYCODE["d"] = 32 /\ KEYCODE["f"] = 33 /\ KEYCODE["g"] = 34 /\ KEYCODE["h"] = 35
    /\ KEYCODE["j"] = 36 /\ KEYCODE["k"] = 37 /\ KEYCODE["l"] = 38 /\ KEYCODE["y"] = 44
    /\ KEYCODE["x"] = 45 /\ KEYCODE["c"] = 46 /\ KEYCODE["v"] = 47 /\ KEYCODE["b"] = 48
    /\ KEYCODE["n"] = 49 /\ KEYCODE["m"] = 50
    /\ KEYCODE["0"] = 41 /\ KEYCODE["1"] = 2 /\ KEYCODE["9"] = 10 /\ KEYCODE["."] = 52
    /\ KEYCODE["/"] = 53 /\ KEYCODE["\\"] = 1 /\ KEYCODE["BS"] = 14 /\ KEYCODE["SP"] = 57
    /\ KEYCODE["NL"] = 28
<1>1. \A key \in DOMAIN Letters : key \notin Others
  BY DEF Letters, Others
<1>2. \A key \in DOMAIN Letters : KEYCODE[key] = Letters[key]
  BY <1>1 DEF KEYCODE, Others
<1>3. QED BY <1>2 DEF KEYCODE, Letters, Others

(* The keys that have a code.                                              *)
LEMMA CodedKeys ==
    DOMAIN KEYCODE =
        {"q", "w", "e", "r", "t", "z", "u", "i", "o", "p", "a", "s", "d", "f", "g", "h", "j", "k", "l",
         "y", "x", "c", "v", "b", "n", "m"} \cup Others
  BY DEF KEYCODE, Letters

(* The rows of keyboard_to_ascii, and the codes of released keys.          *)
LEMMA Rows ==
    /\ keyboard_to_ascii(16) = {"q"} /\ keyboard_to_ascii(17) = {"w"} /\ keyboard_to_ascii(18) = {"e"}
    /\ keyboard_to_ascii(19) = {"r"} /\ keyboard_to_ascii(20) = {"t"} /\ keyboard_to_ascii(21) = {"z"}
    /\ keyboard_to_ascii(22) = {"u"} /\ keyboard_to_ascii(23) = {"i"} /\ keyboard_to_ascii(24) = {"o"}
    /\ keyboard_to_ascii(25) = {"p"} /\ keyboard_to_ascii(30) = {"a"} /\ keyboard_to_ascii(31) = {"s"}
    /\ keyboard_to_ascii(32) = {"d"} /\ keyboard_to_ascii(33) = {"f"} /\ keyboard_to_ascii(34) = {"g"}
    /\ keyboard_to_ascii(35) = {"h"} /\ keyboard_to_ascii(36) = {"j"} /\ keyboard_to_ascii(37) = {"k"}
    /\ keyboard_to_ascii(38) = {"l"} /\ keyboard_to_ascii(44) = {"y"} /\ keyboard_to_ascii(45) = {"x"}
    /\ keyboard_to_ascii(46) = {"c"} /\ keyboard_to_ascii(47) = {"v"} /\ keyboard_to_ascii(48) = {"b"}
    /\ keyboard_to_ascii(49) = {"n"} /\ keyboard_to_ascii(50) = {"m"}
    /\ keyboard_to_ascii(41) = {"0"} /\ keyboard_to_ascii(2) = {"1"} /\ keyboard_to_ascii(10) = {"9"}
    /\ keyboard_to_ascii(1) = {"\\"} /\ keyboard_to_ascii(14) = {"BS"} /\ keyboard_to_ascii(57) = {"SP"}
    /\ keyboard_to_ascii(28) = {"NL"} /\ keyboard_to_ascii(52) = {"NUL"} /\ keyboard_to_ascii(53) = {"NUL"}
    /\ keyboard_to_ascii(180) = {"."} /\ keyboard_to_ascii(181) = {"/"}
<1>1. Released(KEYCODE["."]) = 180 /\ Released(KEYCODE["/"]) = 181
  BY Codes DEF Released
<1>2. \A b \in 16 .. 25 : keyboard_to_ascii(b) = {qwertzuiop[b - 15]}
  BY <1>1 DEF keyboard_to_ascii, Row
<1>3. \A b \in 30 .. 38 : keyboard_to_ascii(b) = {asdfghjkl[b - 29]}
  BY <1>1 DEF keyboard_to_ascii, Row
<1>4. \A b \in 44 .. 50 : keyboard_to_ascii(b) = {yxcvbnm[b - 43]}
  BY <1>1 DEF keyboard_to_ascii, Row
<1>5. \A b \in 2 .. 10 : keyboard_to_ascii(b) = {num[b - 1]}
  BY <1>1 DEF keyboard_to_ascii, Row
<1>6. /\ keyboard_to_ascii(41) = {"0"} /\ keyboard_to_ascii(1) = {"\\"} /\ keyboard_to_ascii(14) = {"BS"}
      /\ keyboard_to_ascii(57) = {"SP"} /\ keyboard_to_ascii(28) = {"NL"}
      /\ keyboard_to_ascii(52) = {"NUL"} /\ keyboard_to_ascii(53) = {"NUL"}
      /\ keyboard_to_ascii(180) = {"."} /\ keyboard_to_ascii(181) = {"/"}
  BY <1>1 DEF keyboard_to_ascii
<1>7. QED BY <1>2, <1>3, <1>4, <1>5, <1>6 DEF qwertzuiop, asdfghjkl, yxcvbnm, num

(* The code of a key that is released is no character.                     *)
LEMMA SilentWhenReleased ==
    \A b \in Nat : b >= 128 /\ b \notin {180, 181} => keyboard_to_ascii(b) = {"NUL"}
<1>1. Released(KEYCODE["."]) = 180 /\ Released(KEYCODE["/"]) = 181
  BY Codes DEF Released
<1>2. QED BY <1>1 DEF keyboard_to_ascii

(* A code is of a byte.                                                    *)
LEMMA CodeByte ==
    ASSUME NEW e
    PROVE  CodeOf(e) \in Nat
<1>1. Code(e.key) \in 1 .. 57
  <2>1. \A key \in DOMAIN KEYCODE : KEYCODE[key] \in 1 .. 57
    BY Codes, CodedKeys DEF Others
  <2>2. QED BY <2>1 DEF Code
<1>2. QED BY <1>1 DEF CodeOf, Released

(* A key becomes its own character when it is pressed, but the point and   *)
(* the slash when they are released.                                       *)
LEMMA OneCharacter ==
    ASSUME NEW e, e.key \in DOMAIN KEYCODE, e.down \in BOOLEAN,
           NEW c \in keyboard_to_ascii(CodeOf(e)), c # "NUL"
    PROVE  c = e.key /\ (e.down <=> c \notin WhenReleased)
<1>1. Code(e.key) = KEYCODE[e.key]
  BY DEF Code
<1>2. CASE e.key \in WhenReleased
  <2>1. Code(e.key) \in {52, 53} /\ (Code(e.key) = 52 <=> e.key = ".")
    BY <1>1, <1>2, Codes DEF WhenReleased
  <2>2. Released(52) = 180 /\ Released(53) = 181
    BY DEF Released
  <2>3. ~e.down
    <3>1. SUFFICES ASSUME e.down PROVE FALSE
      OBVIOUS
    <3>2. CodeOf(e) \in {52, 53}
      BY <2>1, <3>1 DEF CodeOf
    <3>3. QED BY <3>2, Rows
  <2>4. CodeOf(e) = IF e.key = "." THEN 180 ELSE 181
    BY <2>1, <2>2, <2>3 DEF CodeOf
  <2>5. c = e.key
    BY <1>2, <2>4, Rows DEF WhenReleased
  <2>6. QED BY <1>2, <2>3, <2>5
<1>3. CASE e.key \notin WhenReleased
  <2>1. Code(e.key) \in 1 .. 57 /\ Code(e.key) \notin {52, 53} /\ keyboard_to_ascii(Code(e.key)) = {e.key}
    BY <1>1, <1>3, Codes, CodedKeys, Rows DEF Others, WhenReleased
  <2>2. Released(Code(e.key)) \in Nat /\ Released(Code(e.key)) >= 128 /\ Released(Code(e.key)) \notin {180, 181}
    BY <2>1 DEF Released
  <2>3. e.down
    <3>1. SUFFICES ASSUME ~e.down PROVE FALSE
      OBVIOUS
    <3>2. CodeOf(e) = Released(Code(e.key))
      BY <3>1 DEF CodeOf
    <3>3. QED BY <2>2, <3>2, SilentWhenReleased
  <2>4. CodeOf(e) = Code(e.key)
    BY <2>3 DEF CodeOf
  <2>5. QED BY <1>3, <2>1, <2>3, <2>4
<1>4. QED BY <1>2, <1>3

(* Steps that touch no key, and no byte of one but to drop it.             *)
LEMMA KeysUntouched ==
    ASSUME KeysInv, Types', UNCHANGED <<sent, kbd, lastkey, reader, taken, stolen>>,
           FromKeyboard' => FromKeyboard /\ port' = port
    PROVE  KeysInv'
<1>1. KeyTypes' /\ ByteOfKey'
  BY DEF KeysInv, KeyTypes, ByteOfKey
<1>2. ~stolen' => InOrder'
  BY DEF KeysInv, InOrder, IsOf
<1>3. ~stolen' => Once'
  BY DEF KeysInv, Once, NewFrom
<1>4. QED BY <1>1, <1>2, <1>3 DEF KeysInv

(* A code more to come: those that came stay what they are.                *)
LEMMA KeyTyped ==
    ASSUME KeysInv, Types', NEW key \in Keys, KeyCode(key)
    PROVE  KeysInv'
<1>1. /\ UNCHANGED <<kbd, lastkey, reader, taken, port, stolen>>
      /\ \A i \in 1 .. Len(sent) : sent'[i] = sent[i]
  BY CodeSent DEF KeysInv, Types
<1>2. \A i \in 1 .. kbd : sent'[i] = sent[i]
  BY <1>1 DEF KeysInv, Types, TypeOK
<1>3. \A k : IsOf(k)' <=> IsOf(k)
  BY <1>1, <1>2 DEF IsOf
<1>4. KeyTypes' /\ (FromKeyboard' <=> FromKeyboard)
  BY <1>1 DEF KeysInv, KeyTypes, FromKeyboard
<1>5. ByteOfKey'
  BY <1>1, <1>2, <1>4 DEF KeysInv, ByteOfKey
<1>6. ~stolen' => InOrder'
  BY <1>1, <1>3, Zenon DEF KeysInv, InOrder
<1>7. ~stolen' => Once'
  BY <1>1, <1>4 DEF KeysInv, Once, NewFrom
<1>8. QED BY <1>4, <1>5, <1>6, <1>7 DEF KeysInv

(* The next code enters the buffer: it is later than all that is known.    *)
LEMMA KeySent ==
    ASSUME KeysInv, Types', KeyboardSends
    PROVE  KeysInv'
<1>1. /\ port' = Byte(CodeOf(sent[kbd + 1]), FALSE, kbd + 1) /\ kbd' = kbd + 1
      /\ UNCHANGED <<sent, lastkey, reader, taken, stolen>>
  BY DEF KeyboardSends
<1>2. FromKeyboard' /\ port'.byte = CodeOf(sent[kbd + 1]) /\ port'.id = kbd + 1
  BY <1>1 DEF Byte, FromKeyboard
<1>3. kbd \in Nat /\ lastkey.id \in 0 .. kbd /\ reader.id \in 0 .. kbd
  BY DEF KeysInv, Types, TypeOK
<1>4. ByteOfKey' /\ KeyTypes'
  <2>1. kbd + 1 \in 1 .. kbd'
    BY ONLY <1>1, <1>3
  <2>2. CodeOf(sent'[port'.id]) = CodeOf(sent[kbd + 1])
    BY ONLY <1>1, <1>2, Zenon
  <2>3. ByteOfKey'
    BY ONLY <1>2, <2>1, <2>2 DEF ByteOfKey
  <2>4. QED BY <1>1, <2>3 DEF KeysInv, KeyTypes
<1>5. \A k : IsOf(k) => IsOf(k)'
  <2>1. 1 .. kbd \subseteq 1 .. kbd'
    BY <1>1, <1>3
  <2>2. QED BY <1>1, <2>1 DEF IsOf
<1>6. ASSUME ~stolen PROVE InOrder' /\ Once'
  <2>1. InOrder
    BY <1>6 DEF KeysInv
  <2>2. InOrder'
    BY <1>1, <1>5, <2>1, Zenon DEF InOrder
  <2>3. \A i \in 1 .. Len(taken) : taken[i].id \in 1 .. kbd
    BY <2>1 DEF InOrder, IsOf
  <2>4. NewFrom(port.id)'
    <3>1. \A i \in 0 .. kbd : i < kbd + 1
      BY <1>3
    <3>2. 1 .. kbd \subseteq 0 .. kbd
      OBVIOUS
    <3>3. lastkey.id < kbd + 1 /\ reader.id < kbd + 1 /\ \A i \in 1 .. Len(taken) : taken[i].id < kbd + 1
      BY <1>3, <2>3, <3>1, <3>2, Zenon
    <3>4. QED BY ONLY <1>1, <1>2, <3>3 DEF NewFrom
  <2>5. QED BY <2>2, <2>4 DEF Once
<1>7. QED BY <1>1, <1>4, <1>6 DEF KeysInv

(* The keyboard's handler: the byte is of a code with no character yet.    *)
LEMMA KeyRead ==
    ASSUME KeysInv, Types', keyboard_read_key
    PROVE  KeysInv'
<1>1. /\ port' = Empty /\ stolen' = (stolen \/ (port.full /\ port.aux))
      /\ UNCHANGED <<sent, kbd, reader, taken>>
  BY Zenon DEF keyboard_read_key
<1>2. \/ lastkey' = NoKey
      \/ port.full /\ \E c \in keyboard_to_ascii(port.byte) :
             c # "NUL" /\ lastkey' = [char |-> c, id |-> port.id]
  BY Zenon DEF keyboard_read_key
<1>3. ~FromKeyboard' /\ ByteOfKey' /\ Once'
  BY <1>1, Records DEF FromKeyboard, ByteOfKey, Once
<1>4. /\ stolen \in BOOLEAN /\ (port.full => port.aux \in BOOLEAN /\ port.id \in Nat)
      /\ Len(sent) \in Nat /\ sent \in Seq([key : Keys, down : BOOLEAN]) /\ kbd \in 0 .. Len(sent)
  <2>1. PortType /\ stolen \in BOOLEAN /\ sent \in Seq([key : Keys, down : BOOLEAN]) /\ kbd \in 0 .. Len(sent)
    BY DEF KeysInv, Types, PointerTypes, TypeOK
  <2>2. QED BY <2>1 DEF PortType
<1>5. KeyTypes'
  <2>1. NoKey \in Chosen
    BY DEF NoKey, Chosen
  <2>2. port.full => port.byte \in Nat
    <3>1. CASE Sent
      <4>1. port.byte \in 0 .. 255
        BY <3>1 DEF KeysInv, Types, PortType
      <4>2. QED BY <4>1
    <3>2. CASE FromKeyboard
      BY <3>2, CodeByte DEF KeysInv, ByteOfKey
    <3>3. QED BY <3>1, <3>2 DEF FromKeyboard, Sent
  <2>3. lastkey' \in Chosen
    BY <1>2, <1>4, <2>1, <2>2 DEF Chosen
  <2>4. QED BY <1>1, <2>3 DEF KeysInv, KeyTypes
<1>6. ASSUME ~stolen' PROVE InOrder'
  <2>1. ~stolen /\ (port.full => FromKeyboard)
    BY <1>1, <1>4, <1>6 DEF FromKeyboard
  <2>2. InOrder /\ Once
    BY <2>1 DEF KeysInv
  <2>3. \A k : IsOf(k)' <=> IsOf(k)
    BY <1>1 DEF IsOf
  <2>4. CASE lastkey' = NoKey
    BY <1>1, <2>2, <2>3, <2>4, Zenon DEF InOrder
  <2>5. CASE lastkey' # NoKey
    <3>1. PICK c \in keyboard_to_ascii(port.byte) :
            c # "NUL" /\ lastkey' = [char |-> c, id |-> port.id]
      BY <1>2, <2>5
    <3>2. FromKeyboard
      BY <1>2, <2>1, <2>5
    <3>3. lastkey'.id = port.id /\ lastkey'.char = c
      BY <3>1
    <3>4. NewFrom(port.id) /\ port.id \in 1 .. kbd /\ port.byte = CodeOf(sent[port.id])
      BY <2>2, <3>2 DEF KeysInv, Once, ByteOfKey
    <3>5. sent[port.id].down \in BOOLEAN
      <4>1. port.id \in 1 .. Len(sent)
        BY ONLY <1>4, <3>4
      <4>2. sent[port.id] \in [key : Keys, down : BOOLEAN]
        BY ONLY <1>4, <4>1, ElementOfSeq, Zenon
      <4>3. QED BY ONLY <4>2
    <3>6. IsOf(lastkey')
      BY <3>1, <3>3, <3>4, <3>5, OneCharacter DEF IsOf
    <3>7. \A i \in 1 .. Len(taken) : taken[i].id < lastkey'.id
      BY <3>3, <3>4 DEF NewFrom
    <3>8. IsOf(lastkey)'
      BY <1>1, <3>6 DEF IsOf
    <3>9. QED BY <1>1, <2>2, <2>3, <3>7, <3>8, Zenon DEF InOrder
  <2>6. QED BY <2>4, <2>5
<1>7. QED BY <1>3, <1>5, <1>6 DEF KeysInv

(* The reader takes what it finds, and forgets what came meanwhile.        *)
LEMMA ReaderSteps ==
    ASSUME KeysInv, Types', keyboard_get_lastkey \/ keyboard_invalidate_lastkey
    PROVE  KeysInv'
<1>1. UNCHANGED <<sent, kbd, port, stolen>>
  BY DEF keyboard_get_lastkey, keyboard_invalidate_lastkey
<1>2. ByteOfKey' /\ (FromKeyboard' <=> FromKeyboard)
  BY <1>1 DEF KeysInv, ByteOfKey, FromKeyboard
<1>3. /\ lastkey \in Chosen /\ reader \in Chosen /\ taken \in Seq(Chosen) /\ NoKey \in Chosen
      /\ Len(taken) \in Nat
  BY DEF KeysInv, KeyTypes, NoKey, Chosen
<1>4. CASE keyboard_get_lastkey
  <2>1. reader' = lastkey /\ lastkey # NoKey /\ UNCHANGED <<lastkey, taken>>
    BY <1>4 DEF keyboard_get_lastkey
  <2>2. KeyTypes'
    BY <1>3, <2>1 DEF KeyTypes
  <2>3. ASSUME ~stolen PROVE InOrder' /\ Once'
    <3>1. InOrder /\ Once
      BY <2>3 DEF KeysInv
    <3>2. InOrder'
      BY <1>1, <2>1, <3>1 DEF InOrder, IsOf
    <3>3. NewFrom(port.id) => NewFrom(port.id)'
      BY <1>1, <2>1 DEF NewFrom
    <3>4. QED BY <1>2, <3>1, <3>2, <3>3 DEF Once
  <2>4. QED BY <1>1, <1>2, <2>2, <2>3 DEF KeysInv
<1>5. CASE keyboard_invalidate_lastkey
  <2>1. reader # NoKey /\ lastkey' = NoKey /\ taken' = Append(taken, reader) /\ reader' = NoKey
    BY <1>5 DEF keyboard_invalidate_lastkey, Invalidated
  <2>2. /\ taken' \in Seq(Chosen) /\ Len(taken') = Len(taken) + 1 /\ taken'[Len(taken) + 1] = reader
        /\ \A i \in 1 .. Len(taken) : taken'[i] = taken[i]
    BY <1>3, <2>1
  <2>3. KeyTypes'
    BY <1>3, <2>1, <2>2 DEF KeyTypes
  <2>4. ASSUME ~stolen PROVE InOrder' /\ Once'
    <3>1. InOrder /\ Once
      BY <2>4 DEF KeysInv
    <3>2. \A i \in 1 .. Len(taken') : i \in 1 .. Len(taken) \/ (i = Len(taken) + 1 /\ taken'[i] = reader)
      BY <1>3, <2>2
    <3>3. \A k : IsOf(k)' <=> IsOf(k)
      BY <1>1 DEF IsOf
    <3>4. \A i \in 1 .. Len(taken') : IsOf(taken'[i])
      <4>1. IsOf(reader) /\ \A i \in 1 .. Len(taken) : IsOf(taken[i])
        BY <2>1, <3>1 DEF InOrder
      <4>2. QED BY <2>2, <3>2, <4>1
    <3>5. \A i \in 1 .. Len(taken') - 1 : taken'[i].id < taken'[i + 1].id
      <4>1. ASSUME NEW i \in 1 .. Len(taken') - 1 PROVE taken'[i].id < taken'[i + 1].id
        <5>1. i \in 1 .. Len(taken) /\ taken'[i] = taken[i]
          BY <1>3, <2>2
        <5>2. CASE i = Len(taken)
          BY <2>1, <2>2, <3>1, <5>1, <5>2 DEF InOrder
        <5>3. CASE i # Len(taken)
          <6>1. i \in 1 .. Len(taken) - 1 /\ i + 1 \in 1 .. Len(taken)
            BY <1>3, <5>1, <5>3
          <6>2. QED BY <2>2, <3>1, <5>1, <6>1 DEF InOrder
        <5>4. QED BY <5>2, <5>3
      <4>2. QED BY <4>1
    <3>6. InOrder'
      BY <2>1, <3>3, <3>4, <3>5, Zenon DEF InOrder
    <3>7. ASSUME FromKeyboard PROVE NewFrom(port.id)'
      <4>1. NewFrom(port.id) /\ port.id \in 1 .. kbd
        BY <3>1, <3>7 DEF KeysInv, Once, ByteOfKey
      <4>2. \A i \in 1 .. Len(taken') : taken'[i].id < port.id
        BY <2>2, <3>2, <4>1 DEF NewFrom
      <4>3. QED BY <1>1, <2>1, <4>1, <4>2, Records DEF NewFrom
    <3>8. QED BY <1>2, <3>6, <3>7 DEF Once
  <2>5. QED BY <1>1, <1>2, <2>3, <2>4 DEF KeysInv
<1>6. QED BY <1>4, <1>5

-----------------------------------------------------------------------------
(* Theorems                                                                *)

(* PointerInv holds at boot.                                               *)
LEMMA PointerInit == Init => PointerInv
<1>1. SUFFICES ASSUME Init PROVE PointerInv
  OBVIOUS
<1>2. /\ down = {} /\ sent = <<>> /\ kbd = 0 /\ port = Empty /\ irq1 = FALSE /\ irq12 = FALSE /\ inMouse = FALSE
      /\ lastkey = NoKey /\ reader = NoKey /\ packets = 0 /\ stolen = FALSE
      /\ mouse = <<>> \/ mouse = <<250>>
      /\ astray = (mouse # <<>>)
      /\ info = [x |-> 0, y |-> 0, button |-> 0] /\ want = [x |-> 0, y |-> 0]
      /\ mouse_cycle = 0 /\ mouse_byte = [i \in 0 .. 2 |-> 0]
  BY <1>1 DEF Init, mouse_init, AnswersLeft
<1>3. MaxX \in Nat /\ MaxY \in Nat /\ MaxCodes \in Nat
  BY Ps2Assumption
<1>4. TypeOK
  BY <1>2, <1>3, Records DEF TypeOK
<1>5. ~Sent /\ PortType
  BY <1>2, Records DEF Sent, PortType
<1>6. PointerTypes
  BY <1>2, <1>3 DEF PointerTypes
<1>7. Followed
  <2>1. SUFFICES ASSUME ~astray PROVE InStep
    BY DEF Followed
  <2>2. mouse = <<>> /\ Len(mouse) = 0
    BY <1>2, <2>1
  <2>3. want = Base
    BY <1>2, <1>5 DEF Base, Place
  <2>4. QED BY <1>2, <1>5, <2>2, <2>3 DEF InStep
<1>8. QED BY <1>4, <1>5, <1>6, <1>7 DEF PointerInv, Types

(* PointerInv is inductive.                                                *)
LEMMA PointerNext == PointerInv /\ [Next]_vars => PointerInv'
<1>1. SUFFICES ASSUME PointerInv, [Next]_vars PROVE PointerInv'
  OBVIOUS
<1>2. CASE UNCHANGED vars
  BY <1>1, <1>2 DEF PointerInv, Types, TypeOK, PortType, PointerTypes, Followed, InStep, Sent, Base,
     Place, vars, keyVars, mouseVars
<1>3. CASE Next
  BY <1>1, <1>3, KeySteps, KeyboardHandler, KeyboardByte, HandlerIdle, NewPacket, MouseByte,
     MouseHandler DEF Next, KeyCode
<1>4. QED BY <1>1, <1>2, <1>3

(* The inductive invariant of the pointer: at every moment the handler's   *)
(* state fits what has been sent and what is in the buffer.                *)
THEOREM PointerInvariant == Spec => []PointerInv
BY PointerInit, PointerNext, PTL DEF Spec

(* Type correctness; the pointer never leaves the screen.                  *)
THEOREM TypeCorrect == Spec => []TypeOK
<1>1. PointerInv => TypeOK
  BY DEF PointerInv, Types
<1>2. QED BY <1>1, PointerInvariant, PTL

(* mouse_handler moves the pointer to where the nine-bit movements of the  *)
(* packets lead, whatever keys arrive between their bytes, unless a byte   *)
(* was stolen, a packet had an overflow bit or a movement of 128 or more,  *)
(* or the answer to mouse_init was late.                                   *)
THEOREM PointerIsFollowed == Spec => []PointerFollows
<1>1. PointerInv => PointerFollows
  <2>1. SUFFICES ASSUME PointerInv, ~stolen, ~astray, mouse = <<>>, port.full => ~port.aux
                 PROVE  mouse_cycle = 0 /\ info.x = want.x /\ info.y = want.y
    BY DEF PointerFollows
  <2>2. InStep /\ ~Sent /\ Len(mouse) = 0
    BY <2>1 DEF PointerInv, Followed, Sent
  <2>3. mouse_cycle = 0 /\ want = Place
    BY <2>2 DEF InStep, Base
  <2>4. QED BY <2>3 DEF Place
<1>2. QED BY <1>1, PointerInvariant, PTL

(* KeysInv holds at boot.                                                  *)
LEMMA KeysInit == Init => KeysInv
<1>1. SUFFICES ASSUME Init PROVE KeysInv
  OBVIOUS
<1>2. Types
  BY <1>1, PointerInit DEF PointerInv
<1>3. port = Empty /\ lastkey = NoKey /\ reader = NoKey /\ taken = <<>>
  BY <1>1 DEF Init
<1>4. KeyTypes
  BY <1>3 DEF KeyTypes, Chosen, NoKey
<1>5. ByteOfKey /\ InOrder /\ Once
  BY <1>3, Records DEF ByteOfKey, InOrder, Once, FromKeyboard
<1>6. QED BY <1>2, <1>4, <1>5 DEF KeysInv

(* KeysInv is inductive beside PointerInv.                                 *)
LEMMA KeysNext == PointerInv /\ KeysInv /\ [Next]_vars => KeysInv'
<1>1. SUFFICES ASSUME PointerInv, KeysInv, [Next]_vars PROVE KeysInv'
  OBVIOUS
<1>2. Types'
  BY <1>1, PointerNext DEF PointerInv
<1>3. CASE (\E p \in Packets : MouseMoves(p)) \/ mouse_int \/ MouseHandlerEnds \/ UNCHANGED vars
  <2>1. UNCHANGED <<sent, kbd, lastkey, reader, taken, stolen, port>>
    BY <1>3 DEF MouseMoves, mouse_int, MouseHandlerEnds, vars, keyVars
  <2>2. QED BY <1>1, <1>2, <2>1, KeysUntouched DEF FromKeyboard
<1>4. CASE MouseSends \/ mouse_handler
  <2>1. /\ UNCHANGED <<sent, kbd, lastkey, reader, taken, stolen>>
        /\ port' = Empty \/ port' = Byte(Head(mouse), TRUE, 0)
    BY <1>4 DEF MouseSends, mouse_handler, keyVars
  <2>2. ~FromKeyboard'
    BY <2>1 DEF FromKeyboard, Empty, Byte
  <2>3. QED BY <1>1, <1>2, <2>1, <2>2, KeysUntouched
<1>5. CASE Next
  BY <1>1, <1>2, <1>3, <1>4, <1>5, KeyTyped, KeySent, KeyRead, ReaderSteps DEF Next, KeyCode
<1>6. QED BY <1>1, <1>3, <1>5

(* What the reader goes on with are the characters of the codes that the   *)
(* keyboard sent, in their order and each once, for any keys held down     *)
(* together, mouse packets and interleaving of handlers and reader         *)
(* (Ps2.KeysInOrder).                                                      *)
THEOREM KeysArriveInOrder == Spec => []KeysInOrder
<1>1. KeysInv => KeysInOrder
  BY DEF KeysInv, InOrder, IsOf, KeysInOrder
<1>2. QED BY <1>1, KeysInit, KeysNext, PointerInvariant, PTL DEF Spec
=============================================================================
