-------------------------------- MODULE Ps2 ---------------------------------
(***************************************************************************)
(* Keyboard and mouse (drivers/keyboard/keyboard.c, drivers/mouse/mouse.c) *)
(* on the one output buffer of the 8042, with their interrupts 1 and 12,   *)
(* and a reader: the loop of console_run, getchar and gets that polls      *)
(* keyboard_get_lastkey and then calls keyboard_invalidate_lastkey.        *)
(*                                                                         *)
(* Interrupt handlers run with interrupts off, the reader with interrupts  *)
(* on.  The keyboard's handler is one step.  The mouse's handler is a loop *)
(* that asks for the buffer's status again, so that a byte which arrives   *)
(* meanwhile is taken by it: one step for each round.                      *)
(***************************************************************************)
EXTENDS Integers, Sequences

CONSTANTS
    Keys,       \* the keys that are used
    Packets,    \* what the mouse sends: three bytes, the first with bit 3 set
    MaxX, MaxY, \* 1024 and 768
    Overread,   \* the characters that may follow the string "qwertzuiop"
    MaxCodes,   \* bound: codes the keyboard sends
    MaxPackets  \* bound: packets sent

ASSUME Ps2Assumption ==
    /\ Packets \subseteq Seq(0 .. 255)
    /\ \A p \in Packets : Len(p) = 3 /\ (p[1] \div 8) % 2 = 1
    /\ MaxX \in Nat /\ MaxY \in Nat /\ MaxCodes \in Nat /\ MaxPackets \in Nat

(* enum KEYCODE: the codes of the keys when they are pressed; released     *)
(* ones have 0x80 more.  Point and slash are used when they are released.  *)
Letters ==
    [q |-> 16, w |-> 17, e |-> 18, r |-> 19, t |-> 20, z |-> 21, u |-> 22, i |-> 23,
     o |-> 24, p |-> 25, a |-> 30, s |-> 31, d |-> 32, f |-> 33, g |-> 34, h |-> 35,
     j |-> 36, k |-> 37, l |-> 38, y |-> 44, x |-> 45, c |-> 46, v |-> 47, b |-> 48,
     n |-> 49, m |-> 50]
Others == {"0", "1", "9", ".", "/", "\\", "BS", "SP", "NL"}
KEYCODE ==
    [key \in DOMAIN Letters \cup Others |->
        CASE key = "0" -> 41 [] key = "1" -> 2 [] key = "9" -> 10 [] key = "." -> 52 [] key = "/" -> 53
          [] key = "\\" -> 1 [] key = "BS" -> 14 [] key = "SP" -> 57 [] key = "NL" -> 28
          [] OTHER -> Letters[key]]
Released(code) == code + 128

(* keyboard_to_ascii: the characters that a code may become, NUL for none. *)
(* The row of q is said to reach up to 0x1C; its string does not.          *)
Row(string, from, key) == string[key - from + 1]
qwertzuiop == <<"q", "w", "e", "r", "t", "z", "u", "i", "o", "p", "NUL">>
asdfghjkl == <<"a", "s", "d", "f", "g", "h", "j", "k", "l">>
yxcvbnm == <<"y", "x", "c", "v", "b", "n", "m">>
num == <<"1", "2", "3", "4", "5", "6", "7", "8", "9">>
keyboard_to_ascii(key) ==
    CASE key = 28 -> {"NL"} [] key = 57 -> {"SP"} [] key = 14 -> {"BS"}
      [] key = Released(KEYCODE["."]) -> {"."}
      [] key = Released(KEYCODE["/"]) -> {"/"}
      [] key = 41 -> {"0"} [] key = 1 -> {"\\"}
      [] key \in 2 .. 10 -> {Row(num, 2, key)}
      [] key = 27 -> Overread
      [] key \in 16 .. 26 -> {Row(qwertzuiop, 16, key)}
      [] key \in 30 .. 38 -> {Row(asdfghjkl, 30, key)}
      [] key \in 44 .. 50 -> {Row(yxcvbnm, 44, key)}
      [] OTHER -> {"NUL"}

VARIABLES
    down,       \* the keys that are held down
    sent,       \* the codes of the keyboard, by key and whether it went down
    kbd,        \* how many of them the controller has got
    mouse,      \* bytes that the mouse still has to send
    port,       \* the output buffer: a byte, from the mouse or not, or nothing
    irq1, irq12,
    lastkey,
    reader,     \* what the reader has got from keyboard_get_lastkey
    taken,      \* what it went on with
    inMouse,    \* the mouse's handler is running
    mouse_cycle, mouse_byte, info,
    want,       \* where the packets sent move the pointer
    packets,
    stolen,     \* the keyboard's handler has taken a byte of the mouse
    astray      \* the mouse has sent what mouse_handler does not follow

keyVars == <<down, sent, kbd, irq1, lastkey, reader, taken>>
mouseVars == <<mouse, irq12, inMouse, mouse_cycle, mouse_byte, info, want, packets, astray>>
vars == <<keyVars, mouseVars, port, stolen>>

Empty == [full |-> FALSE]
Byte(b, aux, id) == [full |-> TRUE, byte |-> b, aux |-> aux, id |-> id]
NoKey == [char |-> "NUL", id |-> 0]

(* The types; the pointer stays on the screen whatever bytes arrive.       *)
TypeOK ==
    /\ down \subseteq Keys /\ sent \in Seq([key : Keys, down : BOOLEAN])
    /\ Len(sent) <= MaxCodes /\ kbd \in 0 .. Len(sent)
    /\ irq1 \in BOOLEAN /\ irq12 \in BOOLEAN /\ inMouse \in BOOLEAN
    /\ lastkey.id \in 0 .. kbd /\ reader.id \in 0 .. kbd
    /\ mouse_cycle \in 0 .. 2 /\ mouse_byte \in [0 .. 2 -> 0 .. 255]
    /\ info \in [x : 0 .. MaxX, y : 0 .. MaxY, button : {0, 1, 2, 4}]

-----------------------------------------------------------------------------
(* A char is signed.                                                       *)
Signed(b) == IF b >= 128 THEN b - 256 ELSE b

(* The mutant forgets the lower bound.                                     *)
WithinTop(v, max) == IF v > max THEN max ELSE v
Within(v, max) == IF v > max THEN max ELSE IF v < 0 THEN 0 ELSE v
mouse_check_bounds(x, y) == [x |-> Within(x, MaxX), y |-> Within(y, MaxY)]

(* The devices (external)                                                  *)

Code(key) == IF key \in DOMAIN KEYCODE THEN KEYCODE[key] ELSE 27
CodeOf(e) == IF e.down THEN Code(e.key) ELSE Released(Code(e.key))

SendCode(key, pressed) ==
    /\ Len(sent) < MaxCodes
    /\ sent' = Append(sent, [key |-> key, down |-> pressed])
    /\ UNCHANGED <<kbd, irq1, lastkey, reader, taken, mouseVars, port, stolen>>

(* A key goes down, others being held down or not.                         *)
Press(key) ==
    /\ key \notin down /\ down' = down \cup {key}
    /\ SendCode(key, TRUE)

(* The code of a key that is held down is sent again and again.            *)
Repeat(key) ==
    /\ key \in down /\ UNCHANGED down
    /\ SendCode(key, TRUE)

Release(key) ==
    /\ key \in down /\ down' = down \ {key}
    /\ SendCode(key, FALSE)

KeyboardSends ==
    /\ kbd < Len(sent) /\ ~port.full
    /\ port' = Byte(CodeOf(sent[kbd + 1]), FALSE, kbd + 1)
    /\ kbd' = kbd + 1 /\ irq1' = TRUE
    /\ UNCHANGED <<down, sent, lastkey, reader, taken, mouseVars, stolen>>

MouseSends ==
    /\ mouse # <<>> /\ ~port.full
    /\ port' = Byte(Head(mouse), TRUE, 0)
    /\ mouse' = Tail(mouse) /\ irq12' = TRUE
    /\ UNCHANGED <<keyVars, inMouse, mouse_cycle, mouse_byte, info, want, packets, astray, stolen>>

(* The movements of a packet: nine bits each, the signs in the first byte. *)
(* The handler uses the other eight, as a signed char, which is the same   *)
(* for movements of less than 128.                                         *)
Dx(p) == p[2] - 256 * ((p[1] \div 16) % 2)
Dy(p) == p[3] - 256 * ((p[1] \div 32) % 2)
Far(p) == Dx(p) \notin -128 .. 127 \/ Dy(p) \notin -128 .. 127

(* A packet that moves the pointer, or one with an overflow bit.           *)
Overflow(b) == b >= 64               \* b & 0xC0
MouseMoves(p) ==
    /\ mouse = <<>> /\ packets < MaxPackets
    /\ mouse' = p /\ packets' = packets + 1
    /\ want' = mouse_check_bounds(want.x + Dx(p), want.y - Dy(p))
    /\ astray' = (astray \/ Overflow(p[1]) \/ Far(p))
    /\ UNCHANGED <<keyVars, irq12, inMouse, mouse_cycle, mouse_byte, info, port, stolen>>

-----------------------------------------------------------------------------
(* The handlers                                                            *)

(* keyboard_read_key: whatever is in the buffer becomes the last key, and  *)
(* the key before it is forgotten.                                         *)
keyboard_read_key ==
    /\ irq1 /\ ~inMouse
    /\ irq1' = FALSE
    /\ IF port.full
       THEN \E c \in keyboard_to_ascii(port.byte) :
                lastkey' = IF c = "NUL" THEN NoKey ELSE [char |-> c, id |-> port.id]
       ELSE lastkey' = NoKey
    /\ port' = Empty
    /\ stolen' = (stolen \/ (port.full /\ port.aux))
    /\ UNCHANGED <<down, sent, kbd, reader, taken, mouseVars>>

mouse_int ==
    /\ irq12 /\ ~inMouse
    /\ irq12' = FALSE /\ inMouse' = TRUE
    /\ UNCHANGED <<keyVars, mouse, mouse_cycle, mouse_byte, info, want, packets, astray, port, stolen>>

(* mouse_handler for a byte of the mouse.  A first byte must have the      *)
(* always-one bit.  An overflow leaves mouse_cycle where it is.  A button  *)
(* stays until another is pressed.                                         *)
AlwaysOne(b) == (b \div 8) % 2 = 1
Button(b, old) == CASE b % 2 = 1 -> 1 [] (b \div 2) % 2 = 1 -> 2 [] (b \div 4) % 2 = 1 -> 4
                    [] OTHER -> old

TakeMouseByte(b) ==
    /\ mouse_byte' = [mouse_byte EXCEPT ![mouse_cycle] = b]
    /\ \/ mouse_cycle = 0 /\ mouse_cycle' = (IF AlwaysOne(b) THEN 1 ELSE 0) /\ UNCHANGED info
       \/ mouse_cycle = 1 /\ mouse_cycle' = 2 /\ UNCHANGED info
       \/ mouse_cycle = 2 /\ Overflow(mouse_byte[0]) /\ UNCHANGED <<mouse_cycle, info>>
       \/ /\ mouse_cycle = 2 /\ ~Overflow(mouse_byte[0])
          /\ LET at == mouse_check_bounds(info.x + Signed(mouse_byte[1]), info.y - Signed(b))
             IN info' = [x |-> at.x, y |-> at.y, button |-> Button(mouse_byte[0], info.button)]
          /\ mouse_cycle' = 0

(* A round of the loop; a byte of the keyboard is read and dropped.  The   *)
(* mutant does not tell the two apart.                                     *)
AnyByte(p) == TRUE
FromMouse(p) == p.aux
mouse_handler ==
    /\ inMouse /\ port.full
    /\ IF FromMouse(port) THEN TakeMouseByte(port.byte)
       ELSE UNCHANGED <<mouse_byte, mouse_cycle, info>>
    /\ port' = Empty
    /\ UNCHANGED <<keyVars, mouse, irq12, inMouse, want, packets, astray, stolen>>

MouseHandlerEnds ==
    /\ inMouse /\ ~port.full
    /\ inMouse' = FALSE
    /\ UNCHANGED <<keyVars, mouse, irq12, mouse_cycle, mouse_byte, info, want, packets, astray, port, stolen>>

-----------------------------------------------------------------------------
(* The reader                                                              *)

keyboard_get_lastkey ==
    /\ ~inMouse /\ reader = NoKey /\ lastkey # NoKey
    /\ reader' = lastkey
    /\ UNCHANGED <<down, sent, kbd, irq1, lastkey, taken, mouseVars, port, stolen>>

(* The mutant leaves the key for the next reader.                          *)
LeftThere(key) == key
Invalidated(key) == NoKey
keyboard_invalidate_lastkey ==
    /\ ~inMouse /\ reader # NoKey
    /\ lastkey' = Invalidated(lastkey)
    /\ taken' = Append(taken, reader) /\ reader' = NoKey
    /\ UNCHANGED <<down, sent, kbd, irq1, mouseVars, port, stolen>>

-----------------------------------------------------------------------------
(* mouse_init: a read after a command does not wait for the answer (it     *)
(* waits for the controller's input buffer, not for its output buffer), so *)
(* that an answer, 0xFA, may still come when interrupts are on.            *)
AnswersLeft == {<<>>, <<250>>}
mouse_init ==
    /\ mouse \in AnswersLeft
    /\ astray = (mouse # <<>>)
    /\ info = [x |-> 0, y |-> 0, button |-> 0] /\ want = [x |-> 0, y |-> 0]
    /\ mouse_cycle = 0 /\ mouse_byte = [i \in 0 .. 2 |-> 0]

Init ==
    /\ down = {} /\ sent = <<>> /\ kbd = 0 /\ port = Empty /\ irq1 = FALSE /\ irq12 = FALSE
    /\ lastkey = NoKey /\ reader = NoKey /\ taken = <<>>
    /\ mouse_init /\ inMouse = FALSE /\ packets = 0 /\ stolen = FALSE

Next ==
    \/ \E key \in Keys : Press(key) \/ Repeat(key) \/ Release(key)
    \/ \E p \in Packets : MouseMoves(p)
    \/ KeyboardSends \/ MouseSends
    \/ keyboard_read_key \/ mouse_int \/ mouse_handler \/ MouseHandlerEnds
    \/ keyboard_get_lastkey \/ keyboard_invalidate_lastkey

Spec == Init /\ [][Next]_vars

-----------------------------------------------------------------------------
(* Properties                                                              *)

(* Keys may be lost on the way, but what the reader goes on with are the   *)
(* characters of the codes that the keyboard sent, in their order and each *)
(* once: of a key's two codes the one of its press, or of its release for  *)
(* the point and the slash, which therefore come after the keys pressed    *)
(* while they were held down, and do not repeat - as long as the           *)
(* keyboard's handler has not taken a byte of the mouse.                   *)
WhenReleased == {".", "/"}
KeysInOrder ==
    ~stolen =>
        /\ \A i \in 1 .. Len(taken) :
              /\ taken[i].id \in 1 .. kbd
              /\ sent[taken[i].id].key \in DOMAIN KEYCODE =>
                    /\ taken[i].char = sent[taken[i].id].key
                    /\ sent[taken[i].id].down <=> taken[i].char \notin WhenReleased
        /\ \A i \in 1 .. Len(taken) - 1 : taken[i].id < taken[i + 1].id

(* When the mouse has sent all of its packets and they have been handled,  *)
(* the pointer is where their movements lead, however keys and packets     *)
(* were mixed - unless a byte went to the keyboard's handler, a packet had *)
(* an overflow bit or a movement of 128 or more, or the answer to          *)
(* mouse_init came late.                                                   *)
PointerFollows ==
    (~stolen /\ ~astray /\ mouse = <<>> /\ (port.full => ~port.aux)) =>
        mouse_cycle = 0 /\ info.x = want.x /\ info.y = want.y
=============================================================================
