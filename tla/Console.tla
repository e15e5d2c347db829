------------------------------- MODULE Console ------------------------------
(***************************************************************************)
(* The text screen (drivers/video/video.c) and those who write lines on    *)
(* it: the console (apps/console.c), its commands (apps/commands.c), and a *)
(* process that it has started and that prints, clears the screen and      *)
(* calls gets (keyboard.c).                                                *)
(*                                                                         *)
(* A step is a key taken from the keyboard and its echo, or a string that  *)
(* is printed; how keys get there is in Ps2.  A command is known by its    *)
(* first word, which is abstracted to a short one.                         *)
(***************************************************************************)
EXTENDS Integers, Sequences, SequencesExt

CONSTANTS
    W, H,       \* the screen: vram.width and vram.heigth
    Chars,      \* the printable characters that are typed
    Prompt,     \* what the console prints before a line
    Outputs,    \* strings that commands, files and processes print: any
    Start, Clear, Halt, \* the words of commands
    MaxLine,    \* bound: the bytes of the console's buffer, 64
    MaxBack     \* bound: how far the cursor goes back beyond the screen

Controls == {"BS", "NL", "CR"}

ASSUME ConsoleAssumption ==
    /\ W \in Nat \ {0} /\ H \in Nat \ {0, 1}
    /\ Controls \cap Chars = {}
    /\ Prompt \in Seq(STRING) /\ \A i \in 1 .. Len(Prompt) : Prompt[i] \notin Controls
    /\ Outputs \subseteq Seq(STRING)
    /\ MaxLine \in Nat /\ Len(Prompt) + MaxLine < W * (H - 1) /\ MaxBack \in Nat

VARIABLES
    screen,     \* video memory, from 0
    x, y,
    mode,       \* console, command, process, gets, or halted
    line,       \* buffer[0 .. buffer_counter - 1], or the string of gets
    before,     \* what was printed before the line on the same screen
    overrun,    \* the line began, or went back, where nothing can be shown
    erased,     \* this step printed a backspace that is for no character of the line
    stray       \* this step wrote something outside video memory

vars == <<screen, x, y, mode, line, before, overrun, erased, stray>>

Cells == 0 .. W * H - 1
Blank == "SP"

-----------------------------------------------------------------------------
(* The screen, as a record that the routines of video.c map to a new one   *)

Here == [cells |-> screen, x |-> x, y |-> y, stray |-> FALSE]

scroll(s) ==
    [s EXCEPT !.cells = [i \in Cells |-> IF i + W \in Cells THEN s.cells[i + W] ELSE Blank]]

(* The mutant goes to the next line one character late.                    *)
FullLate(px) == px > W
Full(px) == px >= W
check(s) ==
    LET wrapped == IF Full(s.x) THEN [s EXCEPT !.x = 0, !.y = @ + 1] ELSE s
    IN IF wrapped.y >= H THEN scroll([wrapped EXCEPT !.y = @ - 1]) ELSE wrapped

Put(s, i, c) == IF i \in Cells THEN [s EXCEPT !.cells[i] = c] ELSE [s EXCEPT !.stray = TRUE]

PrintChar(s, c) ==
    CASE c = "BS" -> Put([s EXCEPT !.x = @ - 1], W * s.y + s.x - 1, Blank)
      [] c = "NL" -> check([s EXCEPT !.y = @ + 1, !.x = 0])
      [] c = "CR" -> [s EXCEPT !.x = 0]
      [] OTHER -> LET t == check(s) IN Put([t EXCEPT !.x = @ + 1], W * t.y + t.x, c)

printk_string(s, text) ==
    LET after[n \in 0 .. Len(text)] ==
            IF n = 0 THEN check(s) ELSE PrintChar(after[n - 1], text[n])
    IN after[Len(text)]

clear(s) == [s EXCEPT !.cells = [i \in Cells |-> Blank], !.x = 0, !.y = 0]

Draw(s) == screen' = s.cells /\ x' = s.x /\ y' = s.y /\ stray' = s.stray

Cursor(s) == W * s.y + s.x

-----------------------------------------------------------------------------
(* The console                                                             *)

Init ==
    LET s == printk_string(clear([cells |-> [i \in Cells |-> Blank], x |-> 0, y |-> 0,
                                  stray |-> FALSE]), Prompt)
    IN /\ screen = s.cells /\ x = s.x /\ y = s.y /\ stray = s.stray
       /\ mode = "console" /\ line = <<>> /\ before = Prompt /\ overrun = FALSE /\ erased = FALSE

(* console_run: a printable character is kept and echoed.                  *)
Type(c) ==
    /\ mode \in {"console", "gets"} /\ Len(line) + 1 < MaxLine
    /\ line' = Append(line, c)
    /\ Draw(printk_string(Here, <<c>>)) /\ erased' = FALSE
    /\ UNCHANGED <<mode, before, overrun>>

(* Backspace: the console does nothing at the start of the line.  The      *)
(* mutant echoes it in any case, as gets does.                             *)
MayGoBackAlways == TRUE
MayGoBack == line # <<>>
Backspace ==
    /\ mode = "console" /\ MayGoBack
    /\ line' = IF line = <<>> THEN <<>> ELSE Front(line)
    /\ Draw(printk_string(Here, <<"BS">>)) /\ erased' = FALSE
    /\ UNCHANGED <<mode, before, overrun>>

(* The screen is s and m goes on, with nothing on its line yet.            *)
To(m, s) ==
    /\ Draw(s)
    /\ mode' = m /\ line' = <<>> /\ before' = <<>>
    /\ overrun' = (Cursor(s) < 0) /\ erased' = FALSE

(* The prompt after a command that has left the screen as s.               *)
Prompted(s) ==
    /\ Draw(printk_string(s, Prompt))
    /\ mode' = "console" /\ line' = <<>> /\ before' = Prompt
    /\ overrun' = (Cursor(s) < 0) /\ erased' = FALSE

(* Enter: the line is a command.  start, when it finds the program, waits  *)
(* for the process to end; halt prints and never returns.                  *)
console_exec ==
    /\ mode = "console"
    /\ LET s == printk_string(Here, <<"NL">>)
       IN CASE IsPrefix(Start, line) -> To("process", s) \/ To("command", s)
            [] line = Clear -> Prompted(clear(s))
            [] line = Halt -> To("halted", s)
            [] OTHER -> To("command", s)

(* A string is printed, whatever is in it.  One that would go back further *)
(* than MaxBack before the screen is left out.                             *)
Printed(t) ==
    LET s == printk_string(Here, t)
    IN /\ Cursor(s) >= -MaxBack
       /\ Draw(s) /\ overrun' = (Cursor(s) < 0) /\ erased' = ("BS" \in Range(t))
       /\ UNCHANGED <<mode, line, before>>

(* A command prints any number of strings: messages, lists of files, the   *)
(* bytes of a file one by one (print_file, which waits for a key after     *)
(* each sector); then there is a prompt again.                             *)
CommandPrints(t) == mode \in {"command", "halted"} /\ Printed(t)
CommandEnds == mode = "command" /\ Prompted(Here)

-----------------------------------------------------------------------------
(* The process                                                             *)

ProcPrints(t) == mode = "process" /\ Printed(t)
ProcClears == mode = "process" /\ To("process", clear(Here))
gets == mode = "process" /\ To("gets", Here)

(* gets echoes a backspace at the start of its line too: the cursor goes   *)
(* back over what was printed before it.                                   *)
GetsBackspace ==
    /\ mode = "gets" /\ Cursor(Here) > -MaxBack
    /\ line' = IF line = <<>> THEN <<>> ELSE Front(line)
    /\ erased' = (line = <<>>) /\ overrun' = (overrun \/ line = <<>>)
    /\ Draw(printk_string(Here, <<"BS">>))
    /\ UNCHANGED <<mode, before>>

GetsEnter ==
    /\ mode = "gets"
    /\ To("process", printk_string(Here, <<"NL">>))

(* console_start goes on when the process has stopped.                     *)
ProcEnds ==
    /\ mode = "process"
    /\ Prompted(printk_string(Here, <<"NL">>))

Next ==
    \/ \E c \in Chars : Type(c)
    \/ Backspace \/ console_exec \/ CommandEnds
    \/ \E t \in Outputs : CommandPrints(t) \/ ProcPrints(t)
    \/ ProcClears \/ gets \/ GetsBackspace \/ GetsEnter \/ ProcEnds

Spec == Init /\ [][Next]_vars

-----------------------------------------------------------------------------
(* Properties                                                              *)

(* The cells before the cursor show the line that Enter will execute, or   *)
(* gets return, and before it the prompt: over the edge of the screen,     *)
(* while it scrolls, and after backspaces that cross the edge again -      *)
(* unless gets has gone back beyond the start of its line, or the line     *)
(* began before the screen.                                                *)
LineShown ==
    (mode \in {"console", "gets"} /\ ~overrun) =>
        LET text == before \o line
            start == Cursor(Here) - Len(text)
        IN \A i \in 1 .. Len(text) :
              start + i - 1 \in Cells /\ screen[start + i - 1] = text[i]

(* Nothing is written outside video memory, whatever is typed and printed, *)
(* but by a backspace that is for no character of the line - one in a      *)
(* string that is printed, or one that gets echoes at the start of its     *)
(* line - and by what follows it on a line that begins before the screen   *)
(* or that gets has gone back beyond.                                      *)
StaysInVideoMemory == [][stray' => overrun \/ erased']_vars

-----------------------------------------------------------------------------
(* The inductive invariant.  The cursor may be before the start of its row *)
(* (x is negative after a backspace over the edge) and one place after its *)
(* end, and W * y + x is where the text on the screen ends.  Only overrun  *)
(* leaves the cursor before the screen.                                    *)
Glyphs == {Blank} \cup Chars \cup Range(Prompt) \cup UNION {Range(t) : t \in Outputs}
Screens == [cells : [Cells -> Glyphs], x : Int, y : Nat, stray : BOOLEAN]
Good(s) == s \in Screens /\ s.x <= W /\ s.y < H
Shows(s, text) ==
    /\ Cursor(s) >= Len(text)
    /\ \A i \in 1 .. Len(text) : s.cells[Cursor(s) - Len(text) + i - 1] = text[i]
ConsoleInv ==
    /\ Good(Here)
    /\ line \in Seq(Chars) /\ Len(line) <= MaxLine /\ before \in {Prompt, <<>>}
    /\ mode \in {"console", "command", "process", "gets", "halted"}
    /\ mode \notin {"console", "gets"} => line = <<>> /\ before = <<>>
    /\ overrun \in BOOLEAN /\ (~overrun => Shows(Here, before \o line))
=============================================================================
