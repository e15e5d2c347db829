------------------------------ MODULE MCConsole -----------------------------
(***************************************************************************)
(* Console on a screen of three lines of four characters: a line wraps,    *)
(* scrolls, and is longer than what a backspace leaves of its last row.    *)
(* What is printed ends its line, goes back over it, or begins it anew.    *)
(***************************************************************************)
EXTENDS Console

MCPrompt == <<"$">>
MCOutputs == {<<"o", "NL">>, <<"BS", "BS">>, <<"o", "CR">>}
MCStart == <<"s">>
MCClear == <<"c">>
MCHalt == <<"c", "c">>
=============================================================================
