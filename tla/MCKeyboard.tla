----------------------------- MODULE MCKeyboard -----------------------------
(* A keyboard with two letters; shift gives the other one.  The screen has   *)
(* two rows of two columns, so that a line fills a row, goes on in the next  *)
(* one and scrolls.  The prompt is one character; a command prints nothing,  *)
(* or clears the screen.                                                     *)
EXTENDS Keyboard

MCUpper == [c |-> "v", v |-> "c"]
MCPrompt == <<Other>>
MCOutputs == {<<>>}
==============================================================================
