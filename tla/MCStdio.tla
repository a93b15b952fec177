------------------------------- MODULE MCStdio -------------------------------
(***************************************************************************)
(* TLC instances of Stdio: the texts, and which characters end a line.     *)
(***************************************************************************)
EXTENDS Stdio

EndsLine(b) == b.char = "n"

\* A text without a newline in two pieces, and one with a newline inside a
\* piece, up to which it is as long as the buffer.
MCTexts == { << <<"a">>, <<"b">> >>, << <<"a", "n", "b">>, <<"n">> >> }
=============================================================================
