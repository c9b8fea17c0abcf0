---------------------------- MODULE MCLlmBridge -----------------------------
(***************************************************************************)
(* The kernel, the bridge and the serial line for TLC.                     *)
(***************************************************************************)
EXTENDS LlmBridge

\* No byte, one, more than the buffer holds, a character across its end, and a
\* reply that looks like a frame.
MCTexts ==
    {<<>>, <<"text">>, <<"text", "text", "text">>, <<"text", "part", "last">>, <<"STX", "ETX">>}
=============================================================================
