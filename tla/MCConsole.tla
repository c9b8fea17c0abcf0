----------------------------- MODULE MCConsole ------------------------------
(***************************************************************************)
(* The console under small limits for TLC.                                 *)
(***************************************************************************)
EXTENDS Console
=============================================================================
