------------------------------ MODULE MCShell -------------------------------
(***************************************************************************)
(* The shell under small limits for TLC.                                   *)
(***************************************************************************)
EXTENDS Shell

MCTargets == {<<"x">>, <<"y">>, <<"ls">>, <<"!!">>, <<"y", "arg">>, <<Blanks, "y">>}
=============================================================================
