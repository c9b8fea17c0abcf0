------------------------------ MODULE MCPrompt ------------------------------
(***************************************************************************)
(* What is on the two sides of a line at the prompt: the console, which    *)
(* collects it, and the shell, which executes it, under small limits for   *)
(* TLC.  A line is all that goes from one to the other, so a behaviour     *)
(* drives one of them, picked at the start.                                *)
(***************************************************************************)
EXTENDS MCConsole, MCShell

VARIABLE driven

promptVars == <<vars, shellVars, driven>>

PromptInit == driven \in {"console", "shell"} /\ Init /\ ShellInit

DriveConsole == driven = "console" /\ Next /\ UNCHANGED <<shellVars, driven>>
DriveShell == driven = "shell" /\ ShellNext /\ UNCHANGED <<vars, driven>>

PromptNext == DriveConsole \/ DriveShell

\* The fairness of Console, for the behaviours that drive it.
DriveLoop == driven = "console" /\ Loop /\ UNCHANGED <<shellVars, driven>>
DriveOtherIrq == driven = "console" /\ OtherIrq /\ UNCHANGED <<shellVars, driven>>

PromptSpec ==
    /\ PromptInit /\ [][PromptNext]_promptVars
    /\ WF_promptVars(DriveLoop) /\ WF_promptVars(DriveOtherIrq)
=============================================================================
