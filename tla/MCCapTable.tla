----------------------------- MODULE MCCapTable -----------------------------
(***************************************************************************)
(* A small capability table for TLC.  Agents and resources are             *)
(* interchangeable: no operation tells two of them apart.                  *)
(***************************************************************************)
EXTENDS CapTable, TLC

MCSymmetry == Permutations(Agents) \cup Permutations(Resources)
=============================================================================
