---------------------------- MODULE MCCapRevoke -----------------------------
(***************************************************************************)
(* The recursive cascade on a small table for TLC.  No operation tells one *)
(* agent from another, so the owner of slot 0 may be fixed: TLC's own      *)
(* symmetry reduction is not sound for the liveness property.              *)
(***************************************************************************)
EXTENDS CapRevoke

CONSTANT FirstOwner

FirstSlotIsFirstOwners == 0 \in Used => entries[0].owner = FirstOwner
=============================================================================
