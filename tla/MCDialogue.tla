------------------------------ MODULE MCDialogue ------------------------------
(***************************************************************************)
(* A small instance of Dialogue for TLC.                                   *)
(***************************************************************************)
EXTENDS Dialogue

\* Even, odd and tiny histories, and one that keeps every message.
SmallHistories == {1, 2, 3, 8}
=============================================================================
