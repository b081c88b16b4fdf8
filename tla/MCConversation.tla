--------------------------- MODULE MCConversation ----------------------------
(***************************************************************************)
(* Small instances of Conversation for TLC.                                *)
(***************************************************************************)
EXTENDS Conversation, TLC

Symmetry == Permutations(Workers) \cup Permutations(Messages)
=============================================================================
