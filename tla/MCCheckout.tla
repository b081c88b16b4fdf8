----------------------------- MODULE MCCheckout ------------------------------
(***************************************************************************)
(* Small instances of Checkout for TLC.                                    *)
(***************************************************************************)
EXTENDS Checkout, TLC

Symmetry == Permutations(Polls) \cup Permutations(Rooms)
=============================================================================
