------------------------------- MODULE MCTrials -------------------------------
(***************************************************************************)
(* Small instances of Trials for TLC.                                      *)
(***************************************************************************)
EXTENDS Trials

CONSTANT admin

MCEvents == Properties \X {-1, 0, 1} \X Processes
MCType   == [e \in Events |-> "property.trial.expiring"]
MCTo     == [e \in Events |-> {admin}]
=============================================================================
