----------------------------- MODULE MCBspGraph -----------------------------
(* An instance of BspGraph for TLC.                                        *)
EXTENDS BspGraph

(* RunToCompletion, and RunSteps of one step.                              *)
Lengths == {-1, 1}

=============================================================================
