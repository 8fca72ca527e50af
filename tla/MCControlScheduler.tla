------------------------- MODULE MCControlScheduler -------------------------
(* ControlScheduler with two task slots: one cycle can be in progress while *)
(* the trigger of the next one is already there.                            *)
EXTENDS ControlScheduler
=============================================================================
