---------------------------- MODULE MCSocLimits -----------------------------
(* Instances of SocLimits for TLC: the scales are in the configurations. *)
EXTENDS SocLimits
=============================================================================
