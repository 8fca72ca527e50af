---------------------------- MODULE MCDelivery ----------------------------
(* Delivery on small grace periods: every clock can expire before, with or *)
(* after every other one.                                                  *)
EXTENDS Delivery
=============================================================================
