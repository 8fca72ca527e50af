------------------------- MODULE MCOperationBlocks --------------------------
(* Instances of OperationBlocks for TLC: who may block what.                *)
EXTENDS OperationBlocks

CONSTANTS a, b

NoPairs == {}
OnePair == {<<a, "charge">>}
OwnPairs == {<<a, "charge">>, <<a, "discharge">>}
AllPairs == Batteries \X Directions
=============================================================================
