--------------------------- MODULE MCIrqDelivery ----------------------------
(* Model checking of IrqDelivery: the tasks are interchangeable.           *)
EXTENDS IrqDelivery, TLC

TaskSymmetry == Permutations(Tasks)
=============================================================================
