----------------------- MODULE MCSystemOperationLock -----------------------
(* SystemOperationLock for TLC.                                            *)
EXTENDS SystemOperationLock

CONSTANTS w1, w2, o1, o2, o3

TwoWorkers == {w1, w2}
ThreeOperations == {o1, o2, o3}
=============================================================================
