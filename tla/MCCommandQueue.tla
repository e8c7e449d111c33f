--------------------------- MODULE MCCommandQueue ---------------------------
(* Instances of CommandQueue for TLC: messages are interchangeable.        *)
EXTENDS CommandQueue, TLC

MessageSymmetry == Permutations(Uuids)
=============================================================================
