------------------------------ MODULE MCStores ------------------------------
(* Instances of Stores for TLC.                                            *)
EXTENDS Stores
Symmetric == Permutations(Requests) \cup Permutations(Paths) \cup Permutations(Comments) \cup Permutations(Labels) \cup Permutations(Models)
=============================================================================
