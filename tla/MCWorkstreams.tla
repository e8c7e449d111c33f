--------------------------- MODULE MCWorkstreams ---------------------------
(* Instances of Workstreams for TLC.                                       *)
EXTENDS Workstreams

CONSTANT MaxBudget \* bound on patches and events together

RequestSymmetry == Permutations(Requests)

\* Where a run begins: no workstream; a stack of three in one worktree; a
\* stack of two whose branches are in a worktree each, and the archive has
\* the lower one.
At(b) == [at |-> b, dirty |-> FALSE, rebase |-> NoRebase, onto |-> <<>>]
OneStack ==
  /\ heads = [b \in 0..N |-> <<>>] /\ track = [b \in Names |-> b - 1]
  /\ trees = (1 :> At(N)) /\ archived = {}
  /\ made = [patches |-> 0, events |-> 0, requests |-> 0, names |-> {1}]
TwoTrees ==
  /\ heads = [b \in 0..2 |-> <<>>] /\ track = [b \in Names |-> IF b <= 2 THEN b - 1 ELSE None]
  /\ trees = (1 :> At(1)) @@ (3 :> At(2)) /\ archived = {1}
  /\ made = [patches |-> 0, events |-> 0, requests |-> 0, names |-> {1, 3}]
MCInit ==
  \/ Init
  \/ /\ OneStack \/ TwoTrees
     /\ remotes = <<>> /\ origin = <<>>
     /\ reqs = [r \in Requests |-> Idle]
     /\ author = <<>> /\ mixed = {} /\ stale = {}
\* Not both bounds at once.
Budget == made.patches + made.events <= MaxBudget

MCSpec == MCInit /\ [][Next]_vars
=============================================================================
