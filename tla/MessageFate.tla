----------------------------- MODULE MessageFate -----------------------------
(***************************************************************************)
(* What a user is promised about the messages typed into a session: each   *)
(* one waits in the queue bar for a while and then either becomes a bubble *)
(* in the conversation or leaves for good.  Nothing else: a message that   *)
(* left never comes back, a bubble never goes back to the bar, and a       *)
(* message does not stay in the bar for ever.                              *)
(***************************************************************************)
CONSTANT Uuids

VARIABLE fate

TypeOK == fate \in [Uuids -> {"unsent", "queued", "shown", "gone"}]

Init == fate = [u \in Uuids |-> "unsent"]

Enqueue(u) ==
  /\ fate[u] = "unsent"
  /\ fate' = [fate EXCEPT ![u] = "queued"]

Show(u) ==
  /\ fate[u] = "queued"
  /\ fate' = [fate EXCEPT ![u] = "shown"]

\* Several may leave at once: a stop or the end of the process drops them.
Leave(S) ==
  /\ \A u \in S : fate[u] \in {"unsent", "queued"}
  /\ fate' = [u \in Uuids |-> IF u \in S THEN "gone" ELSE fate[u]]

Next ==
  \/ \E u \in Uuids : Enqueue(u) \/ Show(u)
  \/ \E S \in SUBSET Uuids : Leave(S)

Resolved == \A u \in Uuids : fate[u] = "queued" ~> fate[u] # "queued"

Safety == Init /\ [][Next]_fate
Spec == Safety /\ Resolved
=============================================================================
