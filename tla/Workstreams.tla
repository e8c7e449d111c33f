---------------------------- MODULE Workstreams ----------------------------
(***************************************************************************)
(* The workstreams of one repository: branches stacked on each other by    *)
(* their upstreams, worktrees that have them checked out, the sync that    *)
(* rebases a stack and the prune that removes archived worktrees.  The     *)
(* server runs one git command after another and holds no lock: requests   *)
(* overlap with each other and with what is done in the worktrees.         *)
(*                                                                         *)
(* A history is a sequence of patches, and a commit is a prefix of one: a  *)
(* rebased patch is a new commit with an old patch.                        *)
(***************************************************************************)
EXTENDS Naturals, Sequences, SequencesExt, FiniteSets

CONSTANTS
  N,           \* names of branches and worktrees, 1..N in the order of sort.Strings
  MaxPatches,  \* bound on the patches made
  MaxEvents,   \* bound on what happens in the worktrees and the remote
  MaxRequests, \* bound on the syncs and prunes of a run
  Requests     \* HTTP requests that run at once

Names == 1..N
Main == 0        \* the default branch
Pushed == N + 1  \* branch.<name>.remote is origin, after push -u
None == N + 2    \* no upstream
Detached == N + 3

ASSUME WorkstreamsAssumption ==
  /\ N \in Nat \ {0} /\ MaxPatches \in Nat /\ MaxEvents \in Nat /\ MaxRequests \in Nat

VARIABLES
  heads,     \* refs/heads: the history of every branch that exists
  track,     \* the upstream of a branch: a local branch, Pushed or None
  remotes,   \* refs/remotes/origin, but for main
  origin,    \* origin's main
  trees,     \* worktrees: the branch checked out, uncommitted changes, and the
             \* rebase that stopped there
  archived,  \* archived_workstreams.json
  reqs,      \* where each request is, its worktree and what is left to do
  author,    \* (history) the branch each patch was committed on
  mixed,     \* (history) worktrees whose sync overlapped with another, a
             \* checkout or a push
  stale,     \* (history) paths archived when there was no worktree
  made       \* (history) how many patches, events and requests there were,
             \* and the names of the workstreams created

refs == <<heads, track, remotes, origin>>
hist == <<author, mixed, stale>>
vars == <<refs, trees, archived, reqs, hist, made>>

NoRebase == [of |-> None, by |-> None]
Idle == [at |-> "idle", t |-> None, todo |-> <<>>, mass |-> FALSE, rest |-> {}, clean |-> TRUE]

Init ==
  /\ heads = [b \in {Main} |-> <<>>]
  /\ track = [b \in Names |-> None]
  /\ remotes = <<>> /\ origin = <<>>
  /\ trees = <<>> /\ archived = {}
  /\ reqs = [r \in Requests |-> Idle]
  /\ author = <<>> /\ mixed = {} /\ stale = {}
  /\ made = [patches |-> 0, events |-> 0, requests |-> 0, names |-> {}]

Exists(b) == b \in DOMAIN heads
Trees == DOMAIN trees
CleanTree(b) == [at |-> b, dirty |-> FALSE, rebase |-> NoRebase, onto |-> <<>>]
Without(f, x) == [y \in DOMAIN f \ {x} |-> f[y]]
With(f, x, e) == [y \in DOMAIN f \cup {x} |-> IF y = x THEN e ELSE f[y]]

\* rev-list --left-right --count x...y, its right side: the commits of y that
\* are not in x; and git's "y is merged into x".
Ahead(x, y) == Len(y) - Len(LongestCommonPrefix({x, y}))
Merged(y, x) == IsPrefix(y, x)

\* git rebase: the commits that are not upstream are replayed on top of it,
\* without those upstream has a copy of.
Rebased(h, onto) ==
  LET fork == Len(LongestCommonPrefix({h, onto}))
      replayed[i \in fork .. Len(h)] ==
        IF i = fork THEN onto
        ELSE LET before == replayed[i - 1]
             IN  IF h[i] \in ToSet(SubSeq(onto, fork + 1, Len(onto))) THEN before
                 ELSE Append(before, h[i])
  IN  replayed[Len(h)]

\* git refuses to check out, or to delete, a branch that a worktree uses; the
\* main worktree, Main, has the default branch checked out.
UsedIn(b) ==
  {t \in Trees : trees[t].at = b \/ trees[t].rebase.of = b} \cup {t \in {Main} : b = Main}

----------------------------------------------------------------------------
(* Stacks                                                                  *)

\* localUpstreamMap: branches whose remote is "."
Up(b) == IF b \in Names /\ track[b] \in Names \cup {Main} THEN track[b] ELSE None

\* The branches stacked on b, in order.
Kids(b) ==
  LET kids[n \in 0 .. N] ==
        IF n = 0 THEN <<>> ELSE IF Up(n) = b THEN Append(kids[n - 1], n) ELSE kids[n - 1]
  IN  kids[N]

\* branchStack walks up to the root of the stack, with a guard for cycles.
Climb(b) ==
  LET path[n \in 0 .. N] ==
        IF n = 0 THEN <<b>>
        ELSE LET before == path[n - 1]
                 up == Up(Last(before))
             IN  IF up \in {None, Main} \cup ToSet(before) THEN before ELSE Append(before, up)
  IN  path[N]
RootOf(b) == Last(Climb(b))

\* ... and lists the branches from there, depth first, kids in order.  A
\* deleted branch that others track is listed too.
Visit(walk) ==
  LET e == Head(walk.todo)
      kids == Kids(e.name)
  IN  IF e.name \in {d.name : d \in ToSet(walk.done)} THEN [walk EXCEPT !.todo = Tail(@)]
      ELSE [todo |-> [i \in DOMAIN kids |-> [name |-> kids[i], depth |-> e.depth + 1]]
                       \o Tail(walk.todo),
            done |-> Append(walk.done, e)]
Walk(root) ==
  LET walk[n \in 0 .. N + 1] ==
        IF n = 0 THEN [todo |-> <<[name |-> root, depth |-> 0]>>, done |-> <<>>]
        ELSE LET before == walk[n - 1]
             IN  IF before.todo = <<>> THEN before ELSE Visit(before)
  IN  walk[N + 1].done

Stack(t) == IF trees[t].at = Detached THEN <<>> ELSE Walk(RootOf(trees[t].at))

\* What the panel compares a branch with, and what it says.
Base(e) ==
  IF e.depth > 0 /\ Up(e.name) # None /\ Exists(Up(e.name)) THEN heads[Up(e.name)] ELSE heads[Main]
AheadMain(e) == IF Exists(e.name) THEN Ahead(Base(e), heads[e.name]) ELSE 0
BehindMain(e) == IF Exists(e.name) THEN Ahead(heads[e.name], Base(e)) ELSE 0
RemoteGone(b) == track[b] = Pushed /\ b \notin DOMAIN remotes

AllWorkstreams == [t \in Trees |-> [branches |-> Stack(t), archived |-> t \in archived]]

\* The names a sync works on, with what it rebases each onto: the merge of
\* the branch's configuration, whatever its remote is.
OntoOf(b) == CASE track[b] = Pushed -> b [] track[b] = None -> Main [] OTHER -> track[b]
PlanLeafFirst(t) ==
  LET back == Reverse(Stack(t))
  IN  [i \in DOMAIN back |-> [name |-> back[i].name, onto |-> OntoOf(back[i].name)]]
Plan(t) == [i \in DOMAIN Stack(t) |-> [name |-> Stack(t)[i].name, onto |-> OntoOf(Stack(t)[i].name)]]

\* A branch is pruned if nothing in it is ahead, or its remote branch is gone.
Safe(e) == RemoteGone(e.name) \/ AheadMain(e) = 0
SafeNames(t) == LET safe == SelectSeq(Stack(t), Safe) IN [i \in DOMAIN safe |-> safe[i].name]

----------------------------------------------------------------------------
(* History                                                                 *)

\* Something changed that running syncs may depend on; Disturb: those other
\* than r's, which becomes rq.
InSync(q) == reqs[q].at \in {"checkout", "rebase", "abort", "done"}
Disturbed == [q \in Requests |-> [reqs[q] EXCEPT !.clean = @ /\ ~InSync(q)]]
Disturb(r, rq) == [Disturbed EXCEPT ![r] = rq]

Syncing(r, t) == reqs[r].t = t /\ reqs[r].at \in {"checkout", "rebase", "abort"}
Event == made.events < MaxEvents /\ made' = [made EXCEPT !.events = @ + 1]
NewRequest == made.requests < MaxRequests /\ made' = [made EXCEPT !.requests = @ + 1]
NewPatch == made.patches + 1

----------------------------------------------------------------------------
(* What is done in a worktree, by claude or by the user, and at the remote *)

\* An edit, and a commit of what is there.
Edit(t) ==
  /\ Event /\ trees[t].at # Detached /\ ~trees[t].dirty
  /\ trees' = [trees EXCEPT ![t].dirty = TRUE]
  /\ reqs' = Disturbed
  /\ UNCHANGED <<refs, archived, hist>>

Commit(t) ==
  /\ made.patches < MaxPatches /\ trees[t].at # Detached
  /\ heads' = [heads EXCEPT ![trees[t].at] = Append(@, NewPatch)]
  /\ author' = Append(author, trees[t].at)
  /\ made' = [made EXCEPT !.patches = NewPatch]
  /\ trees' = [trees EXCEPT ![t].dirty = FALSE]
  /\ reqs' = Disturbed
  /\ UNCHANGED <<track, remotes, origin, archived, mixed, stale>>

\* git checkout -b b --track
StackBranch(t, b) ==
  /\ Event /\ trees[t].at # Detached /\ ~Exists(b)
  /\ heads' = With(heads, b, heads[trees[t].at])
  /\ track' = [track EXCEPT ![b] = trees[t].at]
  /\ trees' = [trees EXCEPT ![t].at = b]
  /\ mixed' = IF \E r \in Requests : Syncing(r, t) THEN mixed \cup {t} ELSE mixed
  /\ reqs' = Disturbed
  /\ UNCHANGED <<remotes, origin, archived, author, stale>>

\* git checkout b, which refuses a branch used in another worktree.
Switch(t, b) ==
  /\ Event /\ trees[t].at \notin {Detached, b} /\ UsedIn(b) = {}
  /\ trees' = [trees EXCEPT ![t].at = b]
  /\ mixed' = IF \E r \in Requests : Syncing(r, t) THEN mixed \cup {t} ELSE mixed
  /\ reqs' = Disturbed
  /\ UNCHANGED <<refs, archived, author, stale>>

\* git push -u origin, with force after a rebase.
Push(b) ==
  /\ Event /\ (b \in DOMAIN remotes => ToSet(remotes[b]) \subseteq ToSet(heads[b]))
  /\ remotes' = With(remotes, b, heads[b])
  /\ track' = [track EXCEPT ![b] = Pushed]
  /\ mixed' = mixed \cup {t \in Trees : \E r \in Requests : Syncing(r, t)}
  /\ reqs' = Disturbed
  /\ UNCHANGED <<heads, origin, trees, archived, author, stale>>

\* A pull request is merged by rebase, or somebody else's is; the remote
\* branch is deleted, merged or not, while the branch is still here.
MergeRemote(b) ==
  /\ Event
  /\ origin' = Rebased(remotes[b], origin)
  /\ UNCHANGED <<heads, track, remotes, trees, archived, reqs, hist>>
MergeOther ==
  /\ made.events < MaxEvents /\ made.patches < MaxPatches
  /\ origin' = Append(origin, NewPatch)
  /\ author' = Append(author, Main)
  /\ made' = [made EXCEPT !.events = @ + 1, !.patches = NewPatch]
  /\ UNCHANGED <<heads, track, remotes, trees, archived, reqs, mixed, stale>>
DeleteRemote(b) ==
  /\ Event /\ ToSet(remotes[b]) \subseteq ToSet(origin) \cup UNION {ToSet(heads[x]) : x \in DOMAIN heads}
  /\ remotes' = Without(remotes, b)
  /\ reqs' = Disturbed
  /\ UNCHANGED <<heads, track, origin, trees, archived, hist>>

\* A rebase that stopped on a conflict is continued or aborted.
Continue(t) ==
  /\ trees[t].rebase # NoRebase
  /\ \E b \in {trees[t].rebase.of} :
       /\ heads' = [heads EXCEPT ![b] = Rebased(@, trees[t].onto)]
       /\ trees' = [trees EXCEPT ![t] = CleanTree(b)]
  /\ reqs' = Disturbed
  /\ UNCHANGED <<track, remotes, origin, archived, hist, made>>
Restored(t) == [trees EXCEPT ![t] = CleanTree(trees[t].rebase.of)]
GiveUp(t) ==
  /\ trees[t].rebase # NoRebase
  /\ trees' = Restored(t)
  /\ reqs' = Disturbed
  /\ UNCHANGED <<refs, archived, hist, made>>

----------------------------------------------------------------------------
(* handleNewWorkstream, handlePullMain, archive and unarchive              *)

CreateWorkstream(n) ==
  /\ made.events < MaxEvents /\ ~Exists(n) /\ n \notin Trees
  /\ heads' = With(heads, n, heads[Main])
  /\ track' = [track EXCEPT ![n] = Main]
  /\ trees' = With(trees, n, CleanTree(n))
  /\ made' = [made EXCEPT !.events = @ + 1, !.names = @ \cup {n}]
  /\ mixed' = IF \E r \in Requests : Syncing(r, n) THEN mixed \cup {n} ELSE mixed
  /\ reqs' = Disturbed
  /\ UNCHANGED <<remotes, origin, archived, author, stale>>

\* git pull --ff-only in the main worktree, where main has no commits of its own.
PullMain ==
  /\ heads[Main] # origin /\ Merged(heads[Main], origin)
  /\ heads' = [heads EXCEPT ![Main] = origin]
  /\ reqs' = Disturbed
  /\ UNCHANGED <<track, remotes, origin, trees, archived, hist, made>>

\* The button of a page that is out of date archives a path that is gone.
ArchiveWorkstream(t) ==
  /\ t \in made.names \ archived /\ Event
  /\ archived' = archived \cup {t}
  /\ stale' = IF t \in Trees THEN stale ELSE stale \cup {t}
  /\ UNCHANGED <<refs, trees, reqs, author, mixed>>

UnarchiveWorkstream(t) ==
  /\ t \in archived /\ Event
  /\ archived' = archived \ {t}
  /\ UNCHANGED <<refs, trees, reqs, hist>>

----------------------------------------------------------------------------
(* rebaseWorkstream, for one worktree and for handleMassSync               *)

Become(r, rq) == reqs' = [reqs EXCEPT ![r] = rq]

\* The sync of worktree t begins: the stack is read.  A detached HEAD, as a
\* stopped rebase leaves it, has none.
StartedAborting(r, t, mass, rest) ==
  [Idle EXCEPT !.at = IF Plan(t) = <<>> THEN (IF mass THEN "abort" ELSE "idle") ELSE "checkout",
               !.t = t, !.todo = Plan(t), !.mass = mass, !.rest = rest]
Started(r, t, mass, rest) ==
  [Idle EXCEPT !.at = IF Plan(t) = <<>> THEN (IF mass THEN "next" ELSE "idle") ELSE "checkout",
               !.t = t, !.todo = Plan(t), !.mass = mass, !.rest = rest]
Mix(r, t) == mixed' = IF \E q \in Requests \ {r} : Syncing(q, t) THEN mixed \cup {t} ELSE mixed

RebaseWorkstream(r, t) ==
  /\ reqs[r].at = "idle" /\ NewRequest /\ Plan(t) # <<>>
  /\ Become(r, Started(r, t, FALSE, {})) /\ Mix(r, t)
  /\ UNCHANGED <<refs, trees, archived, author, stale>>

\* Sync all: the worktrees with a branch behind, archived or not.
HasBehind(t) == \E e \in ToSet(AllWorkstreams[t].branches) : BehindMain(e) > 0
MassSync(r) ==
  /\ reqs[r].at = "idle" /\ NewRequest /\ \E t \in Trees : HasBehind(t)
  /\ Become(r, [Idle EXCEPT !.at = "next", !.mass = TRUE, !.rest = {t \in Trees : HasBehind(t)}])
  /\ UNCHANGED <<refs, trees, archived, hist>>
NextWorkstream(r) ==
  /\ reqs[r].at = "next"
  /\ IF reqs[r].rest = {} THEN Become(r, Idle) /\ UNCHANGED mixed
     ELSE \E t \in {CHOOSE x \in reqs[r].rest : \A y \in reqs[r].rest : x <= y} :
            IF t \in Trees THEN Become(r, Started(r, t, TRUE, reqs[r].rest \ {t})) /\ Mix(r, t)
            ELSE Become(r, [reqs[r] EXCEPT !.rest = @ \ {t}]) /\ UNCHANGED mixed
  /\ UNCHANGED <<refs, trees, archived, author, stale, made>>

\* The sync of one worktree is over, done or not.
Over(rq, ok) == [rq EXCEPT !.at = IF ok THEN "done" ELSE IF rq.mass THEN "next" ELSE "idle",
                           !.t = IF ok THEN @ ELSE None, !.todo = <<>>,
                           !.clean = IF ok THEN @ ELSE TRUE]

\* git checkout fails for a branch that is gone or used elsewhere and in the
\* middle of a rebase; it may fail where changes are in its way.
CanCheckout(t, b) ==
  /\ t \in Trees /\ Exists(b) /\ UsedIn(b) \subseteq {t} /\ trees[t].rebase = NoRebase
CheckoutNothing(r) ==
  /\ reqs[r].at = "checkout"
  /\ Become(r, [reqs[r] EXCEPT !.at = "rebase"])
  /\ UNCHANGED <<refs, trees, archived, hist, made>>
Checkout(r) ==
  /\ reqs[r].at = "checkout"
  /\ LET t == reqs[r].t  b == Head(reqs[r].todo).name
     IN  \/ /\ CanCheckout(t, b)
            /\ trees' = [trees EXCEPT ![t].at = b]
            /\ IF trees[t].at = b THEN Become(r, [reqs[r] EXCEPT !.at = "rebase"])
               ELSE reqs' = Disturb(r, [reqs[r] EXCEPT !.at = "rebase"])
         \/ /\ CanCheckout(t, b) => trees[t].dirty /\ trees[t].at # b
            /\ Become(r, Over(reqs[r], FALSE)) /\ UNCHANGED trees
  /\ UNCHANGED <<refs, archived, hist, made>>

\* git rebase takes whatever is checked out by now.  It refuses to start in
\* a worktree with changes or another rebase, and may stop on a conflict.
CanRebase(t, onto) ==
  /\ t \in Trees /\ Exists(onto) /\ ~trees[t].dirty /\ trees[t].rebase = NoRebase
Conflicts(h, onto) == Rebased(h, onto) # onto /\ ~Merged(onto, h)

RebaseDone(r, t, onto) ==
  LET b == trees[t].at
      rest == Tail(reqs[r].todo)
      rq == IF rest = <<>> THEN Over(reqs[r], TRUE) ELSE [reqs[r] EXCEPT !.at = "checkout", !.todo = rest]
  IN  /\ heads' = [heads EXCEPT ![b] = Rebased(@, heads[onto])]
      /\ IF heads' = heads THEN Become(r, rq) ELSE reqs' = Disturb(r, rq)
      /\ UNCHANGED trees
Stopped(r, t, onto) ==
  /\ trees' = [trees EXCEPT ![t] = [at |-> Detached, dirty |-> TRUE, onto |-> heads[onto],
                                    rebase |-> [of |-> trees[t].at, by |-> r]]]
  /\ reqs' = Disturb(r, IF reqs[r].mass THEN [reqs[r] EXCEPT !.at = "abort"] ELSE Over(reqs[r], FALSE))
  /\ UNCHANGED heads
Rebase(r) ==
  /\ reqs[r].at = "rebase"
  /\ LET t == reqs[r].t  onto == Head(reqs[r].todo).onto
     IN  \/ CanRebase(t, onto) /\ RebaseDone(r, t, onto)
         \/ CanRebase(t, onto) /\ Conflicts(heads[trees[t].at], heads[onto]) /\ Stopped(r, t, onto)
         \/ /\ ~CanRebase(t, onto)
            /\ Become(r, IF reqs[r].mass THEN [reqs[r] EXCEPT !.at = "abort"] ELSE Over(reqs[r], FALSE))
            /\ UNCHANGED <<heads, trees>>
  /\ UNCHANGED <<track, remotes, origin, archived, hist, made>>

\* git rebase --abort, whoever's rebase it is.
AbortRebase(r) ==
  /\ reqs[r].at = "abort"
  /\ LET t == reqs[r].t
     IN  IF t \in Trees /\ trees[t].rebase # NoRebase
         THEN trees' = Restored(t) /\ reqs' = Disturb(r, Over(reqs[r], FALSE))
         ELSE Become(r, Over(reqs[r], FALSE)) /\ UNCHANGED trees
  /\ UNCHANGED <<refs, archived, hist, made>>

\* "done" is written.
SayDone(r) ==
  /\ reqs[r].at = "done"
  /\ Become(r, IF reqs[r].mass THEN [reqs[r] EXCEPT !.at = "next", !.t = None] ELSE Idle)
  /\ UNCHANGED <<refs, trees, archived, hist, made>>

----------------------------------------------------------------------------
(* Prune                                                                   *)

\* The plan is shown; it may be confirmed at any time, with the paths it
\* had, or cancelled.
ShowPlan(r) ==
  /\ reqs[r].at = "idle" /\ NewRequest /\ \E t \in Trees : AllWorkstreams[t].archived
  /\ Become(r, [Idle EXCEPT !.at = "planned", !.rest = {t \in Trees : AllWorkstreams[t].archived}])
  /\ UNCHANGED <<refs, trees, archived, hist>>
Cancel(r) ==
  /\ reqs[r].at = "planned" /\ Become(r, Idle)
  /\ UNCHANGED <<refs, trees, archived, hist, made>>

\* ExecutePrune: the stack of the next path is read again, ...
PruneStack(r) ==
  /\ reqs[r].at \in {"planned", "prune"}
  /\ IF reqs[r].rest = {} THEN Become(r, Idle)
     ELSE \E t \in reqs[r].rest :
            Become(r, [reqs[r] EXCEPT !.at = "remove", !.t = t, !.rest = @ \ {t},
                                      !.todo = IF t \in Trees THEN SafeNames(t) ELSE <<>>])
  /\ UNCHANGED <<refs, trees, archived, hist, made>>

\* ... the worktree is removed, unless it has changes, ...
RemoveWorktree(r) ==
  /\ reqs[r].at = "remove"
  /\ LET t == reqs[r].t
     IN  IF t \in Trees /\ ~trees[t].dirty
         THEN trees' = Without(trees, t) /\ reqs' = Disturb(r, [reqs[r] EXCEPT !.at = "delete"])
         ELSE Become(r, [reqs[r] EXCEPT !.at = "prune"]) /\ UNCHANGED trees
  /\ UNCHANGED <<refs, archived, hist, made>>

\* ... and its safe branches are deleted with git branch -d, which refuses a
\* branch that is used, or not merged into its upstream or, without one, into
\* what the main worktree has checked out.
Reference(b) ==
  CASE Up(b) # None /\ Exists(Up(b)) -> heads[Up(b)]
    [] track[b] = Pushed /\ b \in DOMAIN remotes -> remotes[b]
    [] OTHER -> heads[Main]
DeletesForced(b) == Exists(b) /\ UsedIn(b) = {}
Deletes(b) == Exists(b) /\ UsedIn(b) = {} /\ Merged(heads[b], Reference(b))
DeleteBranch(r) ==
  /\ reqs[r].at = "delete" /\ reqs[r].todo # <<>>
  /\ LET b == Head(reqs[r].todo)
         rq == [reqs[r] EXCEPT !.todo = Tail(@)]
     IN  IF Deletes(b)
         THEN heads' = Without(heads, b) /\ track' = [track EXCEPT ![b] = None] /\ reqs' = Disturb(r, rq)
         ELSE Become(r, rq) /\ UNCHANGED <<heads, track>>
  /\ UNCHANGED <<remotes, origin, trees, archived, hist, made>>

\* The entry of the archive goes last.
ForgetArchived(r) ==
  /\ reqs[r].at = "delete" /\ reqs[r].todo = <<>>
  /\ archived' = archived \ {reqs[r].t}
  /\ Become(r, [reqs[r] EXCEPT !.at = "prune", !.t = None])
  /\ UNCHANGED <<refs, trees, hist, made>>

----------------------------------------------------------------------------
Outside ==
  \/ \E t \in Trees : Edit(t) \/ Commit(t) \/ Continue(t) \/ GiveUp(t)
  \/ \E t \in Trees, b \in Names : StackBranch(t, b)
  \/ \E b \in DOMAIN heads \ {Main} : Push(b) \/ \E t \in Trees : Switch(t, b)
  \/ \E b \in DOMAIN remotes : MergeRemote(b) \/ DeleteRemote(b)
  \/ MergeOther
Sync(r) ==
  \/ \E t \in Trees : RebaseWorkstream(r, t)
  \/ MassSync(r) \/ NextWorkstream(r) \/ Checkout(r) \/ Rebase(r) \/ AbortRebase(r) \/ SayDone(r)
Prune(r) ==
  ShowPlan(r) \/ Cancel(r) \/ PruneStack(r) \/ RemoveWorktree(r) \/ DeleteBranch(r) \/ ForgetArchived(r)
Next ==
  \/ Outside \/ PullMain
  \/ \E n \in Names : CreateWorkstream(n) \/ ArchiveWorkstream(n) \/ UnarchiveWorkstream(n)
  \/ \E r \in Requests : Sync(r) \/ Prune(r)

Spec == Init /\ [][Next]_vars

----------------------------------------------------------------------------
(* Properties                                                              *)

TypeOK ==
  /\ Main \in DOMAIN heads /\ DOMAIN heads \subseteq Names \cup {Main}
  /\ track \in [Names -> Names \cup {Main, Pushed, None}]
  /\ \A t \in Trees : trees[t].at = Detached \/ Exists(trees[t].at)
  /\ \A s, t \in Trees : trees[s].at = trees[t].at /\ trees[s].at # Detached => s = t
  /\ archived \subseteq Names

\* Whatever is pruned, rebased or aborted, and however requests overlap with
\* each other and with the work in the worktrees, a patch that was committed
\* is on a branch that is still there.
Patches(b) == ToSet(heads[b])
NoPatchLost ==
  1..made.patches \subseteq
    ToSet(origin) \cup (UNION {Patches(b) : b \in DOMAIN heads}) \cup (UNION {ToSet(remotes[b]) : b \in DOMAIN remotes})

\* A sync that nothing interfered with and that says done leaves no branch of
\* its worktree behind: the panel offers no rebase.  Two kinds of branch stay
\* behind: one pushed with -u, whose upstream is taken for the local branch
\* of its own name, and a cycle of branches that track each other.
Cyclic(b) == Up(RootOf(b)) \in Names
DoneIsUpToDate ==
  \A r \in Requests : reqs[r].at = "done" /\ reqs[r].clean =>
    \A e \in ToSet(Stack(reqs[r].t)) : BehindMain(e) = 0 \/ track[e.name] = Pushed \/ Cyclic(e.name)

\* Rebasing a stack never moves the patches of a branch into one it is
\* stacked on, as long as nothing else makes, checks out or pushes a branch
\* meanwhile: a second sync's checkout may come between the first's checkout
\* and its rebase.
Above(b) == ToSet(Tail(Climb(b)))
StacksKeepApart ==
  [][(\E r \in Requests : reqs[r].at = "rebase" /\ reqs'[r].at # "rebase") =>
     \A b \in (DOMAIN heads \cap DOMAIN heads') \ {Main} : \A p \in Patches(b)' \ Patches(b) :
       \/ p \notin 1..made.patches \/ p \in Patches(Main)
       \/ b \notin Above(author[p]) \/ Cyclic(b)
       \/ mixed # {}]_vars

\* A rebase that stopped is left to the user: Sync all, which aborts its own,
\* does not abort that of another sync unless they overlapped.
ConflictIsUsers ==
  [][\A r \in Requests : reqs[r].at = "abort" /\ reqs'[r].at # "abort" =>
       \A t \in Trees \cap {reqs[r].t} :
         trees[t].rebase.by \notin {None, r} => trees' = trees \/ t \in mixed]_vars

\* A path in the archive is a worktree, or about to be removed from it: a
\* workstream created under a name that was pruned is not hidden.  A page out
\* of date may archive a path that is gone.
ArchivedExist ==
  archived \subseteq Trees \cup stale \cup {reqs[r].t : r \in {q \in Requests : reqs[q].at = "delete"}}

\* No work is lost, and none is hidden.
WorkIsKept == TypeOK /\ NoPatchLost /\ ArchivedExist
=============================================================================
