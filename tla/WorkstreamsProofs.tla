------------------------- MODULE WorkstreamsProofs -------------------------
(***************************************************************************)
(* No work is lost, no conflict is taken from the user and a sync that     *)
(* says done has done what it should, for any number of branches,          *)
(* worktrees, patches and overlapping requests.                            *)
(***************************************************************************)
EXTENDS Workstreams, FiniteSetTheorems, SequenceTheorems, WellFoundedInduction, TLAPS

-----------------------------------------------------------------------------
(* Induction on a set of numbers, and what is in a sequence.               *)

Less == {p \in Nat \X Nat : p[1] < p[2]}

LEMMA LessIsWellFounded == IsWellFoundedOn(Less, Nat)
<1>1. OpToRel(<, Nat) = Less
  BY DEF OpToRel, Less
<1> QED
  BY <1>1, NatLessThanWellFounded

LEMMA LeastOf ==
  ASSUME NEW S, S \subseteq Nat, S # {}
  PROVE  \E n \in S : \A i \in S : n <= i
<1>1. PICK n \in S : \A i \in S : ~ (<<i, n>> \in Less)
  BY LessIsWellFounded, WFMin
<1>2. \A i \in S : i \in Nat /\ n \in Nat /\ (i < n => <<i, n>> \in Less)
  BY DEF Less
<1>3. \A i \in S : ~ (i < n)
  BY <1>1, <1>2
<1> QED
  BY <1>2, <1>3

\* A set of numbers that has m, and i + 1 with i, has all from m on.
LEMMA Induction ==
  ASSUME NEW m \in Nat, NEW S, m \in S, \A i \in Nat : i >= m /\ i \in S => i + 1 \in S
  PROVE  \A i \in Nat : i >= m => i \in S
<1> DEFINE Missing == {i \in Nat : i >= m /\ i \notin S}
<1> SUFFICES ASSUME Missing # {}
             PROVE  FALSE
  OBVIOUS
<1>1. PICK n \in Missing : \A i \in Missing : n <= i
  BY LeastOf
<1>2. n # m /\ n \in Nat /\ n > m
  BY <1>1
<1>3. n - 1 \in Nat /\ n - 1 >= m /\ n - 1 \notin Missing
  BY <1>1, <1>2
<1>4. n - 1 \in S
  BY <1>3
<1> QED
  BY <1>1, <1>2, <1>3, <1>4

LEMMA Appended ==
  ASSUME NEW S, NEW s \in Seq(S), NEW e \in S
  PROVE  Append(s, e) \in Seq(S) /\ ToSet(Append(s, e)) = ToSet(s) \cup {e}
<1>1. Append(s, e) \in Seq(S) /\ Len(Append(s, e)) = Len(s) + 1 /\ Len(s) \in Nat
  OBVIOUS
<1>2. \A i \in 1 .. Len(s) + 1 : Append(s, e)[i] = IF i = Len(s) + 1 THEN e ELSE s[i]
  OBVIOUS
<1>3. DOMAIN s = 1 .. Len(s) /\ DOMAIN Append(s, e) = 1 .. Len(s) + 1
  BY <1>1
<1> QED
  BY <1>1, <1>2, <1>3 DEF ToSet

-----------------------------------------------------------------------------
(* Histories: the longest common prefix, and a rebase.                     *)

LEMMA CommonPrefix ==
  ASSUME NEW S, NEW s \in Seq(S), NEW t \in Seq(S)
  PROVE  /\ LongestCommonPrefix({s, t}) \in Seq(S)
         /\ Len(LongestCommonPrefix({s, t})) <= Len(s) /\ Len(LongestCommonPrefix({s, t})) <= Len(t)
         /\ \A i \in 1 .. Len(LongestCommonPrefix({s, t})) : s[i] = t[i]
         /\ \A c \in CommonPrefixes({s, t}) : Len(c) <= Len(LongestCommonPrefix({s, t}))
<1> DEFINE P == CommonPrefixes({s, t})
<1>1. \A c \in P : /\ c \in Seq(S) /\ Len(c) <= Len(s) /\ Len(c) <= Len(t)
                   /\ \A i \in 1 .. Len(c) : s[i] = t[i]
  <2> TAKE c \in P
  <2>1. PICK q \in {s, t} : \E l \in 0 .. Len(q) : c = SubSeq(q, 1, l)
    BY DEF CommonPrefixes, Prefixes
  <2>2. PICK l \in 0 .. Len(q) : c = SubSeq(q, 1, l)
    BY <2>1
  <2>3. c \in Seq(S) /\ Len(c) \in Nat
    BY <2>2
  <2>4. IsPrefix(c, s) /\ IsPrefix(c, t)
    BY DEF CommonPrefixes
  <2>5. Len(c) <= Len(s) /\ Len(c) <= Len(t) /\ SubSeq(s, 1, Len(c)) = SubSeq(t, 1, Len(c))
    BY <2>4 DEF IsPrefix
  <2>6. ASSUME NEW i \in 1 .. Len(c)
        PROVE  s[i] = t[i]
    <3>1. SubSeq(s, 1, Len(c))[i] = s[i] /\ SubSeq(t, 1, Len(c))[i] = t[i]
      BY <2>3, <2>5
    <3> QED
      BY <2>5, <3>1
  <2> QED
    BY <2>3, <2>5, <2>6
<1>2. <<>> \in P
  <2>1. <<>> = SubSeq(s, 1, 0) /\ 0 \in 0 .. Len(s)
    OBVIOUS
  <2>2. <<>> \in Prefixes(s)
    BY <2>1 DEF Prefixes
  <2>3. IsPrefix(<<>>, s) /\ IsPrefix(<<>>, t)
    BY DEF IsPrefix
  <2> QED
    BY <2>2, <2>3 DEF CommonPrefixes
<1> HIDE DEF P
<1>3. \E longest \in P : \A other \in P : Len(other) <= Len(longest)
  <2> DEFINE Short == {Len(s) - Len(c) : c \in P}
  <2>1. Short \subseteq Nat /\ Short # {}
    BY <1>1, <1>2
  <2>2. PICK n \in Short : \A i \in Short : n <= i
    BY <2>1, LeastOf
  <2>3. PICK longest \in P : n = Len(s) - Len(longest)
    BY <2>2
  <2>4. \A other \in P : Len(s) - Len(longest) <= Len(s) - Len(other)
    BY <2>2, <2>3
  <2> QED
    BY <1>1, <2>3, <2>4
<1>4. LongestCommonPrefix({s, t}) \in P /\ \A c \in P : Len(c) <= Len(LongestCommonPrefix({s, t}))
  BY <1>3 DEF LongestCommonPrefix, P
<1>5. \A c \in CommonPrefixes({s, t}) : Len(c) <= Len(LongestCommonPrefix({s, t}))
  BY <1>4 DEF P
<1> QED
  BY <1>1, <1>4, <1>5

\* h begins with all of s.
Begins(s, h) == Len(s) <= Len(h) /\ \A i \in 1 .. Len(s) : h[i] = s[i]

LEMMA BeginsMore ==
  ASSUME NEW S, NEW s \in Seq(S), NEW h \in Seq(S), NEW e \in S, Begins(s, h)
  PROVE  Begins(s, Append(h, e))
<1>1. Len(s) \in Nat /\ Len(h) \in Nat /\ Len(s) <= Len(h)
  BY DEF Begins
<1>2. Len(Append(h, e)) = Len(h) + 1 /\ \A i \in 1 .. Len(h) : Append(h, e)[i] = h[i]
  BY AppendProperties
<1>3. \A i \in 1 .. Len(s) : h[i] = s[i] /\ i \in 1 .. Len(h)
  BY <1>1 DEF Begins
<1> QED
  BY <1>1, <1>2, <1>3 DEF Begins

\* Nothing is ahead of a history that begins with it.
LEMMA NothingAhead ==
  ASSUME NEW S, NEW h \in Seq(S), NEW s \in Seq(S), Begins(s, h)
  PROVE  Ahead(h, s) = 0
<1>1. Len(s) \in Nat /\ Len(h) \in Nat /\ Len(s) <= Len(h)
  BY DEF Begins
<1>2. SubSeq(s, 1, Len(s)) = s /\ SubSeq(h, 1, Len(s)) = s
  <2>1. /\ SubSeq(h, 1, Len(s)) \in Seq(S) /\ Len(SubSeq(h, 1, Len(s))) = Len(s)
        /\ \A i \in 1 .. Len(s) : SubSeq(h, 1, Len(s))[i] = s[i]
    BY <1>1 DEF Begins
  <2>2. SubSeq(h, 1, Len(s)) = s
    BY <1>1, <2>1
  <2> QED
    BY <2>2
<1>3. s \in CommonPrefixes({h, s})
  <2>1. IsPrefix(s, h) /\ IsPrefix(s, s)
    BY <1>1, <1>2 DEF IsPrefix
  <2>2. s \in Prefixes(s)
    <3>1. \E l \in 0 .. Len(s) : s = SubSeq(s, 1, l)
      <4>1. Len(s) \in 0 .. Len(s) /\ s = SubSeq(s, 1, Len(s))
        BY <1>1, <1>2
      <4> WITNESS Len(s) \in 0 .. Len(s)
      <4> QED
        BY <4>1
    <3> QED
      BY <3>1 DEF Prefixes
  <2> QED
    BY <2>1, <2>2 DEF CommonPrefixes
<1>4. /\ Len(LongestCommonPrefix({h, s})) <= Len(s) /\ Len(s) <= Len(LongestCommonPrefix({h, s}))
      /\ LongestCommonPrefix({h, s}) \in Seq(S)
  BY <1>3, CommonPrefix
<1>5. Len(LongestCommonPrefix({h, s})) \in Nat
  BY <1>4
<1>6. Len(LongestCommonPrefix({h, s})) = Len(s)
  BY <1>1, <1>4, <1>5
<1> QED
  BY <1>1, <1>6 DEF Ahead

\* The recursive function that Rebased chooses, and that there is one.
Copies(h, onto) ==
  ToSet(SubSeq(onto, Len(LongestCommonPrefix({h, onto})) + 1, Len(onto)))
Replay(h, onto, f, i) ==
  IF i = Len(LongestCommonPrefix({h, onto})) THEN onto
  ELSE IF h[i] \in Copies(h, onto) THEN f[i - 1] ELSE Append(f[i - 1], h[i])
IsReplay(h, onto, n, f) ==
  f = [i \in Len(LongestCommonPrefix({h, onto})) .. n |-> Replay(h, onto, f, i)]

LEMMA ReplayExists ==
  ASSUME NEW S, NEW h \in Seq(S), NEW onto \in Seq(S)
  PROVE  \E f : IsReplay(h, onto, Len(h), f)
<1> DEFINE fork == Len(LongestCommonPrefix({h, onto}))
           Good == {n \in Nat : \E f : IsReplay(h, onto, n, f)}
<1>1. fork \in Nat /\ Len(h) \in Nat /\ Len(h) >= fork
  BY CommonPrefix
<1>2. fork \in Good
  <2> DEFINE f == [i \in fork .. fork |-> onto]
  <2>1. IsReplay(h, onto, fork, f)
    BY <1>1 DEF IsReplay, Replay
  <2> QED
    BY <1>1, <2>1
<1>3. ASSUME NEW n \in Nat, n >= fork, n \in Good
      PROVE  n + 1 \in Good
  <2>1. PICK f : IsReplay(h, onto, n, f)
    BY <1>3
  <2> DEFINE g == [i \in fork .. n + 1 |-> IF i = n + 1 THEN Replay(h, onto, f, i) ELSE f[i]]
  <2>2. \A i \in fork .. n : g[i] = f[i] /\ f[i] = Replay(h, onto, f, i)
    <3> TAKE i \in fork .. n
    <3>1. i \in fork .. n + 1 /\ i # n + 1
      BY <1>1, <1>3
    <3>2. f[i] = Replay(h, onto, f, i)
      BY <2>1 DEF IsReplay
    <3> QED
      BY <3>1, <3>2
  <2>3. \A i \in fork .. n + 1 : Replay(h, onto, g, i) = Replay(h, onto, f, i)
    <3> TAKE i \in fork .. n + 1
    <3>1. CASE i = fork
      BY <3>1 DEF Replay
    <3>2. CASE i # fork
      <4>1. i - 1 \in fork .. n
        BY <1>1, <1>3, <3>2
      <4>2. g[i - 1] = f[i - 1]
        BY <2>2, <4>1
      <4> HIDE DEF g
      <4> QED
        BY <4>2 DEF Replay
    <3> QED
      BY <3>1, <3>2
  <2>4. \A i \in fork .. n + 1 : g[i] = Replay(h, onto, g, i)
    <3> TAKE i \in fork .. n + 1
    <3>1. CASE i = n + 1
      BY <1>1, <1>3, <2>3, <3>1
    <3>2. CASE i \in fork .. n
      BY <2>2, <2>3, <3>2
    <3> QED
      BY <1>1, <1>3, <3>1, <3>2
  <2>5. g = [i \in fork .. n + 1 |-> g[i]]
    OBVIOUS
  <2>6. IsReplay(h, onto, n + 1, g)
    <3> HIDE DEF g
    <3> QED
      BY <2>4, <2>5 DEF IsReplay
  <2> QED
    BY <1>3, <2>6
<1> HIDE DEF Good, fork
<1>4. Len(h) \in Good
  BY <1>1, <1>2, <1>3, Induction
<1> QED
  BY <1>4 DEF Good

\* Every patch of both histories is in the result, and the base is its beginning.
LEMMA RebaseKeeps ==
  ASSUME NEW S, NEW h \in Seq(S), NEW onto \in Seq(S)
  PROVE  /\ Rebased(h, onto) \in Seq(S)
         /\ ToSet(h) \subseteq ToSet(Rebased(h, onto))
         /\ ToSet(onto) \subseteq ToSet(Rebased(h, onto))
         /\ Begins(onto, Rebased(h, onto))
<1> DEFINE c == LongestCommonPrefix({h, onto})
           f == CHOOSE g : IsReplay(h, onto, Len(h), g)
           \* What the first i commits of h are replayed to has them.
           Good == {i \in Nat : i <= Len(h) =>
                      /\ f[i] \in Seq(S) /\ ToSet(onto) \subseteq ToSet(f[i]) /\ Begins(onto, f[i])
                      /\ \A j \in 1 .. i : h[j] \in ToSet(f[i])}
<1>1. Rebased(h, onto) = f[Len(h)]
  BY DEF Rebased, IsReplay, Replay, Copies
<1>2. IsReplay(h, onto, Len(h), f)
  BY ReplayExists
<1>3. /\ c \in Seq(S) /\ Len(c) \in Nat /\ Len(c) <= Len(h) /\ Len(c) <= Len(onto) /\ Len(h) \in Nat
      /\ \A j \in 1 .. Len(c) : h[j] = onto[j]
  <2>1. c \in Seq(S) /\ Len(c) <= Len(h) /\ Len(c) <= Len(onto)
    BY CommonPrefix
  <2>2. \A j \in 1 .. Len(c) : h[j] = onto[j]
    BY CommonPrefix
  <2> HIDE DEF c, f
  <2> QED
    BY <2>1, <2>2
<1>4. \A i \in Len(c) .. Len(h) : f[i] = Replay(h, onto, f, i)
  BY <1>2 DEF IsReplay
<1> HIDE DEF c, f
<1>5. Copies(h, onto) \subseteq ToSet(onto)
  <2>1. \A a, b : SubSeq(onto, a, b) = SubSeq(onto, a, b)
    OBVIOUS
  <2>2. \A i \in 1 .. Len(SubSeq(onto, Len(c) + 1, Len(onto))) :
          SubSeq(onto, Len(c) + 1, Len(onto))[i] = onto[Len(c) + i] /\ Len(c) + i \in 1 .. Len(onto)
    BY <1>3
  <2>3. DOMAIN SubSeq(onto, Len(c) + 1, Len(onto)) = 1 .. Len(SubSeq(onto, Len(c) + 1, Len(onto)))
    BY <1>3
  <2>4. DOMAIN onto = 1 .. Len(onto)
    OBVIOUS
  <2> QED
    BY <2>2, <2>3, <2>4 DEF Copies, ToSet, c
<1>6. Len(c) \in Good
  <2>1. f[Len(c)] = onto
    <3>1. Len(c) \in Len(c) .. Len(h)
      BY <1>3
    <3> QED
      BY <1>4, <3>1 DEF Replay, c
  <2>2. Begins(onto, onto) /\ \A j \in 1 .. Len(c) : h[j] \in ToSet(onto)
    BY <1>3 DEF ToSet, Begins
  <2> QED
    BY <1>3, <2>1, <2>2
<1>7. ASSUME NEW i \in Nat, i >= Len(c), i \in Good
      PROVE  i + 1 \in Good
  <2> SUFFICES ASSUME i + 1 <= Len(h)
               PROVE  /\ f[i + 1] \in Seq(S) /\ ToSet(onto) \subseteq ToSet(f[i + 1]) /\ Begins(onto, f[i + 1])
                      /\ \A j \in 1 .. i + 1 : h[j] \in ToSet(f[i + 1])
    OBVIOUS
  <2>1. /\ f[i] \in Seq(S) /\ ToSet(onto) \subseteq ToSet(f[i]) /\ \A j \in 1 .. i : h[j] \in ToSet(f[i])
        /\ Begins(onto, f[i])
    BY <1>3, <1>7
  <2>2. i + 1 \in Len(c) .. Len(h) /\ i + 1 # Len(c) /\ (i + 1) - 1 = i /\ h[i + 1] \in S
    BY <1>3, <1>7
  <2>3. f[i + 1] = Replay(h, onto, f, i + 1)
    BY <1>4, <2>2
  <2>4. f[i + 1] = IF h[i + 1] \in Copies(h, onto) THEN f[i] ELSE Append(f[i], h[i + 1])
    BY <2>2, <2>3 DEF Replay, c
  <2>5. /\ f[i + 1] \in Seq(S) /\ ToSet(f[i]) \subseteq ToSet(f[i + 1]) /\ h[i + 1] \in ToSet(f[i + 1])
        /\ Begins(onto, f[i + 1])
    <3>1. CASE h[i + 1] \in Copies(h, onto)
      BY <1>5, <2>1, <2>4, <3>1
    <3>2. CASE h[i + 1] \notin Copies(h, onto)
      <4>1. f[i + 1] = Append(f[i], h[i + 1])
        BY <2>4, <3>2
      <4>2. /\ f[i + 1] \in Seq(S) /\ ToSet(f[i + 1]) = ToSet(f[i]) \cup {h[i + 1]}
        BY <2>1, <2>2, <4>1, Appended
      <4>3. Begins(onto, f[i + 1])
        BY <2>1, <2>2, <4>1, BeginsMore
      <4> QED
        BY <4>2, <4>3
    <3> QED
      BY <3>1, <3>2
  <2>6. \A j \in 1 .. i + 1 : j = i + 1 \/ j \in 1 .. i
    OBVIOUS
  <2> QED
    BY <2>1, <2>5, <2>6
<1> HIDE DEF Good
<1>8. Len(h) \in Good
  BY <1>3, <1>6, <1>7, Induction
<1>9. /\ f[Len(h)] \in Seq(S) /\ ToSet(onto) \subseteq ToSet(f[Len(h)]) /\ \A j \in 1 .. Len(h) : h[j] \in ToSet(f[Len(h)])
      /\ Begins(onto, f[Len(h)])
  BY <1>3, <1>8 DEF Good
<1>10. \A p \in ToSet(h) : \E j \in 1 .. Len(h) : p = h[j]
  BY DEF ToSet
<1> QED
  BY <1>1, <1>9, <1>10

\* A history that is merged has its patches in the other.
LEMMA PrefixHas ==
  ASSUME NEW S, NEW s \in Seq(S), NEW t \in Seq(S), Merged(s, t)
  PROVE  ToSet(s) \subseteq ToSet(t)
<1>1. Len(s) \in Nat /\ Len(t) \in Nat /\ Len(s) <= Len(t) /\ SubSeq(s, 1, Len(s)) = SubSeq(t, 1, Len(s))
  BY DEF Merged, IsPrefix
<1>2. \A i \in 1 .. Len(s) : s[i] = t[i] /\ i \in 1 .. Len(t)
  <2> TAKE i \in 1 .. Len(s)
  <2>1. SubSeq(s, 1, Len(s))[i] = s[i] /\ SubSeq(t, 1, Len(s))[i] = t[i]
    BY <1>1
  <2> QED
    BY <1>1, <2>1
<1>3. DOMAIN s = 1 .. Len(s) /\ DOMAIN t = 1 .. Len(t)
  OBVIOUS
<1> QED
  BY <1>2, <1>3 DEF ToSet

-----------------------------------------------------------------------------
(* The invariant.                                                          *)

\* The branch a worktree uses: git lets no other worktree use it.
Held(t) == IF trees[t].rebase = NoRebase THEN trees[t].at ELSE trees[t].rebase.of

RefsRight ==
  /\ heads \in [DOMAIN heads -> Seq(Nat)] /\ Main \in DOMAIN heads
  /\ DOMAIN heads \subseteq Names \cup {Main}
  /\ remotes \in [DOMAIN remotes -> Seq(Nat)]
  /\ origin \in Seq(Nat)
  /\ track \in [Names -> Names \cup {Main, Pushed, None}]
  /\ \A b \in Names : track[b] # b
MadeRight == made \in [patches : Nat, events : Nat, requests : Nat, names : SUBSET Names]

\* Each worktree has a branch of its own, checked out or being rebased.
Worktree ==
  [at : Names \cup {Detached}, dirty : BOOLEAN, onto : Seq(Nat),
   rebase : [of : Names \cup {None}, by : Requests \cup {None}]]
TreesRight ==
  /\ trees \in [Trees -> Worktree] /\ Trees \subseteq Names
  /\ \A t \in Trees : /\ Held(t) \in DOMAIN heads \ {Main}
                      /\ trees[t].at = Detached <=> trees[t].rebase # NoRebase
  /\ \A s, t \in Trees : Held(s) = Held(t) => s = t

Request(q) ==
  /\ DOMAIN q = {"at", "t", "todo", "mass", "rest", "clean"}
  /\ q.t \in Names \cup {None}
  /\ q.rest \subseteq Names
RequestsRight == DOMAIN reqs = Requests /\ \A r \in Requests : Request(reqs[r])

\* Where a patch is.
Kept(p) ==
  \/ p \in ToSet(origin)
  \/ \E b \in DOMAIN heads : p \in ToSet(heads[b])
  \/ \E b \in DOMAIN remotes : p \in ToSet(remotes[b])
AllKept == \A p \in 1 .. made.patches : Kept(p)

ArchiveRight == archived \subseteq Names /\ ArchivedExist

WorkInv == RefsRight /\ MadeRight /\ TreesRight /\ RequestsRight /\ AllKept /\ ArchiveRight

\* Two syncs in one worktree, or one that meets the rebase of another there,
\* are known to overlap.
OverlapsSeen ==
  \A r \in Requests, t \in Names : Syncing(r, t) /\ t \notin mixed =>
    /\ \A q \in Requests \ {r} : ~ Syncing(q, t)
    /\ t \in Trees /\ trees[t].rebase # NoRebase => trees[t].rebase.by = r

-----------------------------------------------------------------------------
(* The patches: no step loses one.                                         *)

PatchesStay ==
  /\ \A p : Kept(p) => Kept(p)'
  /\ \A p \in 1 .. made'.patches : p \in 1 .. made.patches \/ Kept(p)'

LEMMA PatchesKept ==
  ASSUME RefsRight, AllKept, PatchesStay
  PROVE  AllKept'
BY DEF AllKept, PatchesStay

\* Steps that leave the refs alone, or change one of them.
LEMMA RefsSame ==
  ASSUME RefsRight, UNCHANGED refs, made'.patches = made.patches
  PROVE  RefsRight' /\ PatchesStay
BY DEF RefsRight, PatchesStay, refs, Kept

LEMMA HeadMoves ==
  ASSUME RefsRight, NEW b \in DOMAIN heads, NEW h \in Seq(Nat), heads' = [heads EXCEPT ![b] = h],
         UNCHANGED <<track, remotes, origin>>,
         ToSet(heads[b]) \subseteq ToSet(h),
         \A p \in 1 .. made'.patches : p \in 1 .. made.patches \/ p \in ToSet(h)
  PROVE  RefsRight' /\ PatchesStay /\ DOMAIN heads' = DOMAIN heads
<1>1. /\ DOMAIN heads' = DOMAIN heads /\ heads' \in [DOMAIN heads -> Seq(Nat)]
      /\ heads'[b] = h /\ \A x \in DOMAIN heads \ {b} : heads'[x] = heads[x]
  BY DEF RefsRight
<1>2. RefsRight'
  BY <1>1 DEF RefsRight
<1>3. PatchesStay
  BY <1>1 DEF PatchesStay, Kept
<1> QED
  BY <1>1, <1>2, <1>3

LEMMA BranchMade ==
  ASSUME RefsRight, NEW b \in Names, ~ Exists(b), NEW u \in DOMAIN heads,
         heads' = With(heads, b, heads[u]), track' = [track EXCEPT ![b] = u],
         UNCHANGED <<remotes, origin>>,
         made'.patches = made.patches
  PROVE  RefsRight' /\ PatchesStay /\ DOMAIN heads' = DOMAIN heads \cup {b}
<1>1. /\ DOMAIN heads' = DOMAIN heads \cup {b} /\ heads' \in [DOMAIN heads \cup {b} -> Seq(Nat)]
      /\ \A x \in DOMAIN heads : heads'[x] = heads[x]
  <2>1. heads[u] \in Seq(Nat) /\ heads \in [DOMAIN heads -> Seq(Nat)]
    BY DEF RefsRight
  <2> QED
    BY <2>1 DEF With, Exists
<1>2. u # b /\ u \in Names \cup {Main} /\ track' \in [Names -> Names \cup {Main, Pushed, None}]
  BY DEF RefsRight, Exists
<1>3. \A x \in Names : track'[x] # x
  BY <1>2 DEF RefsRight
<1>4. RefsRight'
  BY <1>1, <1>2, <1>3 DEF RefsRight
<1>5. PatchesStay
  BY <1>1 DEF PatchesStay, Kept
<1> QED
  BY <1>1, <1>4, <1>5

LEMMA OriginMoves ==
  ASSUME RefsRight, NEW h \in Seq(Nat), origin' = h, UNCHANGED <<heads, track, remotes>>,
         ToSet(origin) \subseteq ToSet(h),
         \A p \in 1 .. made'.patches : p \in 1 .. made.patches \/ p \in ToSet(h)
  PROVE  RefsRight' /\ PatchesStay
BY DEF RefsRight, PatchesStay, Kept

LEMMA MadeStep ==
  ASSUME MadeRight, Event \/ NewRequest \/ UNCHANGED made
  PROVE  MadeRight' /\ made'.patches = made.patches
<1>1. CASE Event
  BY <1>1 DEF Event, MadeRight
<1>2. CASE NewRequest
  BY <1>2 DEF NewRequest, MadeRight
<1>3. CASE UNCHANGED made
  BY <1>3 DEF MadeRight
<1> QED
  BY <1>1, <1>2, <1>3

LEMMA RefsCommit ==
  ASSUME RefsRight, MadeRight, TreesRight, NEW t \in Trees, Commit(t)
  PROVE  RefsRight' /\ MadeRight' /\ PatchesStay /\ DOMAIN heads' = DOMAIN heads
<1> DEFINE b == trees[t].at
           h == Append(heads[b], NewPatch)
<1>1. b \in DOMAIN heads /\ heads[b] \in Seq(Nat)
  BY DEF Commit, TreesRight, Held, RefsRight
<1>2. NewPatch \in Nat /\ made.patches \in Nat /\ NewPatch = made.patches + 1
  BY DEF NewPatch, MadeRight
<1>3. h \in Seq(Nat) /\ ToSet(h) = ToSet(heads[b]) \cup {NewPatch}
  BY <1>1, <1>2, Appended
<1>4. /\ heads' = [heads EXCEPT ![b] = h] /\ UNCHANGED <<track, remotes, origin>>
      /\ made' = [made EXCEPT !.patches = NewPatch]
  BY DEF Commit
<1>5. MadeRight' /\ made'.patches = NewPatch
  BY <1>2, <1>4 DEF MadeRight
<1>6. \A p \in 1 .. made'.patches : p \in 1 .. made.patches \/ p \in ToSet(h)
  BY <1>2, <1>3, <1>5
<1> HIDE DEF b, h
<1> QED
  BY <1>1, <1>3, <1>4, <1>5, <1>6, HeadMoves

LEMMA RefsRebased ==
  ASSUME RefsRight, NEW b \in DOMAIN heads, NEW onto \in Seq(Nat),
         heads' = [heads EXCEPT ![b] = Rebased(@, onto)], UNCHANGED <<track, remotes, origin>>, made'.patches = made.patches
  PROVE  RefsRight' /\ PatchesStay /\ DOMAIN heads' = DOMAIN heads
<1> DEFINE h == Rebased(heads[b], onto)
<1>1. heads[b] \in Seq(Nat)
  BY DEF RefsRight
<1>2. h \in Seq(Nat) /\ ToSet(heads[b]) \subseteq ToSet(h)
  BY <1>1, RebaseKeeps
<1>3. heads' = [heads EXCEPT ![b] = h]
  OBVIOUS
<1> HIDE DEF h
<1> QED
  BY <1>2, <1>3, HeadMoves

LEMMA RefsPush ==
  ASSUME RefsRight, MadeRight, NEW b \in DOMAIN heads \ {Main}, Push(b)
  PROVE  RefsRight' /\ MadeRight' /\ PatchesStay /\ DOMAIN heads' = DOMAIN heads
<1>1. /\ UNCHANGED <<heads, origin>> /\ remotes' = With(remotes, b, heads[b])
      /\ track' = [track EXCEPT ![b] = Pushed] /\ Event
      /\ b \in DOMAIN remotes => ToSet(remotes[b]) \subseteq ToSet(heads[b])
  BY DEF Push
<1>2. heads[b] \in Seq(Nat) /\ remotes \in [DOMAIN remotes -> Seq(Nat)] /\ b \in Names
  BY DEF RefsRight
<1>3. /\ remotes' \in [DOMAIN remotes' -> Seq(Nat)]
      /\ DOMAIN remotes' = DOMAIN remotes \cup {b} /\ remotes'[b] = heads[b]
      /\ \A x \in DOMAIN remotes \ {b} : remotes'[x] = remotes[x]
  BY <1>1, <1>2 DEF With
<1>4. track' \in [Names -> Names \cup {Main, Pushed, None}] /\ \A x \in Names : track'[x] # x
  BY <1>1, WorkstreamsAssumption DEF RefsRight, Names, Pushed
<1>5. MadeRight' /\ made'.patches = made.patches
  BY <1>1, MadeStep
<1>6. RefsRight'
  BY <1>1, <1>3, <1>4 DEF RefsRight
<1>7. PatchesStay
  BY <1>1, <1>2, <1>3, <1>5 DEF PatchesStay, Kept
<1> QED
  BY <1>1, <1>5, <1>6, <1>7

LEMMA RefsDeleteRemote ==
  ASSUME RefsRight, MadeRight, NEW b \in DOMAIN remotes, DeleteRemote(b)
  PROVE  RefsRight' /\ MadeRight' /\ PatchesStay /\ DOMAIN heads' = DOMAIN heads
<1>1. /\ UNCHANGED <<heads, track, origin>> /\ remotes' = Without(remotes, b) /\ Event
      /\ \A p \in ToSet(remotes[b]) : p \in ToSet(origin) \/ \E x \in DOMAIN heads : p \in ToSet(heads[x])
  BY DEF DeleteRemote
<1>2. /\ remotes' \in [DOMAIN remotes' -> Seq(Nat)]
      /\ DOMAIN remotes' = DOMAIN remotes \ {b} /\ \A x \in DOMAIN remotes \ {b} : remotes'[x] = remotes[x]
  BY <1>1 DEF Without, RefsRight
<1>3. MadeRight' /\ made'.patches = made.patches
  BY <1>1, MadeStep
<1>4. RefsRight'
  BY <1>1, <1>2 DEF RefsRight
<1>5. PatchesStay
  BY <1>1, <1>2, <1>3 DEF PatchesStay, Kept
<1> QED
  BY <1>1, <1>3, <1>4, <1>5

LEMMA RefsMergeRemote ==
  ASSUME RefsRight, MadeRight, NEW b \in DOMAIN remotes, MergeRemote(b)
  PROVE  RefsRight' /\ MadeRight' /\ PatchesStay
<1> DEFINE h == Rebased(remotes[b], origin)
<1>1. h \in Seq(Nat) /\ ToSet(origin) \subseteq ToSet(h)
  BY RebaseKeeps DEF RefsRight
<1>2. MadeRight' /\ made'.patches = made.patches
  BY MadeStep DEF MergeRemote
<1>3. origin' = h /\ UNCHANGED <<heads, track, remotes>>
  BY DEF MergeRemote
<1> HIDE DEF h
<1> QED
  BY <1>1, <1>2, <1>3, OriginMoves

LEMMA RefsMergeOther ==
  ASSUME RefsRight, MadeRight, MergeOther
  PROVE  RefsRight' /\ MadeRight' /\ PatchesStay
<1> DEFINE h == Append(origin, NewPatch)
<1>1. NewPatch \in Nat /\ made.patches \in Nat /\ NewPatch = made.patches + 1
  BY DEF NewPatch, MadeRight
<1>2. h \in Seq(Nat) /\ ToSet(h) = ToSet(origin) \cup {NewPatch}
  <2>1. origin \in Seq(Nat)
    BY DEF RefsRight
  <2> QED
    BY <1>1, <2>1, Appended
<1>3. /\ origin' = h /\ UNCHANGED <<heads, track, remotes>>
      /\ made' = [made EXCEPT !.events = @ + 1, !.patches = NewPatch]
  BY DEF MergeOther
<1>4. MadeRight' /\ made'.patches = NewPatch
  <2>1. /\ made = [patches |-> made.patches, events |-> made.events, requests |-> made.requests, names |-> made.names]
        /\ made.events \in Nat /\ made.requests \in Nat /\ made.names \in SUBSET Names
    BY DEF MadeRight
  <2>2. made' = [patches |-> NewPatch, events |-> made.events + 1, requests |-> made.requests, names |-> made.names]
    BY <1>3, <2>1
  <2> QED
    BY <1>1, <2>1, <2>2 DEF MadeRight
<1>5. \A p \in 1 .. made'.patches : p \in 1 .. made.patches \/ p \in ToSet(h)
  BY <1>1, <1>2, <1>4
<1> HIDE DEF h
<1> QED
  BY <1>2, <1>3, <1>4, <1>5, OriginMoves

LEMMA RefsPullMain ==
  ASSUME RefsRight, MadeRight, PullMain
  PROVE  RefsRight' /\ MadeRight' /\ PatchesStay /\ DOMAIN heads' = DOMAIN heads
<1>1. /\ Main \in DOMAIN heads /\ heads' = [heads EXCEPT ![Main] = origin] /\ UNCHANGED <<track, remotes, origin>>
      /\ MadeRight' /\ made'.patches = made.patches /\ origin \in Seq(Nat)
  BY MadeStep DEF PullMain, RefsRight
<1>2. ToSet(heads[Main]) \subseteq ToSet(origin)
  BY PrefixHas DEF PullMain, RefsRight
<1> QED
  BY <1>1, <1>2, HeadMoves

\* git branch -d: what is deleted is merged into something that stays.
LEMMA RefsDeleteBranch ==
  ASSUME RefsRight, MadeRight, NEW r \in Requests, DeleteBranch(r)
  PROVE  /\ RefsRight' /\ MadeRight' /\ PatchesStay
         /\ \/ UNCHANGED <<heads, track>>
            \/ \E b \in Names : UsedIn(b) = {} /\ DOMAIN heads' = DOMAIN heads \ {b}
<1> DEFINE b == Head(reqs[r].todo)
<1>1. UNCHANGED <<remotes, origin>> /\ MadeRight' /\ made'.patches = made.patches
  BY MadeStep DEF DeleteBranch
<1>2. CASE UNCHANGED <<heads, track>>
  BY <1>1, <1>2, RefsSame DEF refs
<1>3. CASE Deletes(b) /\ heads' = Without(heads, b) /\ track' = [track EXCEPT ![b] = None]
  <2>1. b \in Names /\ UsedIn(b) = {} /\ b \in DOMAIN heads
    BY <1>3 DEF Deletes, Exists, UsedIn, RefsRight, Main
  <2>2. heads[b] \in Seq(Nat) /\ Merged(heads[b], Reference(b))
    BY <1>3, <2>1 DEF RefsRight, Deletes
  <2>3. \/ \E x \in DOMAIN heads \ {b} : Reference(b) = heads[x]
        \/ b \in DOMAIN remotes /\ Reference(b) = remotes[b]
    <3>1. Up(b) # b /\ Main # b /\ Main \in DOMAIN heads
      BY <2>1, WorkstreamsAssumption DEF Up, RefsRight, Main, Names, None
    <3> QED
      BY <2>1, <3>1 DEF Reference, Exists
  <2> HIDE DEF b
  <2>4. /\ DOMAIN heads' = DOMAIN heads \ {b} /\ heads' \in [DOMAIN heads' -> Seq(Nat)]
        /\ \A x \in DOMAIN heads \ {b} : heads'[x] = heads[x] /\ heads[x] \in Seq(Nat)
    BY <1>3 DEF RefsRight, Without
  <2>5. track' \in [Names -> Names \cup {Main, Pushed, None}] /\ \A x \in Names : track'[x] # x
    BY <1>3, <2>1, WorkstreamsAssumption DEF RefsRight, Names, None
  <2>6. RefsRight'
    BY <1>1, <2>1, <2>4, <2>5 DEF RefsRight, Main, Names
  <2>7. \A p \in ToSet(heads[b]) : \/ \E x \in DOMAIN heads' : p \in ToSet(heads'[x])
                                   \/ \E x \in DOMAIN remotes : p \in ToSet(remotes[x])
    <3>1. CASE \E x \in DOMAIN heads \ {b} : Reference(b) = heads[x]
      BY <2>2, <2>4, <3>1, PrefixHas
    <3>2. CASE b \in DOMAIN remotes /\ Reference(b) = remotes[b]
      <4>1. remotes[b] \in Seq(Nat)
        BY <3>2 DEF RefsRight
      <4> QED
        BY <2>2, <3>2, <4>1, PrefixHas
    <3> QED
      BY <2>3, <3>1, <3>2
  <2>8. PatchesStay
    <3>1. ASSUME NEW p, Kept(p)
          PROVE  Kept(p)'
      <4>1. CASE \E x \in DOMAIN heads : p \in ToSet(heads[x])
        BY <1>1, <2>4, <2>7, <4>1 DEF Kept
      <4>2. CASE p \in ToSet(origin) \/ \E x \in DOMAIN remotes : p \in ToSet(remotes[x])
        BY <1>1, <4>2 DEF Kept
      <4> QED
        BY <3>1, <4>1, <4>2 DEF Kept
    <3> QED
      BY <1>1, <3>1 DEF PatchesStay
  <2> QED
    BY <1>1, <2>1, <2>4, <2>6, <2>8
<1> QED
  BY <1>2, <1>3 DEF DeleteBranch

-----------------------------------------------------------------------------
(* The worktrees.                                                          *)

\* No rebase stops.
RebasesStay ==
  \A t \in Trees' : trees'[t].rebase = NoRebase \/ (t \in Trees /\ trees'[t].rebase = trees[t].rebase)

\* The branches may be others, as long as those in use are still there.
LEMMA TreesStay ==
  ASSUME TreesRight, UNCHANGED trees, \A t \in Trees : Held(t) \in DOMAIN heads'
  PROVE  TreesRight' /\ Trees' = Trees /\ RebasesStay
BY DEF TreesRight, Held, Trees, RebasesStay

\* One worktree changes: it uses the branch it used, or one nobody uses.
Uses(w) == IF w.rebase = NoRebase THEN w.at ELSE w.rebase.of
LEMMA TreeMoves ==
  ASSUME TreesRight, NEW t \in Trees, NEW w \in Worktree, trees' = [trees EXCEPT ![t] = w],
         DOMAIN heads \subseteq DOMAIN heads',
         w.at = Detached <=> w.rebase # NoRebase,
         Uses(w) \in DOMAIN heads' \ {Main},
         \A s \in Trees \ {t} : Held(s) # Uses(w)
  PROVE  /\ TreesRight' /\ Trees' = Trees
         /\ w.rebase \in {NoRebase, trees[t].rebase} => RebasesStay
<1>1. trees' \in [Trees -> Worktree] /\ Trees' = Trees /\ trees'[t] = w /\ \A s \in Trees \ {t} : trees'[s] = trees[s]
  BY DEF TreesRight, Trees
<1>2. Held(t)' = Uses(w) /\ \A s \in Trees \ {t} : Held(s)' = Held(s)
  BY <1>1 DEF Held, Uses
<1>3. /\ Trees \subseteq Names
      /\ \A s \in Trees : Held(s) \in DOMAIN heads \ {Main} /\ (trees[s].at = Detached <=> trees[s].rebase # NoRebase)
      /\ \A s, q \in Trees : Held(s) = Held(q) => s = q
  BY DEF TreesRight
<1>4. \A s \in Trees : Held(s)' \in DOMAIN heads' \ {Main} /\ (trees'[s].at = Detached <=> trees'[s].rebase # NoRebase)
  BY <1>1, <1>2, <1>3
<1>5. \A s, q \in Trees : Held(s)' = Held(q)' => s = q
  BY <1>2, <1>3
<1>6. TreesRight'
  BY <1>1, <1>3, <1>4, <1>5 DEF TreesRight
<1>7. w.rebase \in {NoRebase, trees[t].rebase} => RebasesStay
  BY <1>1 DEF RebasesStay
<1> QED
  BY <1>1, <1>6, <1>7

LEMMA TreeIs ==
  ASSUME TreesRight, NEW t \in Trees
  PROVE  /\ trees[t] \in Worktree
         /\ trees[t].at # Detached => /\ trees[t].rebase = NoRebase /\ Held(t) = trees[t].at
                                      /\ trees[t].at \in DOMAIN heads \ {Main}
         /\ trees[t].rebase # NoRebase => Held(t) = trees[t].rebase.of /\ Held(t) \in DOMAIN heads \ {Main}
BY DEF TreesRight, Held

LEMMA UsedBy ==
  ASSUME RefsRight, TreesRight, NEW b \in DOMAIN heads
  PROVE  \A t \in Trees : Held(t) = b <=> t \in UsedIn(b)
<1> TAKE t \in Trees
<1>1. b \in 0 .. N
  BY WorkstreamsAssumption DEF RefsRight, Names, Main
<1>2. b # None /\ b # Detached
  BY <1>1, WorkstreamsAssumption DEF None, Detached
<1>3. t # Main
  BY WorkstreamsAssumption DEF TreesRight, Names, Main
<1>4. trees[t].rebase = NoRebase => trees[t].rebase.of = None
  BY DEF NoRebase
<1>5. trees[t].rebase # NoRebase => trees[t].at = Detached
  BY DEF TreesRight
<1> QED
  BY <1>2, <1>3, <1>4, <1>5 DEF UsedIn, Held

\* Changes to a worktree that leave the branch alone.
LEMMA TreesDirty ==
  ASSUME TreesRight, NEW t \in Trees, NEW d \in BOOLEAN, trees' = [trees EXCEPT ![t].dirty = d],
         DOMAIN heads' = DOMAIN heads
  PROVE  TreesRight' /\ Trees' = Trees /\ RebasesStay
<1> DEFINE w == [trees[t] EXCEPT !.dirty = d]
<1>1. w \in Worktree /\ w.at = trees[t].at /\ w.rebase = trees[t].rebase
  BY TreeIs DEF Worktree
<1>2. trees' = [trees EXCEPT ![t] = w]
  BY DEF TreesRight
<1>3. Held(t) \in DOMAIN heads' \ {Main} /\ Held(t) = Uses(w)
  BY <1>1 DEF TreesRight, Held, Uses
<1>4. (w.at = Detached <=> w.rebase # NoRebase) /\ \A s \in Trees \ {t} : Held(s) # Held(t)
  BY <1>1 DEF TreesRight
<1> HIDE DEF w
<1> QED
  BY <1>1, <1>2, <1>3, <1>4, TreeMoves

\* A checkout of a branch that no other worktree uses.
LEMMA TreeChecksOut ==
  ASSUME RefsRight, TreesRight, NEW t \in Trees, trees[t].rebase = NoRebase,
         NEW b \in Names, b \in DOMAIN heads', DOMAIN heads \subseteq DOMAIN heads',
         b \in DOMAIN heads => UsedIn(b) \subseteq {t},
         trees' = [trees EXCEPT ![t].at = b]
  PROVE  TreesRight' /\ Trees' = Trees /\ RebasesStay
<1> DEFINE w == [trees[t] EXCEPT !.at = b]
<1>1. w \in Worktree /\ w.at = b /\ w.rebase = NoRebase
  BY TreeIs DEF Worktree
<1>2. trees' = [trees EXCEPT ![t] = w]
  BY DEF TreesRight
<1>3. b # Main /\ b # Detached
  BY WorkstreamsAssumption DEF Names, Main, Detached
<1>4. \A s \in Trees \ {t} : Held(s) # b
  <2>1. CASE b \in DOMAIN heads
    BY <2>1, UsedBy
  <2>2. CASE b \notin DOMAIN heads
    BY <2>2 DEF TreesRight
  <2> QED
    BY <2>1, <2>2
<1>5. Uses(w) = b /\ (w.at = Detached <=> w.rebase # NoRebase)
  BY <1>1, <1>3 DEF Uses
<1> HIDE DEF w
<1> QED
  BY <1>1, <1>2, <1>3, <1>4, <1>5, TreeMoves

LEMMA CleanTreeIs ==
  ASSUME NEW b \in Names
  PROVE  CleanTree(b) \in Worktree /\ CleanTree(b).at = b /\ CleanTree(b).rebase = NoRebase
           /\ b # Main /\ b # Detached /\ Uses(CleanTree(b)) = b
<1>1. NoRebase \in [of : Names \cup {None}, by : Requests \cup {None}]
  BY DEF NoRebase
<1>2. << >> \in Seq(Nat)
  OBVIOUS
<1>3. b # Main /\ b # Detached
  BY WorkstreamsAssumption DEF Names, Main, Detached
<1> QED
  BY <1>1, <1>2, <1>3 DEF CleanTree, Worktree, Uses

\* A rebase ends, or is given up: its branch is checked out again.
LEMMA TreeRestored ==
  ASSUME RefsRight, TreesRight, NEW t \in Trees, trees[t].rebase # NoRebase, trees' = Restored(t),
         DOMAIN heads \subseteq DOMAIN heads'
  PROVE  TreesRight' /\ Trees' = Trees /\ RebasesStay
<1> DEFINE b == trees[t].rebase.of
           w == CleanTree(b)
<1>1. Held(t) = b /\ b \in DOMAIN heads \ {Main}
  BY TreeIs
<1>2. b \in Names
  BY <1>1 DEF RefsRight
<1>3. w \in Worktree /\ w.rebase = NoRebase /\ (w.at = Detached <=> w.rebase # NoRebase) /\ Uses(w) = b
  BY <1>2, CleanTreeIs
<1>4. trees' = [trees EXCEPT ![t] = w]
  BY DEF Restored
<1>5. \A s \in Trees \ {t} : Held(s) # b
  BY <1>1 DEF TreesRight
<1> HIDE DEF w, b
<1> QED
  BY <1>1, <1>3, <1>4, <1>5, TreeMoves

\* ... or it begins: HEAD is detached, the branch is still in use.
LEMMA TreeDetached ==
  ASSUME RefsRight, TreesRight, NEW t \in Trees, trees[t].at # Detached, NEW r \in Requests, NEW h \in Seq(Nat),
         trees' = [trees EXCEPT ![t] = [at |-> Detached, dirty |-> TRUE, onto |-> h,
                                        rebase |-> [of |-> trees[t].at, by |-> r]]],
         UNCHANGED heads
  PROVE  TreesRight' /\ Trees' = Trees
<1> DEFINE b == trees[t].at
           w == [at |-> Detached, dirty |-> TRUE, onto |-> h, rebase |-> [of |-> b, by |-> r]]
<1>1. Held(t) = b /\ b \in DOMAIN heads \ {Main}
  BY TreeIs
<1>2. b \in Names /\ b # None
  <2>1. b \in Names \cup {Main}
    BY <1>1 DEF RefsRight
  <2> QED
    BY <1>1, <2>1, WorkstreamsAssumption DEF Names, None
<1>3. w \in Worktree /\ w.at = Detached /\ w.rebase.of = b
  BY <1>2 DEF Worktree
<1>4. w.rebase # NoRebase
  BY <1>2, <1>3 DEF NoRebase
<1>5. Uses(w) = b
  BY <1>3, <1>4 DEF Uses
<1>6. \A s \in Trees \ {t} : Held(s) # b
  BY <1>1 DEF TreesRight
<1>7. trees' = [trees EXCEPT ![t] = w] /\ DOMAIN heads' = DOMAIN heads
  OBVIOUS
<1>8. w.at = Detached <=> w.rebase # NoRebase
  BY <1>3, <1>4
<1>9. Uses(w) \in DOMAIN heads' \ {Main} /\ DOMAIN heads \subseteq DOMAIN heads' /\ \A s \in Trees \ {t} : Held(s) # Uses(w)
  BY <1>1, <1>5, <1>6, <1>7
<1> HIDE DEF w, b
<1> QED
  BY <1>3, <1>7, <1>8, <1>9, TreeMoves

\* A worktree is made, or removed.
LEMMA TreeMade ==
  ASSUME RefsRight, TreesRight, NEW n \in Names, n \notin Trees, n \notin DOMAIN heads,
         trees' = With(trees, n, CleanTree(n)),
         DOMAIN heads' = DOMAIN heads \cup {n}
  PROVE  TreesRight' /\ Trees' = Trees \cup {n} /\ RebasesStay
<1> DEFINE w == CleanTree(n)
<1>1. w \in Worktree /\ w.at = n /\ w.rebase = NoRebase
  BY CleanTreeIs
<1>2. n # Main /\ n # Detached
  BY CleanTreeIs
<1>3. Trees' = Trees \cup {n} /\ trees'[n] = w /\ \A s \in Trees : trees'[s] = trees[s]
  BY DEF With, Trees
<1>4. trees' \in [Trees' -> Worktree]
  <2>1. trees \in [Trees -> Worktree]
    BY DEF TreesRight
  <2> HIDE DEF w
  <2>2. trees' = [y \in Trees \cup {n} |-> IF y = n THEN w ELSE trees[y]]
    BY DEF With, Trees, w
  <2> QED
    BY <1>1, <1>3, <2>1, <2>2
<1> HIDE DEF w
<1>5. Held(n)' = n /\ \A s \in Trees : Held(s)' = Held(s)
  BY <1>1, <1>3 DEF Held
<1>6. /\ Trees \subseteq Names
      /\ \A s \in Trees : Held(s) \in DOMAIN heads \ {Main} /\ (trees[s].at = Detached <=> trees[s].rebase # NoRebase)
      /\ \A s, q \in Trees : Held(s) = Held(q) => s = q
  BY DEF TreesRight
<1>7. \A s \in Trees' : Held(s)' \in DOMAIN heads' \ {Main} /\ (trees'[s].at = Detached <=> trees'[s].rebase # NoRebase)
  <2>1. Held(n)' \in DOMAIN heads' \ {Main} /\ (trees'[n].at = Detached <=> trees'[n].rebase # NoRebase)
    BY <1>1, <1>2, <1>3, <1>5
  <2>2. \A s \in Trees : Held(s)' \in DOMAIN heads' \ {Main} /\ (trees'[s].at = Detached <=> trees'[s].rebase # NoRebase)
    BY <1>3, <1>5, <1>6
  <2> QED
    BY <1>3, <2>1, <2>2
<1>8. \A s, q \in Trees' : Held(s)' = Held(q)' => s = q
  BY <1>3, <1>5, <1>6
<1>9. TreesRight'
  BY <1>3, <1>4, <1>6, <1>7, <1>8 DEF TreesRight
<1>10. RebasesStay
  BY <1>1, <1>3 DEF RebasesStay
<1> QED
  BY <1>3, <1>9, <1>10

LEMMA TreeRemoved ==
  ASSUME TreesRight, NEW t \in Trees, trees' = Without(trees, t), UNCHANGED heads
  PROVE  TreesRight' /\ Trees' = Trees \ {t} /\ RebasesStay
<1>1. Trees' = Trees \ {t} /\ trees' \in [Trees' -> Worktree] /\ \A s \in Trees' : trees'[s] = trees[s]
  BY DEF Without, Trees, TreesRight
<1>2. \A s \in Trees' : Held(s)' = Held(s)
  BY <1>1 DEF Held
<1>3. TreesRight'
  BY <1>1, <1>2 DEF TreesRight
<1> QED
  BY <1>1, <1>3 DEF RebasesStay

-----------------------------------------------------------------------------
(* The requests.                                                           *)

\* What a request that does not act sees of a step.
Unmoved(q) == reqs'[q].at = reqs[q].at /\ reqs'[q].t = reqs[q].t

LEMMA DisturbedIs ==
  ASSUME RequestsRight
  PROVE  /\ DOMAIN Disturbed = Requests
         /\ \A q \in Requests : /\ Request(Disturbed[q])
                                /\ Disturbed[q].at = reqs[q].at /\ Disturbed[q].t = reqs[q].t
BY DEF RequestsRight, Request, Disturbed

LEMMA RequestsDisturbed ==
  ASSUME RequestsRight, reqs' = Disturbed \/ UNCHANGED reqs
  PROVE  RequestsRight' /\ \A q \in Requests : Unmoved(q)
<1>1. CASE reqs' = Disturbed
  BY <1>1, DisturbedIs DEF RequestsRight, Unmoved
<1>2. CASE UNCHANGED reqs
  BY <1>2 DEF RequestsRight, Unmoved
<1> QED
  BY <1>1, <1>2

LEMMA RequestMoves ==
  ASSUME RequestsRight, NEW r \in Requests, NEW rq, Request(rq),
         Become(r, rq) \/ reqs' = Disturb(r, rq)
  PROVE  RequestsRight' /\ reqs'[r] = rq /\ \A q \in Requests \ {r} : Unmoved(q)
<1>1. CASE Become(r, rq)
  BY <1>1 DEF Become, RequestsRight, Unmoved
<1>2. CASE reqs' = Disturb(r, rq)
  BY <1>2, DisturbedIs DEF Disturb, RequestsRight, Unmoved
<1> QED
  BY <1>1, <1>2

\* What a request becomes.
LEMMA IdleIs ==
  Request(Idle) /\ Idle.at = "idle"
BY DEF Request, Idle

LEMMA RequestAt ==
  ASSUME NEW q, Request(q), NEW a
  PROVE  LET n == [q EXCEPT !.at = a] IN Request(n) /\ n.at = a /\ n.t = q.t
BY DEF Request

LEMMA RequestLeaves ==
  ASSUME NEW q, Request(q), NEW a
  PROVE  LET n == [q EXCEPT !.at = a, !.t = None] IN Request(n) /\ n.at = a
BY DEF Request

LEMMA RequestTodo ==
  ASSUME NEW q, Request(q), NEW s
  PROVE  LET n == [q EXCEPT !.todo = s] IN Request(n) /\ n.at = q.at /\ n.t = q.t
BY DEF Request

LEMMA RequestAtTodo ==
  ASSUME NEW q, Request(q), NEW a, NEW s
  PROVE  LET n == [q EXCEPT !.at = a, !.todo = s] IN Request(n) /\ n.at = a /\ n.t = q.t
BY DEF Request

LEMMA RequestRest ==
  ASSUME NEW q, Request(q), NEW t
  PROVE  LET n == [q EXCEPT !.rest = @ \ {t}] IN Request(n) /\ n.at = q.at
BY DEF Request

LEMMA RequestPrunes ==
  ASSUME NEW q, Request(q), NEW t \in Names, NEW s
  PROVE  LET n == [q EXCEPT !.at = "remove", !.t = t, !.rest = @ \ {t}, !.todo = s]
         IN  Request(n) /\ n.at = "remove"
BY DEF Request

LEMMA OverIs ==
  ASSUME NEW q, Request(q), NEW ok \in BOOLEAN
  PROVE  Request(Over(q, ok)) /\ Over(q, ok).at \in {"done", "next", "idle"}
<1> DEFINE a == IF ok THEN "done" ELSE IF q.mass THEN "next" ELSE "idle"
           t == IF ok THEN q.t ELSE None
           c == IF ok THEN q.clean ELSE TRUE
           n == [q EXCEPT !.at = a, !.t = t, !.todo = << >>, !.clean = c]
<1>1. Over(q, ok) = n
  BY DEF Over
<1>2. a \in {"done", "next", "idle"} /\ t \in Names \cup {None}
  BY DEF Request
<1> HIDE DEF a, t, c
<1>3. Request(n) /\ n.at = a
  BY <1>2 DEF Request
<1> QED
  BY <1>1, <1>2, <1>3

LEMMA StartedIs ==
  ASSUME NEW r \in Requests, NEW t \in Names, NEW mass \in BOOLEAN, NEW rest \in SUBSET Names
  PROVE  /\ Request(Started(r, t, mass, rest)) /\ Started(r, t, mass, rest).t = t
         /\ Started(r, t, mass, rest).at \in {"next", "idle", "checkout"}
         /\ Started(r, t, mass, rest).at = "checkout" => Plan(t) # << >>
<1> DEFINE a == IF Plan(t) = <<>> THEN (IF mass THEN "next" ELSE "idle") ELSE "checkout"
           todo == Plan(t)
           n == [Idle EXCEPT !.at = a, !.t = t, !.todo = todo, !.mass = mass, !.rest = rest]
<1>1. Started(r, t, mass, rest) = n
  BY DEF Started
<1>2. a \in {"next", "idle", "checkout"} /\ (a = "checkout" => Plan(t) # << >>)
  OBVIOUS
<1> HIDE DEF a, todo
<1>3. Request(n) /\ n.at = a /\ n.t = t
  BY DEF Request, Idle
<1> QED
  BY <1>1, <1>2, <1>3

LEMMA RestIs ==
  ASSUME NEW a, NEW mass \in BOOLEAN, NEW rest \in SUBSET Names
  PROVE  /\ LET n == [Idle EXCEPT !.at = a, !.mass = mass, !.rest = rest] IN Request(n) /\ n.at = a
         /\ LET n == [Idle EXCEPT !.at = a, !.rest = rest] IN Request(n) /\ n.at = a
BY DEF Request, Idle

LEMMA PlanOfBranch ==
  ASSUME NEW t \in Trees, Plan(t) # << >>
  PROVE  trees[t].at # Detached
<1> SUFFICES ASSUME trees[t].at = Detached
             PROVE  FALSE
  OBVIOUS
<1>1. Stack(t) = << >>
  BY DEF Stack
<1>2. DOMAIN Stack(t) = {}
  BY <1>1
<1>3. DOMAIN Plan(t) = {}
  BY <1>2 DEF Plan
<1> QED
  BY <1>1, <1>2, <1>3 DEF Plan

-----------------------------------------------------------------------------
(* The archive, and syncs that overlap.                                    *)

LEMMA ArchiveStays ==
  ASSUME ArchiveRight, archived' \subseteq archived, Trees \subseteq Trees', stale \subseteq stale',
         \A q \in Requests : reqs[q].at = "delete" => Unmoved(q)
  PROVE  ArchiveRight'
<1>1. archived' \subseteq Names
  BY DEF ArchiveRight
<1>2. ASSUME NEW t \in archived'
      PROVE  \/ t \in Trees' \/ t \in stale'
             \/ \E q \in Requests : reqs'[q].at = "delete" /\ reqs'[q].t = t
  BY <1>2 DEF ArchiveRight, ArchivedExist, Unmoved
<1> QED
  BY <1>1, <1>2 DEF ArchiveRight, ArchivedExist

\* No sync begins, and no rebase stops.
LEMMA OverlapsStay ==
  ASSUME OverlapsSeen, mixed \subseteq mixed',
         \A q \in Requests, t \in Names : Syncing(q, t)' => Syncing(q, t),
         RebasesStay
  PROVE  OverlapsSeen'
BY DEF OverlapsSeen, RebasesStay

-----------------------------------------------------------------------------
(* The steps, each keeping the invariant.                                  *)

IInv == WorkInv /\ OverlapsSeen

LEMMA Together ==
  ASSUME IInv, RefsRight', PatchesStay, MadeRight', TreesRight', RequestsRight', ArchiveRight', OverlapsSeen'
  PROVE  IInv'
BY PatchesKept DEF IInv, WorkInv

\* No request acts.
LEMMA OutsideKeeps ==
  ASSUME IInv, RefsRight', PatchesStay, MadeRight', TreesRight', RebasesStay,
         reqs' = Disturbed \/ UNCHANGED reqs,
         archived' \subseteq archived, Trees \subseteq Trees', stale \subseteq stale', mixed \subseteq mixed'
  PROVE  IInv'
<1>1. RequestsRight' /\ \A q \in Requests : Unmoved(q)
  BY RequestsDisturbed DEF IInv, WorkInv
<1>2. ArchiveRight'
  BY <1>1, ArchiveStays DEF IInv, WorkInv
<1>3. \A q \in Requests, t \in Names : Syncing(q, t)' => Syncing(q, t)
  BY <1>1 DEF Syncing, Unmoved
<1>4. OverlapsSeen'
  BY <1>3, OverlapsStay DEF IInv
<1> QED
  BY <1>1, <1>2, <1>4, Together

\* A request acts: it begins no sync and stops no rebase.
LEMMA RequestKeeps ==
  ASSUME IInv, RefsRight', PatchesStay, MadeRight', TreesRight', RebasesStay,
         UNCHANGED <<archived, stale, mixed>>, Trees \subseteq Trees',
         NEW r \in Requests, NEW rq, Request(rq), Become(r, rq) \/ reqs' = Disturb(r, rq),
         reqs[r].at = "delete" => rq.at = "delete" /\ rq.t = reqs[r].t,
         rq.at \in {"checkout", "rebase", "abort"} =>
           reqs[r].at \in {"checkout", "rebase", "abort"} /\ rq.t = reqs[r].t
  PROVE  IInv'
<1>1. RequestsRight' /\ reqs'[r] = rq /\ \A q \in Requests \ {r} : Unmoved(q)
  BY RequestMoves DEF IInv, WorkInv
<1>2. \A q \in Requests : reqs[q].at = "delete" => Unmoved(q)
  BY <1>1 DEF Unmoved
<1>3. ArchiveRight'
  BY <1>2, ArchiveStays DEF IInv, WorkInv
<1>4. \A q \in Requests, t \in Names : Syncing(q, t)' => Syncing(q, t)
  BY <1>1 DEF Syncing, Unmoved
<1>5. OverlapsSeen'
  BY <1>4, OverlapsStay DEF IInv
<1> QED
  BY <1>1, <1>3, <1>5, Together

\* ... or it begins the sync of a worktree.
LEMMA StartKeeps ==
  ASSUME IInv, MadeRight', made'.patches = made.patches, UNCHANGED <<refs, trees, archived, stale>>,
         NEW r \in Requests, reqs[r].at # "delete",
         NEW t \in Trees, NEW mass \in BOOLEAN, NEW rest \in SUBSET Names,
         Become(r, Started(r, t, mass, rest)), Mix(r, t)
  PROVE  IInv'
<1> DEFINE rq == Started(r, t, mass, rest)
<1>1. t \in Names
  BY DEF IInv, WorkInv, TreesRight
<1>2. Request(rq) /\ rq.t = t /\ rq.at \in {"next", "idle", "checkout"} /\ (rq.at = "checkout" => Plan(t) # << >>)
  BY <1>1, StartedIs
<1>3. rq.at = "checkout" => trees[t].rebase = NoRebase
  BY <1>2, PlanOfBranch, TreeIs DEF IInv, WorkInv
<1> HIDE DEF rq
<1>4. RequestsRight' /\ reqs'[r] = rq /\ \A q \in Requests \ {r} : Unmoved(q)
  BY <1>2, RequestMoves DEF IInv, WorkInv, rq
<1>5. RefsRight' /\ PatchesStay
  BY RefsSame DEF IInv, WorkInv
<1>6. TreesRight' /\ Trees' = Trees
  BY TreesStay DEF IInv, WorkInv, TreesRight, refs
<1>7. \A q \in Requests : reqs[q].at = "delete" => Unmoved(q)
  BY <1>4
<1>8. ArchiveRight'
  BY <1>6, <1>7, ArchiveStays DEF IInv, WorkInv
<1>9. OverlapsSeen'
  <2>1. /\ mixed \subseteq mixed'
        /\ (\E q \in Requests \ {r} : Syncing(q, t)) => t \in mixed'
    BY DEF Mix
  <2>2. \A q \in Requests \ {r}, x \in Names : Syncing(q, x)' <=> Syncing(q, x)
    BY <1>4 DEF Syncing, Unmoved
  <2>3. \A x \in Names : Syncing(r, x)' => x = t /\ trees[t].rebase = NoRebase
    BY <1>2, <1>3, <1>4 DEF Syncing
  <2>4. UNCHANGED trees /\ Trees' = Trees
    BY <1>6
  <2> SUFFICES ASSUME NEW q \in Requests, NEW x \in Names, Syncing(q, x)', x \notin mixed'
               PROVE  /\ \A p \in Requests \ {q} : ~ Syncing(p, x)'
                      /\ x \in Trees /\ trees[x].rebase # NoRebase => trees[x].rebase.by = q
    BY <2>4 DEF OverlapsSeen
  <2>5. CASE q = r
    BY <2>1, <2>2, <2>3, <2>5
  <2>6. CASE q # r
    <3>1. Syncing(q, x) /\ x \notin mixed
      BY <2>1, <2>2, <2>6
    <3>2. /\ \A p \in Requests \ {q} : ~ Syncing(p, x)
          /\ x \in Trees /\ trees[x].rebase # NoRebase => trees[x].rebase.by = q
      BY <3>1 DEF IInv, OverlapsSeen
    <3>3. x # t
      BY <2>1, <2>6, <3>1
    <3> QED
      BY <2>2, <2>3, <3>2, <3>3
  <2> QED
    BY <2>5, <2>6
<1> QED
  BY <1>4, <1>5, <1>6, <1>8, <1>9, Together

LEMMA KeepEdit ==
  ASSUME IInv, NEW t \in Trees, Edit(t)
  PROVE  IInv'
<1>1. RefsRight' /\ PatchesStay /\ MadeRight'
  BY MadeStep, RefsSame DEF Edit, IInv, WorkInv
<1>2. TreesRight' /\ Trees' = Trees /\ RebasesStay
  BY TreesDirty DEF Edit, refs, IInv, WorkInv
<1>3. reqs' = Disturbed /\ archived' = archived /\ stale' = stale /\ mixed' = mixed
  BY DEF Edit, hist
<1> QED
  BY <1>1, <1>2, <1>3, OutsideKeeps

LEMMA KeepCommit ==
  ASSUME IInv, NEW t \in Trees, Commit(t)
  PROVE  IInv'
<1>1. RefsRight' /\ MadeRight' /\ PatchesStay /\ DOMAIN heads' = DOMAIN heads
  BY RefsCommit DEF IInv, WorkInv
<1>2. TreesRight' /\ Trees' = Trees /\ RebasesStay
  BY <1>1, TreesDirty DEF Commit, IInv, WorkInv
<1>3. reqs' = Disturbed /\ archived' = archived /\ stale' = stale /\ mixed' = mixed
  BY DEF Commit
<1> QED
  BY <1>1, <1>2, <1>3, OutsideKeeps

LEMMA KeepContinue ==
  ASSUME IInv, NEW t \in Trees, Continue(t)
  PROVE  IInv'
<1> DEFINE b == trees[t].rebase.of
<1>1. RefsRight /\ TreesRight /\ MadeRight
  BY DEF IInv, WorkInv
<1>2. trees[t].rebase # NoRebase /\ b \in DOMAIN heads /\ trees[t].onto \in Seq(Nat)
  BY <1>1, TreeIs DEF Continue, Worktree
<1>3. heads' = [heads EXCEPT ![b] = Rebased(@, trees[t].onto)] /\ trees' = Restored(t)
  BY DEF Continue, Restored
<1>4. /\ UNCHANGED <<track, remotes, origin, made>> /\ reqs' = Disturbed
      /\ archived' = archived /\ stale' = stale /\ mixed' = mixed
  BY DEF Continue, hist
<1>5. MadeRight' /\ made'.patches = made.patches
  BY <1>1, <1>4, MadeStep
<1>6. RefsRight' /\ PatchesStay /\ DOMAIN heads' = DOMAIN heads
  BY <1>1, <1>2, <1>3, <1>4, <1>5, RefsRebased
<1>7. TreesRight' /\ Trees' = Trees /\ RebasesStay
  BY <1>1, <1>2, <1>3, <1>6, TreeRestored
<1> QED
  BY <1>4, <1>5, <1>6, <1>7, OutsideKeeps

LEMMA KeepGiveUp ==
  ASSUME IInv, NEW t \in Trees, GiveUp(t)
  PROVE  IInv'
<1>1. RefsRight' /\ PatchesStay /\ MadeRight'
  BY MadeStep, RefsSame DEF GiveUp, IInv, WorkInv
<1>2. TreesRight' /\ Trees' = Trees /\ RebasesStay
  BY TreeRestored DEF GiveUp, refs, IInv, WorkInv
<1>3. reqs' = Disturbed /\ archived' = archived /\ stale' = stale /\ mixed' = mixed
  BY DEF GiveUp, hist
<1> QED
  BY <1>1, <1>2, <1>3, OutsideKeeps

LEMMA KeepStackBranch ==
  ASSUME IInv, NEW t \in Trees, NEW b \in Names, StackBranch(t, b)
  PROVE  IInv'
<1> DEFINE u == trees[t].at
<1>1. RefsRight /\ TreesRight /\ MadeRight
  BY DEF IInv, WorkInv
<1>2. u # Detached /\ u \in DOMAIN heads /\ trees[t].rebase = NoRebase
  BY <1>1, TreeIs DEF StackBranch
<1>3. /\ ~ Exists(b) /\ heads' = With(heads, b, heads[u]) /\ track' = [track EXCEPT ![b] = u]
      /\ UNCHANGED <<remotes, origin>> /\ Event
      /\ trees' = [trees EXCEPT ![t].at = b]
  BY DEF StackBranch
<1>4. MadeRight' /\ made'.patches = made.patches
  BY <1>1, <1>3, MadeStep
<1>5. RefsRight' /\ PatchesStay /\ DOMAIN heads' = DOMAIN heads \cup {b}
  BY <1>1, <1>2, <1>3, <1>4, BranchMade
<1>6. b \in DOMAIN heads' /\ DOMAIN heads \subseteq DOMAIN heads' /\ (b \in DOMAIN heads => UsedIn(b) \subseteq {t})
  BY <1>3, <1>5 DEF Exists
<1>7. TreesRight' /\ Trees' = Trees /\ RebasesStay
  BY <1>1, <1>2, <1>3, <1>6, TreeChecksOut
<1>8. reqs' = Disturbed /\ archived' = archived /\ stale' = stale /\ mixed \subseteq mixed'
  BY DEF StackBranch
<1> QED
  BY <1>4, <1>5, <1>7, <1>8, OutsideKeeps

LEMMA KeepSwitch ==
  ASSUME IInv, NEW t \in Trees, NEW b \in DOMAIN heads \ {Main}, Switch(t, b)
  PROVE  IInv'
<1>1. RefsRight' /\ PatchesStay /\ MadeRight'
  BY MadeStep, RefsSame DEF Switch, IInv, WorkInv
<1>2. trees[t].rebase = NoRebase /\ b \in Names /\ UsedIn(b) \subseteq {t} /\ DOMAIN heads' = DOMAIN heads
  BY TreeIs DEF Switch, IInv, WorkInv, RefsRight, refs
<1>3. TreesRight' /\ Trees' = Trees /\ RebasesStay
  BY <1>2, TreeChecksOut DEF Switch, IInv, WorkInv
<1>4. reqs' = Disturbed /\ archived' = archived /\ stale' = stale /\ mixed \subseteq mixed'
  BY DEF Switch
<1> QED
  BY <1>1, <1>3, <1>4, OutsideKeeps

\* Steps that leave the worktrees and the branches in use alone.
LEMMA TreesSame ==
  ASSUME IInv, UNCHANGED trees, DOMAIN heads \subseteq DOMAIN heads'
  PROVE  TreesRight' /\ Trees' = Trees /\ RebasesStay
BY TreesStay DEF IInv, WorkInv, TreesRight

LEMMA KeepPush ==
  ASSUME IInv, NEW b \in DOMAIN heads \ {Main}, Push(b)
  PROVE  IInv'
<1>1. RefsRight' /\ MadeRight' /\ PatchesStay /\ DOMAIN heads' = DOMAIN heads
  BY RefsPush DEF IInv, WorkInv
<1>2. /\ UNCHANGED trees /\ reqs' = Disturbed /\ archived' = archived /\ stale' = stale
      /\ mixed \subseteq mixed'
  BY DEF Push
<1>3. TreesRight' /\ Trees' = Trees /\ RebasesStay
  BY <1>1, <1>2, TreesSame
<1> QED
  BY <1>1, <1>2, <1>3, OutsideKeeps

LEMMA KeepRemote ==
  ASSUME IInv, NEW b \in DOMAIN remotes, MergeRemote(b) \/ DeleteRemote(b)
  PROVE  IInv'
<1>1. RefsRight' /\ MadeRight' /\ PatchesStay
  BY RefsMergeRemote, RefsDeleteRemote DEF IInv, WorkInv
<1>2. /\ UNCHANGED <<trees, heads>> /\ (reqs' = Disturbed \/ UNCHANGED reqs)
      /\ archived' = archived /\ stale' = stale /\ mixed' = mixed
  BY DEF MergeRemote, DeleteRemote, hist
<1>3. TreesRight' /\ Trees' = Trees /\ RebasesStay
  BY <1>2, TreesSame
<1> QED
  BY <1>1, <1>2, <1>3, OutsideKeeps

LEMMA KeepMergeOther ==
  ASSUME IInv, MergeOther
  PROVE  IInv'
<1>1. RefsRight' /\ MadeRight' /\ PatchesStay
  BY RefsMergeOther DEF IInv, WorkInv
<1>2. /\ UNCHANGED <<trees, heads>> /\ UNCHANGED reqs
      /\ archived' = archived /\ stale' = stale /\ mixed' = mixed
  BY DEF MergeOther
<1>3. TreesRight' /\ Trees' = Trees /\ RebasesStay
  BY <1>2, TreesSame
<1> QED
  BY <1>1, <1>2, <1>3, OutsideKeeps

LEMMA KeepPullMain ==
  ASSUME IInv, PullMain
  PROVE  IInv'
<1>1. RefsRight' /\ MadeRight' /\ PatchesStay /\ DOMAIN heads' = DOMAIN heads
  BY RefsPullMain DEF IInv, WorkInv
<1>2. UNCHANGED trees /\ reqs' = Disturbed /\ archived' = archived /\ stale' = stale /\ mixed' = mixed
  BY DEF PullMain, hist
<1>3. TreesRight' /\ Trees' = Trees /\ RebasesStay
  BY <1>1, <1>2, TreesSame
<1> QED
  BY <1>1, <1>2, <1>3, OutsideKeeps

LEMMA KeepCreateWorkstream ==
  ASSUME IInv, NEW n \in Names, CreateWorkstream(n)
  PROVE  IInv'
<1>1. RefsRight /\ TreesRight /\ MadeRight /\ Main \in DOMAIN heads
  BY DEF IInv, WorkInv, RefsRight
<1>2. /\ ~ Exists(n) /\ n \notin Trees /\ heads' = With(heads, n, heads[Main])
      /\ track' = [track EXCEPT ![n] = Main] /\ UNCHANGED <<remotes, origin>>
      /\ trees' = With(trees, n, CleanTree(n))
      /\ made' = [made EXCEPT !.events = @ + 1, !.names = @ \cup {n}]
  BY DEF CreateWorkstream
<1>3. MadeRight' /\ made'.patches = made.patches
  <2> DEFINE names == made.names \cup {n}
             events == made.events + 1
  <2>1. names \in SUBSET Names /\ events \in Nat
    BY <1>1 DEF MadeRight
  <2>2. made' = [made EXCEPT !.events = events, !.names = names]
    BY <1>2
  <2> HIDE DEF names, events
  <2> QED
    BY <1>1, <2>1, <2>2 DEF MadeRight
<1>4. RefsRight' /\ PatchesStay /\ DOMAIN heads' = DOMAIN heads \cup {n}
  BY <1>1, <1>2, <1>3, BranchMade
<1>5. TreesRight' /\ Trees' = Trees \cup {n} /\ RebasesStay
  BY <1>1, <1>2, <1>4, TreeMade DEF Exists
<1>6. reqs' = Disturbed /\ archived' = archived /\ stale' = stale /\ mixed \subseteq mixed'
  BY DEF CreateWorkstream
<1> QED
  BY <1>3, <1>4, <1>5, <1>6, OutsideKeeps

LEMMA KeepUnarchive ==
  ASSUME IInv, NEW t \in Names, UnarchiveWorkstream(t)
  PROVE  IInv'
<1>1. RefsRight' /\ PatchesStay /\ MadeRight'
  BY MadeStep, RefsSame DEF UnarchiveWorkstream, IInv, WorkInv
<1>2. /\ UNCHANGED <<trees, heads, reqs>>
      /\ archived' \subseteq archived /\ stale' = stale /\ mixed' = mixed
  BY DEF UnarchiveWorkstream, refs, hist
<1>3. TreesRight' /\ Trees' = Trees /\ RebasesStay
  BY <1>2, TreesSame
<1> QED
  BY <1>1, <1>2, <1>3, OutsideKeeps

LEMMA KeepArchive ==
  ASSUME IInv, NEW t \in Names, ArchiveWorkstream(t)
  PROVE  IInv'
<1>1. RefsRight' /\ PatchesStay /\ MadeRight'
  BY MadeStep, RefsSame DEF ArchiveWorkstream, IInv, WorkInv
<1>2. UNCHANGED <<trees, heads, reqs, mixed>>
  BY DEF ArchiveWorkstream, refs
<1>3. TreesRight' /\ Trees' = Trees /\ RebasesStay
  BY <1>2, TreesSame
<1>4. RequestsRight' /\ \A q \in Requests : Unmoved(q)
  BY <1>2, RequestsDisturbed DEF IInv, WorkInv
<1>5. /\ archived' = archived \cup {t} /\ stale \subseteq stale' /\ (t \notin Trees => t \in stale')
      /\ t \in Names
  BY DEF ArchiveWorkstream
<1>6. ArchiveRight'
  BY <1>2, <1>3, <1>5 DEF ArchiveRight, ArchivedExist, IInv, WorkInv
<1>7. \A q \in Requests, x \in Names : Syncing(q, x)' => Syncing(q, x)
  BY <1>2 DEF Syncing
<1>8. OverlapsSeen'
  BY <1>2, <1>3, <1>7, OverlapsStay DEF IInv
<1> QED
  BY <1>1, <1>3, <1>4, <1>6, <1>8, Together

-----------------------------------------------------------------------------
(* The steps of the requests.                                              *)

LEMMA RefsAlone ==
  ASSUME IInv, UNCHANGED refs, NewRequest \/ UNCHANGED made
  PROVE  RefsRight' /\ PatchesStay /\ MadeRight' /\ made'.patches = made.patches /\ DOMAIN heads' = DOMAIN heads
BY MadeStep, RefsSame DEF IInv, WorkInv, refs

LEMMA ReqIs ==
  ASSUME IInv, NEW r \in Requests
  PROVE  Request(reqs[r])
BY DEF IInv, WorkInv, RequestsRight

\* A request that changes nothing but itself.
LEMMA RequestAlone ==
  ASSUME IInv, UNCHANGED <<refs, trees, archived, stale, mixed>>, NewRequest \/ UNCHANGED made,
         NEW r \in Requests, NEW rq, Request(rq), Become(r, rq), reqs[r].at # "delete",
         rq.at \in {"checkout", "rebase", "abort"} =>
           reqs[r].at \in {"checkout", "rebase", "abort"} /\ rq.t = reqs[r].t
  PROVE  IInv'
<1>1. RefsRight' /\ PatchesStay /\ MadeRight' /\ DOMAIN heads' = DOMAIN heads
  BY RefsAlone
<1>2. TreesRight' /\ Trees' = Trees /\ RebasesStay
  BY <1>1, TreesSame
<1> QED
  BY <1>1, <1>2, RequestKeeps

LEMMA KeepRebaseWorkstream ==
  ASSUME IInv, NEW r \in Requests, NEW t \in Trees, RebaseWorkstream(r, t)
  PROVE  IInv'
<1>1. MadeRight' /\ made'.patches = made.patches
  BY RefsAlone DEF RebaseWorkstream
<1>2. UNCHANGED <<refs, trees, archived, stale>> /\ reqs[r].at # "delete" /\ Mix(r, t)
  BY DEF RebaseWorkstream
<1>3. Become(r, Started(r, t, FALSE, {})) /\ FALSE \in BOOLEAN /\ {} \in SUBSET Names
  BY DEF RebaseWorkstream
<1> QED
  BY <1>1, <1>2, <1>3, StartKeeps

LEMMA KeepMassSync ==
  ASSUME IInv, NEW r \in Requests, MassSync(r)
  PROVE  IInv'
<1> DEFINE rest == {t \in Trees : HasBehind(t)}
           rq == [Idle EXCEPT !.at = "next", !.mass = TRUE, !.rest = rest]
<1>1. rest \in SUBSET Names
  BY DEF IInv, WorkInv, TreesRight
<1>2. reqs[r].at = "idle" /\ Become(r, rq) /\ UNCHANGED <<refs, trees, archived, stale, mixed>> /\ NewRequest
  BY DEF MassSync, hist
<1> HIDE DEF rest
<1>3. Request(rq) /\ rq.at = "next"
  BY <1>1, RestIs
<1> HIDE DEF rq
<1> QED
  BY <1>2, <1>3, RequestAlone

LEMMA KeepNextWorkstream ==
  ASSUME IInv, NEW r \in Requests, NextWorkstream(r)
  PROVE  IInv'
<1>1. /\ reqs[r].at = "next" /\ UNCHANGED <<refs, trees, archived, author, stale, made>>
      /\ made'.patches = made.patches
  BY DEF NextWorkstream
<1>2. MadeRight'
  BY <1>1, RefsAlone
<1>3. Request(reqs[r]) /\ reqs[r].rest \in SUBSET Names
  BY ReqIs DEF Request
<1>4. CASE Become(r, Idle) /\ UNCHANGED mixed
  BY <1>1, <1>4, IdleIs, RequestAlone
<1>5. ASSUME NEW t \in Trees, Become(r, Started(r, t, TRUE, reqs[r].rest \ {t})), Mix(r, t)
      PROVE  IInv'
  <2>1. reqs[r].rest \ {t} \in SUBSET Names
    BY <1>3
  <2> QED
    BY <1>1, <1>2, <1>5, <2>1, StartKeeps
<1>6. ASSUME NEW t, Become(r, [reqs[r] EXCEPT !.rest = @ \ {t}]), UNCHANGED mixed
      PROVE  IInv'
  <2> DEFINE rq == [reqs[r] EXCEPT !.rest = @ \ {t}]
  <2>1. Request(rq) /\ rq.at = "next"
    BY <1>1, <1>3, RequestRest
  <2>2. Become(r, rq)
    BY <1>6
  <2> HIDE DEF rq
  <2> QED
    BY <1>1, <1>6, <2>1, <2>2, RequestAlone
<1>7. \/ Become(r, Idle) /\ UNCHANGED mixed
      \/ \E t : \/ t \in Trees /\ Become(r, Started(r, t, TRUE, reqs[r].rest \ {t})) /\ Mix(r, t)
                \/ Become(r, [reqs[r] EXCEPT !.rest = @ \ {t}]) /\ UNCHANGED mixed
  <2>1. CASE reqs[r].rest = {}
    BY <2>1 DEF NextWorkstream
  <2>2. CASE reqs[r].rest # {}
    BY <2>2 DEF NextWorkstream
  <2> QED
    BY <2>1, <2>2
<1> QED
  BY <1>4, <1>5, <1>6, <1>7

LEMMA KeepCheckout ==
  ASSUME IInv, NEW r \in Requests, Checkout(r)
  PROVE  IInv'
<1> DEFINE t == reqs[r].t
           b == Head(reqs[r].todo).name
           rq == [reqs[r] EXCEPT !.at = "rebase"]
<1>1. /\ reqs[r].at = "checkout" /\ UNCHANGED <<refs, archived, stale, mixed, made>> /\ UNCHANGED heads
  BY DEF Checkout, hist, refs
<1>2. Request(reqs[r])
  BY ReqIs
<1>3. CASE /\ CanCheckout(t, b) /\ trees' = [trees EXCEPT ![t].at = b]
           /\ Become(r, rq) \/ reqs' = Disturb(r, rq)
  <2>1. RefsRight' /\ PatchesStay /\ MadeRight' /\ DOMAIN heads' = DOMAIN heads
    BY <1>1, RefsAlone
  <2>2. t \in Trees /\ b \in DOMAIN heads /\ UsedIn(b) \subseteq {t} /\ trees[t].rebase = NoRebase
    BY <1>3 DEF CanCheckout, Exists
  <2>3. b \in Names
    <3>1. t # Main
      BY <2>2, WorkstreamsAssumption DEF IInv, WorkInv, TreesRight, Names, Main
    <3>2. b # Main
      BY <2>2, <3>1 DEF UsedIn
    <3> QED
      BY <2>2, <3>2 DEF IInv, WorkInv, RefsRight
  <2>4. trees' = [trees EXCEPT ![t].at = b]
    BY <1>3
  <2>5. TreesRight' /\ Trees' = Trees /\ RebasesStay
    BY <2>1, <2>2, <2>3, <2>4, TreeChecksOut DEF IInv, WorkInv
  <2>6. Request(rq) /\ rq.at = "rebase" /\ rq.t = reqs[r].t
    BY <1>2, RequestAt
  <2>7. Become(r, rq) \/ reqs' = Disturb(r, rq)
    BY <1>3
  <2> HIDE DEF rq, t, b
  <2> QED
    BY <1>1, <2>1, <2>5, <2>6, <2>7, RequestKeeps
<1>4. CASE Become(r, Over(reqs[r], FALSE)) /\ UNCHANGED trees
  <2>1. Request(Over(reqs[r], FALSE)) /\ Over(reqs[r], FALSE).at \in {"done", "next", "idle"}
    BY <1>2, OverIs
  <2> QED
    BY <1>1, <1>4, <2>1, RequestAlone
<1> QED
  BY <1>3, <1>4 DEF Checkout

LEMMA KeepSayDone ==
  ASSUME IInv, NEW r \in Requests, SayDone(r)
  PROVE  IInv'
<1>1. /\ reqs[r].at = "done" /\ UNCHANGED <<refs, trees, archived, stale, mixed, made>>
  BY DEF SayDone, hist
<1>2. Request(reqs[r])
  BY ReqIs
<1> DEFINE rq == [reqs[r] EXCEPT !.at = "next", !.t = None]
<1>3. Request(rq) /\ rq.at = "next"
  BY <1>2, RequestLeaves
<1>4. Become(r, rq) \/ Become(r, Idle)
  BY DEF SayDone
<1> HIDE DEF rq
<1>5. CASE Become(r, rq)
  BY <1>1, <1>3, <1>5, RequestAlone
<1>6. CASE Become(r, Idle)
  BY <1>1, <1>6, IdleIs, RequestAlone
<1> QED
  BY <1>4, <1>5, <1>6

LEMMA KeepShowPlan ==
  ASSUME IInv, NEW r \in Requests, ShowPlan(r)
  PROVE  IInv'
<1> DEFINE rest == {t \in Trees : AllWorkstreams[t].archived}
           rq == [Idle EXCEPT !.at = "planned", !.rest = rest]
<1>1. rest \in SUBSET Names
  BY DEF IInv, WorkInv, TreesRight
<1>2. reqs[r].at = "idle" /\ Become(r, rq) /\ UNCHANGED <<refs, trees, archived, stale, mixed>> /\ NewRequest
  BY DEF ShowPlan, hist
<1> HIDE DEF rest
<1>3. Request(rq) /\ rq.at = "planned"
  BY <1>1, RestIs
<1> HIDE DEF rq
<1> QED
  BY <1>2, <1>3, RequestAlone

LEMMA KeepCancel ==
  ASSUME IInv, NEW r \in Requests, Cancel(r)
  PROVE  IInv'
BY IdleIs, RequestAlone DEF Cancel, hist

LEMMA KeepPruneStack ==
  ASSUME IInv, NEW r \in Requests, PruneStack(r)
  PROVE  IInv'
<1>1. /\ reqs[r].at \in {"planned", "prune"} /\ UNCHANGED <<refs, trees, archived, stale, mixed, made>>
  BY DEF PruneStack, hist
<1>2. Request(reqs[r]) /\ reqs[r].rest \subseteq Names
  BY ReqIs DEF Request
<1>3. CASE Become(r, Idle)
  BY <1>1, <1>3, IdleIs, RequestAlone
<1>4. ASSUME NEW t \in reqs[r].rest, NEW s,
             Become(r, [reqs[r] EXCEPT !.at = "remove", !.t = t, !.rest = @ \ {t}, !.todo = s])
      PROVE  IInv'
  <2> DEFINE rq == [reqs[r] EXCEPT !.at = "remove", !.t = t, !.rest = @ \ {t}, !.todo = s]
  <2>1. Request(rq) /\ rq.at = "remove"
    BY <1>2, RequestPrunes
  <2>2. Become(r, rq)
    BY <1>4
  <2> HIDE DEF rq
  <2> QED
    BY <1>1, <2>1, <2>2, RequestAlone
<1>5. \/ Become(r, Idle)
      \/ \E t \in reqs[r].rest : \E s :
           Become(r, [reqs[r] EXCEPT !.at = "remove", !.t = t, !.rest = @ \ {t}, !.todo = s])
  BY DEF PruneStack
<1> QED
  BY <1>3, <1>4, <1>5

\* A rebase, of whatever branch the worktree has checked out by now.
LEMMA KeepRebaseDone ==
  ASSUME IInv, NEW r \in Requests, reqs[r].at = "rebase", NEW t \in Trees, NEW onto, CanRebase(t, onto),
         RebaseDone(r, t, onto), UNCHANGED <<track, remotes, origin, archived, hist, made>>
  PROVE  IInv'
<1> DEFINE b == trees[t].at
           rest == Tail(reqs[r].todo)
           rq == IF rest = <<>> THEN Over(reqs[r], TRUE) ELSE [reqs[r] EXCEPT !.at = "checkout", !.todo = rest]
<1>1. RefsRight /\ TreesRight /\ MadeRight /\ Request(reqs[r])
  BY ReqIs DEF IInv, WorkInv
<1>2. trees[t].rebase = NoRebase /\ onto \in DOMAIN heads
  BY DEF CanRebase, Exists
<1>3. b \in DOMAIN heads /\ heads[onto] \in Seq(Nat)
  BY <1>1, <1>2, TreeIs DEF RefsRight, TreesRight
<1>4. /\ heads' = [heads EXCEPT ![b] = Rebased(@, heads[onto])] /\ UNCHANGED trees
      /\ Become(r, rq) \/ reqs' = Disturb(r, rq)
  BY DEF RebaseDone
<1>5. MadeRight' /\ made'.patches = made.patches
  BY <1>1, MadeStep
<1>6. RefsRight' /\ PatchesStay /\ DOMAIN heads' = DOMAIN heads
  BY <1>1, <1>3, <1>4, <1>5, RefsRebased
<1>7. TreesRight' /\ Trees' = Trees /\ RebasesStay
  BY <1>4, <1>6, TreesSame
<1>8. Request(rq) /\ (rq.at \in {"checkout", "rebase", "abort"} => rq.t = reqs[r].t)
  <2>1. Request(Over(reqs[r], TRUE)) /\ Over(reqs[r], TRUE).at \in {"done", "next", "idle"}
    BY <1>1, OverIs
  <2> HIDE DEF rest
  <2>2. LET n == [reqs[r] EXCEPT !.at = "checkout", !.todo = rest] IN Request(n) /\ n.t = reqs[r].t
    BY <1>1, RequestAtTodo
  <2> QED
    BY <2>1, <2>2
<1>9. UNCHANGED <<archived, stale, mixed>>
  BY DEF hist
<1> HIDE DEF rq, rest, b
<1> QED
  BY <1>4, <1>5, <1>6, <1>7, <1>8, <1>9, RequestKeeps

\* A conflict: the rebase is r's, and so is every sync known to be here.
LEMMA KeepStopped ==
  ASSUME IInv, NEW r \in Requests, reqs[r].at = "rebase", NEW t \in Trees, reqs[r].t = t, NEW onto, CanRebase(t, onto),
         Stopped(r, t, onto), UNCHANGED <<track, remotes, origin, archived, hist, made>>
  PROVE  IInv'
<1> DEFINE rq == IF reqs[r].mass THEN [reqs[r] EXCEPT !.at = "abort"] ELSE Over(reqs[r], FALSE)
           w == [at |-> Detached, dirty |-> TRUE, onto |-> heads[onto],
                 rebase |-> [of |-> trees[t].at, by |-> r]]
<1>1. RefsRight /\ TreesRight /\ MadeRight /\ RequestsRight /\ ArchiveRight /\ OverlapsSeen /\ Request(reqs[r])
  BY ReqIs DEF IInv, WorkInv
<1>2. trees[t].at # Detached /\ heads[onto] \in Seq(Nat)
  BY <1>1 DEF CanRebase, Exists, RefsRight, TreesRight
<1>3. /\ trees' = [trees EXCEPT ![t] = w] /\ UNCHANGED heads /\ reqs' = Disturb(r, rq)
      /\ UNCHANGED <<refs, archived, stale, mixed, made>>
  BY DEF Stopped, hist, refs
<1>4. RefsRight' /\ PatchesStay /\ MadeRight'
  BY <1>3, RefsAlone
<1>5. TreesRight' /\ Trees' = Trees
  BY <1>1, <1>2, <1>3, TreeDetached
<1>6. Request(rq) /\ rq.at # "delete" /\ (rq.at \in {"checkout", "rebase", "abort"} => rq.t = t)
  <2>1. Request(Over(reqs[r], FALSE)) /\ Over(reqs[r], FALSE).at \in {"done", "next", "idle"}
    BY <1>1, OverIs
  <2>2. LET n == [reqs[r] EXCEPT !.at = "abort"] IN Request(n) /\ n.at = "abort" /\ n.t = reqs[r].t
    BY <1>1, RequestAt
  <2> QED
    BY <2>1, <2>2
<1>7. trees'[t].rebase.by = r /\ \A x \in Trees \ {t} : trees'[x] = trees[x]
  BY <1>1, <1>3 DEF TreesRight
<1> HIDE DEF rq, w
<1>8. RequestsRight' /\ reqs'[r] = rq /\ \A q \in Requests \ {r} : Unmoved(q)
  BY <1>1, <1>3, <1>6, RequestMoves
<1>9. ArchiveRight'
  <2>1. \A q \in Requests : reqs[q].at = "delete" => Unmoved(q)
    BY <1>8
  <2> QED
    BY <1>1, <1>3, <1>5, <2>1, ArchiveStays
<1>10. OverlapsSeen'
  <2>1. \A q \in Requests, x \in Names : Syncing(q, x)' => Syncing(q, x)
    BY <1>6, <1>8 DEF Syncing, Unmoved
  <2>2. Syncing(r, t)
    BY DEF Syncing
  <2> SUFFICES ASSUME NEW q \in Requests, NEW x \in Names, Syncing(q, x)', x \notin mixed'
               PROVE  /\ \A p \in Requests \ {q} : ~ Syncing(p, x)'
                      /\ x \in Trees' /\ trees'[x].rebase # NoRebase => trees'[x].rebase.by = q
    BY DEF OverlapsSeen
  <2>3. Syncing(q, x) /\ x \notin mixed
    BY <1>3, <2>1
  <2>4. /\ \A p \in Requests \ {q} : ~ Syncing(p, x)
        /\ x \in Trees /\ trees[x].rebase # NoRebase => trees[x].rebase.by = q
    BY <1>1, <2>3 DEF OverlapsSeen
  <2>5. CASE x = t
    <3>1. q = r
      BY <2>2, <2>4, <2>5
    <3> QED
      BY <1>7, <2>1, <2>4, <2>5, <3>1
  <2>6. CASE x # t
    BY <1>5, <1>7, <2>1, <2>4, <2>6
  <2> QED
    BY <2>5, <2>6
<1> QED
  BY <1>4, <1>5, <1>8, <1>9, <1>10, Together

LEMMA KeepRebase ==
  ASSUME IInv, NEW r \in Requests, Rebase(r)
  PROVE  IInv'
<1> DEFINE t == reqs[r].t
           onto == Head(reqs[r].todo).onto
           rq == IF reqs[r].mass THEN [reqs[r] EXCEPT !.at = "abort"] ELSE Over(reqs[r], FALSE)
<1>1. reqs[r].at = "rebase" /\ UNCHANGED <<track, remotes, origin, archived, hist, made>>
  BY DEF Rebase
<1>2. CanRebase(t, onto) => t \in Trees
  BY DEF CanRebase
<1>3. CASE CanRebase(t, onto) /\ RebaseDone(r, t, onto)
  BY <1>1, <1>2, <1>3, KeepRebaseDone
<1>4. CASE CanRebase(t, onto) /\ Stopped(r, t, onto)
  BY <1>1, <1>2, <1>4, KeepStopped
<1>5. CASE Become(r, rq) /\ UNCHANGED <<heads, trees>>
  <2>1. Request(rq) /\ (rq.at \in {"checkout", "rebase", "abort"} => rq.t = reqs[r].t)
    BY ReqIs, OverIs, RequestAt
  <2>2. UNCHANGED <<refs, trees, archived, stale, mixed, made>> /\ Become(r, rq)
    BY <1>1, <1>5 DEF refs, hist
  <2> HIDE DEF rq
  <2> QED
    BY <1>1, <2>1, <2>2, RequestAlone
<1> QED
  BY <1>3, <1>4, <1>5 DEF Rebase

LEMMA KeepAbortRebase ==
  ASSUME IInv, NEW r \in Requests, AbortRebase(r)
  PROVE  IInv'
<1> DEFINE t == reqs[r].t
           rq == Over(reqs[r], FALSE)
<1>1. reqs[r].at = "abort" /\ UNCHANGED <<refs, archived, stale, mixed, made>>
  BY DEF AbortRebase, hist
<1>2. Request(rq) /\ rq.at \in {"done", "next", "idle"}
  BY ReqIs, OverIs
<1>3. CASE t \in Trees /\ trees[t].rebase # NoRebase /\ trees' = Restored(t) /\ reqs' = Disturb(r, rq)
  <2>1. RefsRight' /\ PatchesStay /\ MadeRight' /\ DOMAIN heads' = DOMAIN heads
    BY <1>1, RefsAlone
  <2>2. TreesRight' /\ Trees' = Trees /\ RebasesStay
    BY <1>3, <2>1, TreeRestored DEF IInv, WorkInv
  <2> QED
    BY <1>1, <1>2, <1>3, <2>1, <2>2, RequestKeeps
<1>4. CASE Become(r, rq) /\ UNCHANGED trees
  BY <1>1, <1>2, <1>4, RequestAlone
<1> QED
  BY <1>3, <1>4 DEF AbortRebase

LEMMA KeepRemoveWorktree ==
  ASSUME IInv, NEW r \in Requests, RemoveWorktree(r)
  PROVE  IInv'
<1> DEFINE t == reqs[r].t
<1>1. reqs[r].at = "remove" /\ UNCHANGED <<refs, archived, stale, mixed, made>> /\ UNCHANGED heads
  BY DEF RemoveWorktree, hist, refs
<1>2. Request(reqs[r])
  BY ReqIs
<1>3. CASE t \in Trees /\ trees' = Without(trees, t) /\ reqs' = Disturb(r, [reqs[r] EXCEPT !.at = "delete"])
  <2> DEFINE rq == [reqs[r] EXCEPT !.at = "delete"]
  <2>1. Request(rq) /\ rq.at = "delete" /\ rq.t = t
    BY <1>2, RequestAt
  <2>2. RefsRight' /\ PatchesStay /\ MadeRight'
    BY <1>1, RefsAlone
  <2>3. TreesRight' /\ Trees' = Trees \ {t} /\ RebasesStay
    BY <1>1, <1>3, TreeRemoved DEF IInv, WorkInv
  <2>4. RequestsRight' /\ reqs'[r] = rq /\ \A q \in Requests \ {r} : Unmoved(q)
    BY <1>3, <2>1, RequestMoves DEF IInv, WorkInv
  <2>5. ArchiveRight'
    <3>1. archived' \subseteq Names
      BY <1>1 DEF IInv, WorkInv, ArchiveRight
    <3>2. ASSUME NEW x \in archived'
          PROVE  \/ x \in Trees' \/ x \in stale'
                 \/ \E q \in Requests : reqs'[q].at = "delete" /\ reqs'[q].t = x
      <4>1. \/ x \in Trees \/ x \in stale
            \/ \E q \in Requests : reqs[q].at = "delete" /\ reqs[q].t = x
        BY <1>1, <3>2 DEF IInv, WorkInv, ArchiveRight, ArchivedExist
      <4>2. CASE x \in Trees
        BY <2>1, <2>3, <2>4, <4>2
      <4>3. CASE x \in stale
        BY <1>1, <4>3
      <4>4. CASE \E q \in Requests : reqs[q].at = "delete" /\ reqs[q].t = x
        BY <1>1, <2>4, <4>4 DEF Unmoved
      <4> QED
        BY <4>1, <4>2, <4>3, <4>4
    <3> QED
      BY <3>1, <3>2 DEF ArchiveRight, ArchivedExist
  <2>6. \A q \in Requests, x \in Names : Syncing(q, x)' => Syncing(q, x)
    BY <2>1, <2>4 DEF Syncing, Unmoved
  <2>7. OverlapsSeen'
    BY <1>1, <2>3, <2>6, OverlapsStay DEF IInv
  <2> QED
    BY <2>2, <2>3, <2>4, <2>5, <2>7, Together
<1>4. CASE Become(r, [reqs[r] EXCEPT !.at = "prune"]) /\ UNCHANGED trees
  <2> DEFINE rq == [reqs[r] EXCEPT !.at = "prune"]
  <2>1. Request(rq) /\ rq.at = "prune"
    BY <1>2, RequestAt
  <2>2. Become(r, rq)
    BY <1>4
  <2> HIDE DEF rq
  <2> QED
    BY <1>1, <1>4, <2>1, <2>2, RequestAlone
<1> QED
  BY <1>3, <1>4 DEF RemoveWorktree

LEMMA KeepDeleteBranch ==
  ASSUME IInv, NEW r \in Requests, DeleteBranch(r)
  PROVE  IInv'
<1> DEFINE rq == [reqs[r] EXCEPT !.todo = Tail(@)]
<1>1. /\ reqs[r].at = "delete" /\ UNCHANGED <<trees, archived, stale, mixed, made>>
      /\ Become(r, rq) \/ reqs' = Disturb(r, rq)
  BY DEF DeleteBranch, hist
<1>2. Request(rq) /\ rq.at = "delete" /\ rq.t = reqs[r].t
  BY <1>1, ReqIs, RequestTodo
<1>3. /\ RefsRight' /\ MadeRight' /\ PatchesStay
      /\ \/ UNCHANGED <<heads, track>>
         \/ \E b \in Names : UsedIn(b) = {} /\ DOMAIN heads' = DOMAIN heads \ {b}
  BY RefsDeleteBranch DEF IInv, WorkInv
<1>4. \A t \in Trees : Held(t) \in DOMAIN heads'
  <2>1. \A t \in Trees : Held(t) \in DOMAIN heads
    BY DEF IInv, WorkInv, TreesRight
  <2>2. ASSUME NEW b \in Names, UsedIn(b) = {}, DOMAIN heads' = DOMAIN heads \ {b}, NEW t \in Trees
        PROVE  Held(t) \in DOMAIN heads'
    <3>1. Held(t) # b
      BY <2>1, <2>2, UsedBy DEF IInv, WorkInv
    <3> QED
      BY <2>1, <2>2, <3>1
  <2> QED
    BY <1>3, <2>1, <2>2
<1>5. TreesRight' /\ Trees' = Trees /\ RebasesStay
  BY <1>1, <1>4, TreesStay DEF IInv, WorkInv
<1> HIDE DEF rq
<1> QED
  BY <1>1, <1>2, <1>3, <1>5, RequestKeeps

LEMMA KeepForgetArchived ==
  ASSUME IInv, NEW r \in Requests, ForgetArchived(r)
  PROVE  IInv'
<1> DEFINE rq == [reqs[r] EXCEPT !.at = "prune", !.t = None]
<1>1. /\ reqs[r].at = "delete" /\ UNCHANGED <<refs, trees, stale, mixed, made>>
      /\ archived' = archived \ {reqs[r].t} /\ Become(r, rq)
  BY DEF ForgetArchived, hist
<1>2. Request(rq) /\ rq.at = "prune"
  BY ReqIs, RequestLeaves
<1>3. RefsRight' /\ PatchesStay /\ MadeRight' /\ DOMAIN heads' = DOMAIN heads
  BY <1>1, RefsAlone
<1>4. TreesRight' /\ Trees' = Trees /\ RebasesStay
  BY <1>1, <1>3, TreesSame
<1> HIDE DEF rq
<1>5. RequestsRight' /\ reqs'[r] = rq /\ \A q \in Requests \ {r} : Unmoved(q)
  BY <1>1, <1>2, RequestMoves DEF IInv, WorkInv
<1>6. ArchiveRight'
  <2>1. archived' \subseteq Names
    BY <1>1 DEF IInv, WorkInv, ArchiveRight
  <2>2. ASSUME NEW x \in archived'
        PROVE  \/ x \in Trees' \/ x \in stale'
               \/ \E q \in Requests : reqs'[q].at = "delete" /\ reqs'[q].t = x
    <3>1. /\ x # reqs[r].t
          /\ \/ x \in Trees \/ x \in stale
             \/ \E q \in Requests : reqs[q].at = "delete" /\ reqs[q].t = x
      BY <1>1, <2>2 DEF IInv, WorkInv, ArchiveRight, ArchivedExist
    <3> QED
      BY <1>1, <1>4, <1>5, <3>1 DEF Unmoved
  <2> QED
    BY <2>1, <2>2 DEF ArchiveRight, ArchivedExist
<1>7. \A q \in Requests, x \in Names : Syncing(q, x)' => Syncing(q, x)
  BY <1>2, <1>5 DEF Syncing, Unmoved
<1>8. OverlapsSeen'
  BY <1>1, <1>4, <1>7, OverlapsStay DEF IInv
<1> QED
  BY <1>3, <1>4, <1>5, <1>6, <1>8, Together

-----------------------------------------------------------------------------
(* The theorems.                                                           *)

LEMMA InvInit ==
  Init => IInv
<1> SUFFICES ASSUME Init
             PROVE  IInv
  OBVIOUS
<1>1. RefsRight
  <2>1. << >> \in Seq(Nat) /\ << >> \in [{} -> Seq(Nat)] /\ DOMAIN << >> = {}
    OBVIOUS
  <2>2. heads = [b \in {Main} |-> << >>] /\ track = [b \in Names |-> None] /\ remotes = << >> /\ origin = << >>
    BY DEF Init
  <2>3. \A b \in Names : None # b
    BY WorkstreamsAssumption DEF Names, None
  <2> QED
    BY <2>1, <2>2, <2>3 DEF RefsRight
<1>2. MadeRight
  BY DEF Init, MadeRight
<1>3. TreesRight
  <2>1. trees = << >> /\ << >> \in [{} -> Worktree] /\ DOMAIN << >> = {}
    BY DEF Init
  <2> QED
    BY <2>1 DEF TreesRight, Trees
<1>4. RequestsRight
  BY IdleIs DEF Init, RequestsRight
<1>5. AllKept
  <2>1. made.patches = 0
    BY DEF Init
  <2> QED
    BY <2>1 DEF AllKept
<1>6. ArchiveRight
  BY DEF Init, ArchiveRight, ArchivedExist
<1>7. OverlapsSeen
  BY DEF Init, OverlapsSeen, Syncing, Idle
<1> QED
  BY <1>1, <1>2, <1>3, <1>4, <1>5, <1>6, <1>7 DEF IInv, WorkInv

LEMMA InvStep ==
  IInv /\ [Next]_vars => IInv'
<1> SUFFICES ASSUME IInv, [Next]_vars
             PROVE  IInv'
  OBVIOUS
<1>1. ASSUME Outside
      PROVE  IInv'
  BY <1>1, KeepEdit, KeepCommit, KeepContinue, KeepGiveUp, KeepStackBranch, KeepSwitch, KeepPush,
     KeepRemote, KeepMergeOther DEF Outside
<1>2. ASSUME NEW n \in Names, CreateWorkstream(n) \/ ArchiveWorkstream(n) \/ UnarchiveWorkstream(n)
      PROVE  IInv'
  BY <1>2, KeepCreateWorkstream, KeepArchive, KeepUnarchive
<1>3. ASSUME NEW r \in Requests, Sync(r)
      PROVE  IInv'
  BY <1>3, KeepRebaseWorkstream, KeepMassSync, KeepNextWorkstream, KeepCheckout, KeepRebase,
     KeepAbortRebase, KeepSayDone DEF Sync
<1>4. ASSUME NEW r \in Requests, Prune(r)
      PROVE  IInv'
  BY <1>4, KeepShowPlan, KeepCancel, KeepPruneStack, KeepRemoveWorktree, KeepDeleteBranch,
     KeepForgetArchived DEF Prune
<1>5. CASE UNCHANGED vars
  BY <1>5 DEF vars, refs, hist, IInv, WorkInv, RefsRight, MadeRight, TreesRight, Trees, Held, RequestsRight,
     AllKept, Kept, ArchiveRight, ArchivedExist, OverlapsSeen, Syncing
<1> QED
  BY <1>1, <1>2, <1>3, <1>4, <1>5, KeepPullMain DEF Next

LEMMA InvGives ==
  IInv => WorkIsKept
<1> SUFFICES ASSUME IInv
             PROVE  WorkIsKept
  OBVIOUS
<1>1. RefsRight /\ TreesRight /\ ArchiveRight /\ AllKept
  BY DEF IInv, WorkInv
<1>2. TypeOK
  <2>1. \A t \in Trees : trees[t].at = Detached \/ (trees[t].at = Held(t) /\ Exists(trees[t].at))
    BY <1>1, TreeIs DEF Exists
  <2>2. \A s, t \in Trees : trees[s].at = trees[t].at /\ trees[s].at # Detached => s = t
    BY <1>1, <2>1 DEF TreesRight
  <2> QED
    BY <1>1, <2>1, <2>2 DEF TypeOK, RefsRight, ArchiveRight
<1>3. NoPatchLost
  BY <1>1 DEF AllKept, Kept, NoPatchLost, Patches
<1> QED
  BY <1>1, <1>2, <1>3 DEF WorkIsKept, ArchiveRight

\* Whatever is pruned, rebased or aborted, and however requests overlap, no
\* patch is lost, no worktree loses its branch and no archived path is hidden
\* that is not there.
THEOREM WorkKept == Spec => []WorkIsKept
<1>1. Spec => []IInv
  BY InvInit, InvStep, PTL DEF Spec
<1> QED
  BY <1>1, InvGives, PTL

\* Sync all aborts a rebase that is not its own only in a worktree where the
\* two are known to overlap.
THEOREM ConflictsAreUsers == Spec => ConflictIsUsers
<1>1. Spec => []IInv
  BY InvInit, InvStep, PTL DEF Spec
<1> DEFINE A == \A r \in Requests : reqs[r].at = "abort" /\ reqs'[r].at # "abort" =>
                  \A t \in Trees \cap {reqs[r].t} :
                    trees[t].rebase.by \notin {None, r} => trees' = trees \/ t \in mixed
<1>2. IInv /\ [Next]_vars => [A]_vars
  <2> SUFFICES ASSUME IInv, Next, NEW r \in Requests, reqs[r].at = "abort", reqs'[r].at # "abort",
                      NEW t \in Trees, t = reqs[r].t, trees[t].rebase.by \notin {None, r}
               PROVE  trees' = trees \/ t \in mixed
    OBVIOUS
  <2>1. t \in Names /\ trees[t].rebase # NoRebase
    BY DEF IInv, WorkInv, TreesRight, NoRebase
  <2>2. Syncing(r, t)
    BY DEF Syncing
  <2> QED
    BY <2>1, <2>2 DEF IInv, OverlapsSeen
<1> QED
  BY <1>1, <1>2, PTL DEF Spec, ConflictIsUsers

-----------------------------------------------------------------------------
(* Stacks: what tracks a branch, and the climb to the root.  The recursive *)
(* functions of the model are followed step by step, once there is one.    *)

\* A recursive function on 0..m, whose values are of S, exists.
Recursion(first, step, m, f) ==
  f = [n \in 0 .. m |-> IF n = 0 THEN first ELSE step[<<n, f[n - 1]>>]]

LEMMA RecursionExists ==
  ASSUME NEW S, NEW first \in S, NEW step \in [Nat \X S -> S], NEW m \in Nat
  PROVE  \E f \in [0 .. m -> S] : Recursion(first, step, m, f)
<1> DEFINE Good == {k \in Nat : \E f \in [0 .. k -> S] : Recursion(first, step, k, f)}
<1>1. 0 \in Good
  <2> DEFINE f == [n \in 0 .. 0 |-> first]
  <2>1. f \in [0 .. 0 -> S] /\ Recursion(first, step, 0, f)
    BY DEF Recursion
  <2> QED
    BY <2>1
<1>2. ASSUME NEW k \in Nat, k >= 0, k \in Good
      PROVE  k + 1 \in Good
  <2>1. PICK f \in [0 .. k -> S] : Recursion(first, step, k, f)
    BY <1>2
  <2> DEFINE g == [n \in 0 .. k + 1 |-> IF n = k + 1 THEN step[<<n, f[k]>>] ELSE f[n]]
  <2>2. f[k] \in S /\ <<k + 1, f[k]>> \in Nat \X S
    BY <1>2
  <2>3. g \in [0 .. k + 1 -> S]
    BY <2>2
  <2>4. \A n \in 0 .. k : g[n] = f[n]
    OBVIOUS
  <2>5. g[k + 1] = step[<<k + 1, g[k]>>]
    BY <2>4
  <2>6. \A n \in 0 .. k : f[n] = IF n = 0 THEN first ELSE step[<<n, f[n - 1]>>]
    BY <2>1 DEF Recursion
  <2> HIDE DEF g
  <2>7. \A n \in 0 .. k + 1 : g[n] = IF n = 0 THEN first ELSE step[<<n, g[n - 1]>>]
    <3> TAKE n \in 0 .. k + 1
    <3>1. CASE n = k + 1
      BY <2>5, <3>1
    <3>2. CASE n # k + 1 /\ n = 0
      <4>1. n \in 0 .. k
        BY <1>2, <3>2
      <4> QED
        BY <2>4, <2>6, <3>2, <4>1
    <3>3. CASE n # k + 1 /\ n # 0
      <4>1. n \in 0 .. k /\ n - 1 \in 0 .. k
        BY <3>3
      <4> QED
        BY <2>4, <2>6, <3>3, <4>1
    <3> QED
      BY <3>1, <3>2, <3>3
  <2>8. Recursion(first, step, k + 1, g)
    BY <2>3, <2>7 DEF Recursion
  <2> QED
    BY <2>3, <2>8
<1> HIDE DEF Good
<1>3. m \in Good
  BY <1>1, <1>2, Induction
<1> QED
  BY <1>3 DEF Good

LEMMA UpIs ==
  \A b : Up(b) \in Names \cup {Main, None} /\ (Up(b) # None => b \in Names)
BY DEF Up

LEMMA NamesAre ==
  /\ Names \subseteq Nat /\ Main \notin Names /\ None \notin Names /\ Pushed \notin Names
  /\ Detached \notin Names /\ Main # None /\ Pushed \notin {Main, None}
BY WorkstreamsAssumption DEF Names, Main, None, Pushed, Detached

\* The branches that track b.
LEMMA KidsAre ==
  ASSUME NEW b
  PROVE  Kids(b) \in Seq({k \in Names : Up(k) = b})
<1> DEFINE S == Seq({k \in Names : Up(k) = b})
           step == [ns \in Nat \X S |-> IF ns[1] \in Names /\ Up(ns[1]) = b THEN Append(ns[2], ns[1]) ELSE ns[2]]
           Is(f) == f = [n \in 0 .. N |-> IF n = 0 THEN <<>>
                           ELSE IF Up(n) = b THEN Append(f[n - 1], n) ELSE f[n - 1]]
<1>1. <<>> \in S /\ N \in Nat
  BY WorkstreamsAssumption
<1>2. step \in [Nat \X S -> S]
  <2> SUFFICES ASSUME NEW n \in Nat, NEW s \in S
               PROVE  (IF n \in Names /\ Up(n) = b THEN Append(s, n) ELSE s) \in S
    OBVIOUS
  <2> QED
    OBVIOUS
<1>3. PICK f \in [0 .. N -> S] : Recursion(<<>>, step, N, f)
  <2> HIDE DEF S, step
  <2> QED
    BY <1>1, <1>2, RecursionExists
<1>4. ASSUME NEW n \in 0 .. N, n # 0
      PROVE  step[<<n, f[n - 1]>>] = IF Up(n) = b THEN Append(f[n - 1], n) ELSE f[n - 1]
  <2>1. n \in Names /\ n \in Nat /\ n - 1 \in 0 .. N
    BY <1>1, <1>4 DEF Names
  <2>2. <<n, f[n - 1]>> \in Nat \X S
    <3> HIDE DEF S
    <3> QED
      BY <1>3, <2>1
  <2> QED
    BY <2>1, <2>2
<1>5. Is(f)
  <2> HIDE DEF S, step
  <2> QED
    BY <1>3, <1>4 DEF Recursion
<1> DEFINE g == CHOOSE h : Is(h)
<1>6. Kids(b) = g[N]
  BY DEF Kids
<1>7. Is(g)
  <2> HIDE DEF Is
  <2> QED
    BY <1>5
<1>8. \A n \in 0 .. N : g[n] = IF n = 0 THEN <<>> ELSE IF Up(n) = b THEN Append(g[n - 1], n) ELSE g[n - 1]
  <2> HIDE DEF g
  <2> QED
    BY <1>7
<1> DEFINE Good == {n \in Nat : n <= N => g[n] \in S}
<1> HIDE DEF g
<1>9. 0 \in Good
  <2>1. g[0] = <<>>
    BY <1>1, <1>8
  <2> QED
    BY <1>1, <2>1
<1>10. ASSUME NEW n \in Nat, n >= 0, n \in Good
       PROVE  n + 1 \in Good
  <2> SUFFICES ASSUME n + 1 <= N
               PROVE  g[n + 1] \in S
    OBVIOUS
  <2>1. n + 1 \in Names /\ n + 1 \in 0 .. N /\ (n + 1) - 1 = n /\ n + 1 # 0
    BY <1>1, <1>10 DEF Names
  <2>2. g[n] \in S
    BY <1>1, <1>10
  <2>3. g[n + 1] = IF Up(n + 1) = b THEN Append(g[n], n + 1) ELSE g[n]
    <3> HIDE DEF S
    <3> QED
      BY <1>8, <2>1
  <2> QED
    BY <2>1, <2>2, <2>3
<1> HIDE DEF Good, S
<1>11. N \in Good
  BY <1>1, <1>9, <1>10, Induction
<1> QED
  BY <1>1, <1>6, <1>11 DEF Good, S

\* A walk up from b: names, each once.
Path(b) ==
  {p \in Seq(Names) :
     /\ Len(p) >= 1 /\ p[1] = b
     /\ \A i \in 1 .. Len(p) : i < Len(p) => p[i + 1] = Up(p[i])
     /\ \A i, j \in 1 .. Len(p) : p[i] = p[j] => i = j}

LEMMA LastIs ==
  ASSUME NEW p \in Seq(Names), Len(p) >= 1
  PROVE  Last(p) = p[Len(p)] /\ Last(p) \in ToSet(p) /\ Last(p) \in Names /\ ToSet(p) = {p[i] : i \in 1 .. Len(p)}
<1>1. Len(p) \in 1 .. Len(p) /\ DOMAIN p = 1 .. Len(p)
  OBVIOUS
<1> QED
  BY <1>1 DEF Last, ToSet

\* A step of the climb: the end, or one name more.
End(p) == Up(Last(p)) \in {None, Main} \cup ToSet(p)
ClimbStep(p) == IF End(p) THEN p ELSE Append(p, Up(Last(p)))

LEMMA StepClimbs ==
  ASSUME NEW b, NEW p \in Path(b)
  PROVE  ClimbStep(p) \in Path(b) /\ (~ End(p) => Len(ClimbStep(p)) = Len(p) + 1)
<1> SUFFICES ASSUME ~ End(p)
             PROVE  ClimbStep(p) \in Path(b) /\ Len(ClimbStep(p)) = Len(p) + 1
  BY DEF ClimbStep
<1> DEFINE up == Up(Last(p))
           q == Append(p, up)
<1>1. p \in Seq(Names) /\ Len(p) >= 1 /\ Len(p) \in Nat /\ p[1] = b
  BY DEF Path
<1>2. up \in Names /\ up \notin ToSet(p) /\ ClimbStep(p) = q
  BY UpIs DEF End, ClimbStep
<1>3. Last(p) = p[Len(p)] /\ ToSet(p) = {p[i] : i \in 1 .. Len(p)}
  BY <1>1, LastIs
<1> HIDE DEF up
<1>4. q \in Seq(Names) /\ Len(q) = Len(p) + 1 /\ q[Len(p) + 1] = up /\ \A i \in 1 .. Len(p) : q[i] = p[i]
  BY <1>1, <1>2, AppendProperties
<1> HIDE DEF q
<1>5. q[1] = b
  BY <1>1, <1>4
<1>6. ASSUME NEW i \in 1 .. Len(q), i < Len(q)
      PROVE  q[i + 1] = Up(q[i])
  <2>1. CASE i = Len(p)
    BY <1>1, <1>3, <1>4, <2>1 DEF up
  <2>2. CASE i # Len(p)
    <3>1. i \in 1 .. Len(p) /\ i < Len(p) /\ i + 1 \in 1 .. Len(p)
      BY <1>1, <1>4, <1>6, <2>2
    <3>2. p[i + 1] = Up(p[i])
      BY <3>1 DEF Path
    <3> QED
      BY <1>4, <3>1, <3>2
  <2> QED
    BY <2>1, <2>2
<1>7. ASSUME NEW i \in 1 .. Len(q), NEW j \in 1 .. Len(q), q[i] = q[j]
      PROVE  i = j
  <2>1. CASE i \in 1 .. Len(p) /\ j \in 1 .. Len(p)
    BY <1>4, <1>7, <2>1 DEF Path
  <2>2. CASE i \notin 1 .. Len(p) /\ j \in 1 .. Len(p)
    BY <1>1, <1>2, <1>3, <1>4, <1>7, <2>2
  <2>3. CASE i \in 1 .. Len(p) /\ j \notin 1 .. Len(p)
    BY <1>1, <1>2, <1>3, <1>4, <1>7, <2>3
  <2>4. CASE i \notin 1 .. Len(p) /\ j \notin 1 .. Len(p)
    BY <1>1, <1>4, <2>4
  <2> QED
    BY <2>1, <2>2, <2>3, <2>4
<1>8. q \in Path(b)
  BY <1>1, <1>4, <1>5, <1>6, <1>7 DEF Path
<1> QED
  BY <1>2, <1>4, <1>8

LEMMA CountUpTo ==
  ASSUME NEW m \in Nat
  PROVE  IsFiniteSet(1 .. m) /\ Cardinality(1 .. m) = m
<1>1. 1 \in Int /\ m \in Int
  OBVIOUS
<1>2. IsFiniteSet(1 .. m) /\ Cardinality(1 .. m) = IF 1 > m THEN 0 ELSE m - 1 + 1
  BY <1>1, FS_Interval
<1>3. (IF 1 > m THEN 0 ELSE m - 1 + 1) = m
  OBVIOUS
<1> QED
  BY <1>2, <1>3

LEMMA PathIsShort ==
  ASSUME NEW b, NEW p \in Path(b)
  PROVE  Len(p) <= N
<1>1. Len(p) \in Nat /\ p \in Seq(Names) /\ N \in Nat /\ \A i, j \in 1 .. Len(p) : p[i] = p[j] => i = j
  BY WorkstreamsAssumption DEF Path
<1> SUFFICES ASSUME Len(p) > N
             PROVE  FALSE
  BY <1>1
<1>2. IsFiniteSet(1 .. Len(p)) /\ Cardinality(1 .. Len(p)) = Len(p)
  BY <1>1, CountUpTo
<1>3. IsFiniteSet(Names) /\ Cardinality(Names) = N
  BY <1>1, CountUpTo DEF Names
<1>4. p \in [1 .. Len(p) -> Names]
  BY <1>1
<1>5. \E i, j \in 1 .. Len(p) : i # j /\ p[i] = p[j]
  BY <1>1, <1>2, <1>3, <1>4, FS_PigeonHole
<1> QED
  BY <1>1, <1>5

LEMMA ClimbIs ==
  ASSUME NEW b \in Names
  PROVE  Climb(b) \in Path(b) /\ End(Climb(b))
<1> DEFINE S == Path(b)
           step == [ns \in Nat \X S |-> ClimbStep(ns[2])]
           Is(f) == f = [n \in 0 .. N |-> IF n = 0 THEN <<b>> ELSE ClimbStep(f[n - 1])]
<1>1. <<b>> \in S /\ Len(<<b>>) = 1 /\ N \in Nat
  BY WorkstreamsAssumption DEF Path
<1>2. step \in [Nat \X S -> S]
  <2>1. \A p \in S : ClimbStep(p) \in S
    BY StepClimbs
  <2> HIDE DEF S
  <2> QED
    BY <2>1
<1> HIDE DEF S
<1>3. PICK f \in [0 .. N -> S] : Recursion(<<b>>, step, N, f)
  <2> HIDE DEF step
  <2> QED
    BY <1>1, <1>2, RecursionExists
<1>4. ASSUME NEW n \in 0 .. N, n # 0
      PROVE  step[<<n, f[n - 1]>>] = ClimbStep(f[n - 1])
  <2>1. n \in Nat /\ n - 1 \in 0 .. N
    BY <1>1, <1>4
  <2>2. <<n, f[n - 1]>> \in Nat \X S
    BY <1>3, <2>1
  <2> QED
    BY <2>2
<1>5. Is(f)
  <2> HIDE DEF step
  <2> QED
    BY <1>3, <1>4 DEF Recursion
<1> DEFINE g == CHOOSE h : Is(h)
<1>6. Climb(b) = g[N]
  BY DEF Climb, ClimbStep, End
<1>7. Is(g)
  <2> HIDE DEF Is
  <2> QED
    BY <1>5
<1>8. \A n \in 0 .. N : g[n] = IF n = 0 THEN <<b>> ELSE ClimbStep(g[n - 1])
  <2> HIDE DEF g
  <2> QED
    BY <1>7
<1> HIDE DEF g
<1> DEFINE Good == {n \in Nat : n <= N => g[n] \in S /\ (End(g[n]) \/ Len(g[n]) = n + 1)}
<1>9. 0 \in Good
  <2>1. g[0] = <<b>>
    BY <1>1, <1>8
  <2> QED
    BY <1>1, <2>1
<1>10. ASSUME NEW n \in Nat, n >= 0, n \in Good
       PROVE  n + 1 \in Good
  <2> SUFFICES ASSUME n + 1 <= N
               PROVE  g[n + 1] \in S /\ (End(g[n + 1]) \/ Len(g[n + 1]) = (n + 1) + 1)
    OBVIOUS
  <2>1. g[n + 1] = ClimbStep(g[n])
    BY <1>1, <1>8
  <2>2. g[n] \in S /\ (End(g[n]) \/ Len(g[n]) = n + 1)
    BY <1>1, <1>10
  <2>3. g[n] \in Path(b)
    BY <2>2 DEF S
  <2>4. ClimbStep(g[n]) \in S /\ (~ End(g[n]) => Len(ClimbStep(g[n])) = Len(g[n]) + 1)
    BY <2>3, StepClimbs DEF S
  <2>5. End(g[n]) => ClimbStep(g[n]) = g[n]
    BY DEF ClimbStep
  <2> QED
    BY <2>1, <2>2, <2>4, <2>5
<1> HIDE DEF Good
<1>11. N \in Good
  BY <1>1, <1>9, <1>10, Induction
<1>12. g[N] \in Path(b) /\ (End(g[N]) \/ Len(g[N]) = N + 1)
  BY <1>1, <1>11 DEF Good, S
<1>13. Len(g[N]) <= N
  BY <1>12, PathIsShort
<1> QED
  BY <1>1, <1>6, <1>12, <1>13

\* The names on the way up from b: b, and whatever one of them tracks.
OnPath(b) == ToSet(Climb(b))

LEMMA ClimbPath ==
  ASSUME NEW b \in Names
  PROVE  LET p == Climb(b)
         IN  /\ p \in Seq(Names) /\ Len(p) \in Nat /\ Len(p) >= 1 /\ p[1] = b /\ p[Len(p)] = RootOf(b)
             /\ OnPath(b) = {p[i] : i \in 1 .. Len(p)}
             /\ \A i \in 1 .. Len(p) : i < Len(p) => p[i + 1] = Up(p[i])
             /\ Up(RootOf(b)) \in Names => Up(RootOf(b)) \in OnPath(b)
<1> DEFINE p == Climb(b)
<1>1. p \in Path(b) /\ End(p)
  BY ClimbIs
<1> HIDE DEF p
<1>2. /\ p \in Seq(Names) /\ Len(p) \in Nat /\ Len(p) >= 1 /\ p[1] = b
      /\ \A i \in 1 .. Len(p) : i < Len(p) => p[i + 1] = Up(p[i])
  BY <1>1 DEF Path
<1>3. Last(p) = p[Len(p)] /\ ToSet(p) = {p[i] : i \in 1 .. Len(p)}
  BY <1>2, LastIs
<1>4. RootOf(b) = Last(p) /\ OnPath(b) = ToSet(p)
  BY DEF RootOf, OnPath, p
<1>5. Up(RootOf(b)) \in Names => Up(RootOf(b)) \in OnPath(b)
  BY <1>1, <1>4, NamesAre DEF End
<1> QED
  BY <1>2, <1>3, <1>4, <1>5 DEF p

LEMMA PathClosed ==
  ASSUME NEW b \in Names
  PROVE  /\ OnPath(b) \subseteq Names /\ b \in OnPath(b) /\ RootOf(b) \in OnPath(b)
         /\ \A y \in OnPath(b) : Up(y) \in Names => Up(y) \in OnPath(b)
         /\ \A y \in OnPath(b) : y # RootOf(b) => Up(y) \in OnPath(b)
<1> DEFINE p == Climb(b)
<1>1. /\ p \in Seq(Names) /\ Len(p) \in Nat /\ Len(p) >= 1 /\ p[1] = b /\ p[Len(p)] = RootOf(b)
      /\ OnPath(b) = {p[i] : i \in 1 .. Len(p)}
      /\ \A i \in 1 .. Len(p) : i < Len(p) => p[i + 1] = Up(p[i])
      /\ Up(RootOf(b)) \in Names => Up(RootOf(b)) \in OnPath(b)
  BY ClimbPath
<1> HIDE DEF p
<1>2. ASSUME NEW i \in 1 .. Len(p)
      PROVE  (i < Len(p) /\ Up(p[i]) \in OnPath(b)) \/ p[i] = RootOf(b)
  <2>1. CASE i < Len(p)
    <3>1. i + 1 \in 1 .. Len(p) /\ p[i + 1] = Up(p[i])
      BY <1>1, <2>1
    <3> QED
      BY <1>1, <2>1, <3>1
  <2>2. CASE ~ (i < Len(p))
    BY <1>1, <2>2
  <2> QED
    BY <2>1, <2>2
<1>3. \A i \in 1 .. Len(p) : p[i] \in Names
  BY <1>1
<1>4. 1 \in 1 .. Len(p) /\ Len(p) \in 1 .. Len(p)
  BY <1>1
<1> QED
  BY <1>1, <1>2, <1>3, <1>4

\* The climb stays in a set that has what its members track, from where it
\* enters it.
LEMMA ClimbStays ==
  ASSUME NEW b \in Names, NEW S, \A y \in S \cap Names : Up(y) \in Names => Up(y) \in S,
         NEW m \in 1 .. Len(Climb(b)), Climb(b)[m] \in S
  PROVE  RootOf(b) \in S /\ (m = 1 => OnPath(b) \subseteq S)
<1> DEFINE p == Climb(b)
           Good == {i \in Nat : i <= Len(p) => p[i] \in S}
<1>1. /\ p \in Seq(Names) /\ Len(p) \in Nat /\ Len(p) >= 1 /\ p[Len(p)] = RootOf(b)
      /\ OnPath(b) = {p[i] : i \in 1 .. Len(p)}
      /\ \A i \in 1 .. Len(p) : i < Len(p) => p[i + 1] = Up(p[i])
  BY ClimbPath
<1>2. m \in 1 .. Len(p) /\ p[m] \in S
  OBVIOUS
<1> HIDE DEF p
<1>3. m \in Good
  BY <1>2
<1>4. ASSUME NEW i \in Nat, i >= m, i \in Good
      PROVE  i + 1 \in Good
  <2> SUFFICES ASSUME i + 1 <= Len(p)
               PROVE  p[i + 1] \in S
    OBVIOUS
  <2>1. i \in 1 .. Len(p) /\ i < Len(p) /\ i + 1 \in 1 .. Len(p)
    BY <1>1, <1>2, <1>4
  <2>2. p[i] \in S /\ p[i] \in Names /\ p[i + 1] \in Names
    BY <1>1, <1>4, <2>1
  <2> QED
    BY <1>1, <2>1, <2>2
<1> HIDE DEF Good
<1>5. \A i \in Nat : i >= m => i \in Good
  <2>1. m \in Nat
    BY <1>1, <1>2
  <2> QED
    BY <1>3, <1>4, <2>1, Induction
<1>6. \A i \in 1 .. Len(p) : i >= m => p[i] \in S
  BY <1>1, <1>5 DEF Good
<1> QED
  BY <1>1, <1>2, <1>6

\* A branch is cyclic if it is in a set of names each of which tracks another.
Endless(S) == S \subseteq Names /\ \A y \in S : Up(y) \in S

LEMMA CyclicIs ==
  ASSUME NEW b \in Names
  PROVE  Cyclic(b) <=> \E S : Endless(S) /\ b \in S
<1>1. ASSUME Cyclic(b)
      PROVE  \E S : Endless(S) /\ b \in S
  <2>1. \A y \in OnPath(b) : Up(y) \in OnPath(b)
    BY <1>1, PathClosed DEF Cyclic
  <2> QED
    BY <2>1, PathClosed DEF Endless
<1>2. ASSUME NEW S, Endless(S), b \in S
      PROVE  Cyclic(b)
  <2>1. 1 \in 1 .. Len(Climb(b)) /\ Climb(b)[1] \in S
    BY <1>2, ClimbPath
  <2>2. RootOf(b) \in S
    BY <1>2, <2>1, ClimbStays DEF Endless
  <2> QED
    BY <1>2, <2>2 DEF Endless, Cyclic
<1> QED
  BY <1>1, <1>2

\* A branch belongs to the stack of the one it tracks.
LEMMA SameRoot ==
  ASSUME NEW k \in Names, NEW b \in Names, Up(k) = b
  PROVE  /\ Cyclic(k) <=> Cyclic(b)
         /\ ~ Cyclic(b) => RootOf(k) = RootOf(b)
<1>1. ASSUME Cyclic(b)
      PROVE  Cyclic(k)
  <2>1. PICK S : Endless(S) /\ b \in S
    BY <1>1, CyclicIs
  <2>2. Endless(S \cup {k}) /\ k \in S \cup {k}
    BY <2>1 DEF Endless
  <2> QED
    BY <2>2, CyclicIs
<1>2. ASSUME Cyclic(k)
      PROVE  Cyclic(b)
  <2>1. PICK S : Endless(S) /\ k \in S
    BY <1>2, CyclicIs
  <2>2. b \in S
    BY <2>1 DEF Endless
  <2> QED
    BY <2>1, <2>2, CyclicIs
<1>3. ASSUME ~ Cyclic(b)
      PROVE  RootOf(k) = RootOf(b)
  <2>1. b \in OnPath(k) /\ \A y \in OnPath(k) \cap Names : Up(y) \in Names => Up(y) \in OnPath(k)
    BY PathClosed
  <2>2. 1 \in 1 .. Len(Climb(b)) /\ Climb(b)[1] = b
    BY ClimbPath
  <2>3. RootOf(b) \in OnPath(k)
    BY <2>1, <2>2, ClimbStays
  <2>4. Up(RootOf(b)) \notin Names
    BY <1>3 DEF Cyclic
  <2> QED
    BY <2>3, <2>4, PathClosed
<1> QED
  BY <1>1, <1>2, <1>3

LEMMA RootIsRoot ==
  ASSUME NEW b \in Names
  PROVE  /\ RootOf(b) \in Names
         /\ Cyclic(RootOf(b)) <=> Cyclic(b)
         /\ ~ Cyclic(b) => RootOf(RootOf(b)) = RootOf(b) /\ Up(RootOf(b)) \notin Names
<1> DEFINE root == RootOf(b)
<1>1. root \in Names
  BY PathClosed
<1>2. ASSUME Cyclic(b)
      PROVE  Cyclic(root)
  <2>1. Endless(OnPath(b)) /\ root \in OnPath(b)
    BY <1>2, PathClosed DEF Endless, Cyclic
  <2> QED
    BY <1>1, <2>1, CyclicIs
<1>3. ASSUME ~ Cyclic(b)
      PROVE  RootOf(root) = root /\ ~ Cyclic(root) /\ Up(root) \notin Names
  <2>1. Up(root) \notin Names
    BY <1>3 DEF Cyclic
  <2> HIDE DEF root
  <2>2. RootOf(root) = root
    <3>1. root \in OnPath(root) /\ OnPath(root) \subseteq Names
      BY <1>1, PathClosed
    <3> QED
      BY <1>1, <2>1, <3>1, PathClosed
  <2> QED
    BY <2>1, <2>2 DEF Cyclic
<1> QED
  BY <1>1, <1>2, <1>3

-----------------------------------------------------------------------------
(* Stacks: the walk from the root, and the plan of a sync.                 *)

\* The walk through a stack: the root, and names whose upstream is listed
\* earlier, each once.
Entry == [name : Names, depth : Nat]
Listed(e, root, earlier) ==
  IF e.depth = 0 THEN e.name = root ELSE Up(e.name) \in {d.name : d \in earlier}
InOrder(done, root) ==
  /\ done \in Seq(Entry)
  /\ \A i \in 1 .. Len(done) : Listed(done[i], root, {done[j] : j \in 1 .. i - 1})
  /\ \A i, j \in 1 .. Len(done) : done[i].name = done[j].name => i = j
WalkState(root) ==
  {w \in [todo : Seq(Entry), done : Seq(Entry)] :
     /\ InOrder(w.done, root)
     /\ \A i \in 1 .. Len(w.todo) : Listed(w.todo[i], root, ToSet(w.done))}

LEMMA ListedMore ==
  ASSUME NEW e, NEW root, NEW A, NEW B, A \subseteq B, Listed(e, root, A)
  PROVE  Listed(e, root, B)
BY DEF Listed

LEMMA KidEntries ==
  ASSUME NEW e \in Entry
  PROVE  LET kids == Kids(e.name)
             entries == [i \in DOMAIN kids |-> [name |-> kids[i], depth |-> e.depth + 1]]
         IN  /\ entries \in Seq(Entry) /\ Len(entries) \in Nat
             /\ \A i \in 1 .. Len(entries) : entries[i].depth # 0 /\ Up(entries[i].name) = e.name
<1> DEFINE K == {k \in Names : Up(k) = e.name}
           kids == Kids(e.name)
           entries == [i \in DOMAIN kids |-> [name |-> kids[i], depth |-> e.depth + 1]]
<1>1. kids \in Seq(K) /\ Len(kids) \in Nat /\ DOMAIN kids = 1 .. Len(kids)
  BY KidsAre
<1>2. \A i \in 1 .. Len(kids) : kids[i] \in Names /\ Up(kids[i]) = e.name
  <2> HIDE DEF kids
  <2> QED
    BY <1>1
<1>3. e.depth + 1 \in Nat /\ e.depth + 1 # 0
  BY DEF Entry
<1> HIDE DEF kids
<1>4. entries \in [1 .. Len(kids) -> Entry]
  BY <1>1, <1>2, <1>3 DEF Entry
<1>5. entries \in Seq(Entry) /\ Len(entries) = Len(kids)
  <2> HIDE DEF entries
  <2> QED
    BY <1>1, <1>4
<1>6. \A i \in 1 .. Len(kids) : entries[i].depth # 0 /\ Up(entries[i].name) = e.name
  BY <1>1, <1>2, <1>3
<1> HIDE DEF entries
<1>7. \A i \in 1 .. Len(entries) : entries[i].depth # 0 /\ Up(entries[i].name) = e.name
  BY <1>5, <1>6
<1> QED
  BY <1>1, <1>5, <1>7 DEF entries, kids

LEMMA VisitKeeps ==
  ASSUME NEW root \in Names, NEW w \in WalkState(root), w.todo # <<>>
  PROVE  Visit(w) \in WalkState(root)
<1> DEFINE e == Head(w.todo)
           rest == Tail(w.todo)
           kids == Kids(e.name)
           entries == [i \in DOMAIN kids |-> [name |-> kids[i], depth |-> e.depth + 1]]
           done == Append(w.done, e)
           todo == entries \o rest
<1>1. /\ w \in [todo : Seq(Entry), done : Seq(Entry)] /\ InOrder(w.done, root)
      /\ \A i \in 1 .. Len(w.todo) : Listed(w.todo[i], root, ToSet(w.done))
  BY DEF WalkState
<1>2. w.todo \in Seq(Entry) /\ w.done \in Seq(Entry) /\ Len(w.done) \in Nat /\ Len(w.todo) \in Nat
  BY <1>1
<1>3. e \in Entry /\ rest \in Seq(Entry) /\ Len(rest) \in Nat /\ e = w.todo[1]
      /\ \A i \in 1 .. Len(rest) : \E j \in 1 .. Len(w.todo) : rest[i] = w.todo[j]
  <2>1. /\ e \in Entry /\ rest \in Seq(Entry) /\ Len(rest) = Len(w.todo) - 1
        /\ \A i \in 1 .. Len(rest) : rest[i] = w.todo[i + 1]
    BY <1>2, HeadTailProperties
  <2>2. e = w.todo[1]
    BY <1>2
  <2> HIDE DEF e, rest
  <2>3. \A i \in 1 .. Len(rest) : i + 1 \in 1 .. Len(w.todo)
    BY <1>2, <2>1
  <2> QED
    BY <2>1, <2>2, <2>3
<1>4. 1 \in 1 .. Len(w.todo)
  BY <1>2
<1>5. Listed(e, root, ToSet(w.done)) /\ \A i \in 1 .. Len(rest) : Listed(rest[i], root, ToSet(w.done))
  BY <1>1, <1>3, <1>4
<1>6. Visit(w) = IF e.name \in {d.name : d \in ToSet(w.done)} THEN [w EXCEPT !.todo = rest]
                 ELSE [todo |-> todo, done |-> done]
  BY DEF Visit
<1>7. entries \in Seq(Entry) /\ Len(entries) \in Nat
      /\ \A i \in 1 .. Len(entries) : entries[i].depth # 0 /\ Up(entries[i].name) = e.name
  BY <1>3, KidEntries
<1> HIDE DEF e, rest, kids, entries
<1>8. CASE e.name \in {d.name : d \in ToSet(w.done)}
  <2> DEFINE v == [w EXCEPT !.todo = rest]
  <2>1. v \in [todo : Seq(Entry), done : Seq(Entry)] /\ v.todo = rest /\ v.done = w.done
    BY <1>1, <1>3
  <2> HIDE DEF v
  <2>2. v \in WalkState(root)
    BY <1>1, <1>5, <2>1 DEF WalkState
  <2> QED
    BY <1>6, <1>8, <2>2 DEF v
<1>9. CASE e.name \notin {d.name : d \in ToSet(w.done)}
  <2>1. /\ done \in Seq(Entry) /\ Len(done) = Len(w.done) + 1 /\ done[Len(w.done) + 1] = e
        /\ \A i \in 1 .. Len(w.done) : done[i] = w.done[i]
    BY <1>2, <1>3, AppendProperties
  <2>2. ToSet(done) = ToSet(w.done) \cup {e}
    BY <1>2, <1>3, Appended
  <2>3. /\ todo \in Seq(Entry) /\ Len(todo) = Len(entries) + Len(rest)
        /\ \A i \in 1 .. Len(entries) + Len(rest) :
             todo[i] = IF i <= Len(entries) THEN entries[i] ELSE rest[i - Len(entries)]
    BY <1>3, <1>7, ConcatProperties
  <2> HIDE DEF done, todo
  <2>4. InOrder(done, root)
    <3>1. ToSet(w.done) = {w.done[j] : j \in 1 .. Len(w.done)}
      <4>1. DOMAIN w.done = 1 .. Len(w.done)
        BY <1>2
      <4> QED
        BY <4>1 DEF ToSet
    <3>2. ASSUME NEW i \in 1 .. Len(done)
          PROVE  Listed(done[i], root, {done[j] : j \in 1 .. i - 1})
      <4>1. CASE i \in 1 .. Len(w.done)
        <5>1. \A j \in 1 .. i - 1 : j \in 1 .. Len(w.done)
          BY <1>2, <4>1
        <5>2. {done[j] : j \in 1 .. i - 1} = {w.done[j] : j \in 1 .. i - 1}
          BY <2>1, <5>1
        <5>3. Listed(w.done[i], root, {w.done[j] : j \in 1 .. i - 1})
          BY <1>1, <4>1 DEF InOrder
        <5> QED
          BY <2>1, <4>1, <5>2, <5>3
      <4>2. CASE i = Len(w.done) + 1
        <5>1. i - 1 = Len(w.done)
          BY <1>2, <4>2
        <5>2. {done[j] : j \in 1 .. i - 1} = ToSet(w.done)
          BY <2>1, <3>1, <5>1
        <5> QED
          BY <1>5, <2>1, <4>2, <5>2
      <4> QED
        BY <1>2, <2>1, <4>1, <4>2
    <3>3. ASSUME NEW i \in 1 .. Len(done), NEW j \in 1 .. Len(done), done[i].name = done[j].name
          PROVE  i = j
      <4>1. CASE i \in 1 .. Len(w.done) /\ j \in 1 .. Len(w.done)
        BY <1>1, <2>1, <3>3, <4>1 DEF InOrder
      <4>2. CASE i \notin 1 .. Len(w.done) /\ j \in 1 .. Len(w.done)
        <5>1. done[i] = e /\ done[j] = w.done[j] /\ w.done[j] \in ToSet(w.done)
          BY <1>2, <2>1, <3>1, <4>2
        <5> QED
          BY <1>9, <3>3, <5>1
      <4>3. CASE i \in 1 .. Len(w.done) /\ j \notin 1 .. Len(w.done)
        <5>1. done[j] = e /\ done[i] = w.done[i] /\ w.done[i] \in ToSet(w.done)
          BY <1>2, <2>1, <3>1, <4>3
        <5> QED
          BY <1>9, <3>3, <5>1
      <4>4. CASE i \notin 1 .. Len(w.done) /\ j \notin 1 .. Len(w.done)
        BY <1>2, <2>1, <4>4
      <4> QED
        BY <4>1, <4>2, <4>3, <4>4
    <3> QED
      BY <2>1, <3>2, <3>3 DEF InOrder
  <2>5. ASSUME NEW i \in 1 .. Len(todo)
        PROVE  Listed(todo[i], root, ToSet(done))
    <3>1. CASE i \in 1 .. Len(entries)
      <4>1. todo[i] = entries[i]
        BY <1>3, <1>7, <2>3, <3>1
      <4>2. Up(todo[i].name) = e.name /\ todo[i].depth # 0
        BY <1>7, <3>1, <4>1
      <4> QED
        BY <2>2, <4>2 DEF Listed
    <3>2. CASE i \notin 1 .. Len(entries)
      <4>1. i - Len(entries) \in 1 .. Len(rest) /\ todo[i] = rest[i - Len(entries)]
        BY <1>3, <1>7, <2>3, <3>2
      <4>2. Listed(todo[i], root, ToSet(w.done))
        BY <1>5, <4>1
      <4> QED
        BY <2>2, <4>2, ListedMore
    <3> QED
      BY <3>1, <3>2
  <2>6. [todo |-> todo, done |-> done] \in WalkState(root)
    BY <2>1, <2>3, <2>4, <2>5 DEF WalkState
  <2> QED
    BY <1>6, <1>9, <2>6 DEF done, todo
<1> QED
  BY <1>8, <1>9

LEMMA WalkIs ==
  ASSUME NEW root \in Names
  PROVE  InOrder(Walk(root), root)
<1> DEFINE S == WalkState(root)
           first == [todo |-> <<[name |-> root, depth |-> 0]>>, done |-> <<>>]
           Go(w) == IF w.todo = <<>> THEN w ELSE Visit(w)
           step == [ns \in Nat \X S |-> Go(ns[2])]
           Is(f) == f = [n \in 0 .. N + 1 |-> IF n = 0 THEN first ELSE Go(f[n - 1])]
<1>1. N + 1 \in Nat
  BY WorkstreamsAssumption
<1>2. first \in S
  <2>1. [name |-> root, depth |-> 0] \in Entry
    BY DEF Entry
  <2>2. <<>> \in Seq(Entry) /\ <<[name |-> root, depth |-> 0]>> \in Seq(Entry) /\ Len(<<>>) = 0
        /\ Len(<<[name |-> root, depth |-> 0]>>) = 1
    BY <2>1
  <2>3. InOrder(<<>>, root)
    BY <2>2 DEF InOrder
  <2>4. Listed([name |-> root, depth |-> 0], root, ToSet(<<>>))
    BY DEF Listed
  <2> QED
    BY <2>2, <2>3, <2>4 DEF WalkState
<1>3. \A w \in S : Go(w) \in S
  BY VisitKeeps
<1> HIDE DEF S, Go, first
<1>4. step \in [Nat \X S -> S]
  BY <1>3
<1>5. PICK f \in [0 .. N + 1 -> S] : Recursion(first, step, N + 1, f)
  <2> HIDE DEF step
  <2> QED
    BY <1>1, <1>2, <1>4, RecursionExists
<1>6. ASSUME NEW n \in 0 .. N + 1, n # 0
      PROVE  step[<<n, f[n - 1]>>] = Go(f[n - 1])
  <2>1. n \in Nat /\ n - 1 \in 0 .. N + 1
    BY <1>1, <1>6
  <2>2. <<n, f[n - 1]>> \in Nat \X S
    BY <1>5, <2>1
  <2> QED
    BY <2>2
<1>7. Is(f)
  <2> HIDE DEF step
  <2> QED
    BY <1>5, <1>6 DEF Recursion
<1> DEFINE g == CHOOSE h : Is(h)
<1>8. Walk(root) = g[N + 1].done
  BY DEF Walk, Go, first
<1>9. Is(g)
  <2> HIDE DEF Is
  <2> QED
    BY <1>7
<1>10. \A n \in 0 .. N + 1 : g[n] = IF n = 0 THEN first ELSE Go(g[n - 1])
  <2> HIDE DEF g
  <2> QED
    BY <1>9
<1> HIDE DEF g
<1> DEFINE Good == {n \in Nat : n <= N + 1 => g[n] \in S}
<1>11. 0 \in Good
  <2>1. g[0] = first
    BY <1>1, <1>10
  <2> QED
    BY <1>2, <2>1
<1>12. ASSUME NEW n \in Nat, n >= 0, n \in Good
       PROVE  n + 1 \in Good
  <2> SUFFICES ASSUME n + 1 <= N + 1
               PROVE  g[n + 1] \in S
    OBVIOUS
  <2>1. g[n + 1] = Go(g[n])
    BY <1>1, <1>10
  <2>2. g[n] \in S
    BY <1>1, <1>12
  <2> QED
    BY <1>3, <2>1, <2>2
<1> HIDE DEF Good
<1>13. N + 1 \in Good
  BY <1>1, <1>11, <1>12, Induction
<1> QED
  BY <1>1, <1>8, <1>13 DEF Good, S, WalkState

LEMMA FunctionIsSeq ==
  ASSUME NEW S, NEW n \in Nat, NEW f \in [1 .. n -> S]
  PROVE  f \in Seq(S) /\ Len(f) = n
OBVIOUS

LEMMA EntriesAre ==
  ASSUME NEW w \in Seq(Entry)
  PROVE  /\ Len(w) \in Nat /\ DOMAIN w = 1 .. Len(w) /\ ToSet(w) = {w[i] : i \in 1 .. Len(w)}
         /\ \A i \in 1 .. Len(w) : w[i].name \in Names /\ w[i].depth \in Nat
<1>1. Len(w) \in Nat /\ DOMAIN w = 1 .. Len(w) /\ \A i \in 1 .. Len(w) : w[i] \in Entry
  OBVIOUS
<1>2. \A e \in Entry : e.name \in Names /\ e.depth \in Nat
  BY DEF Entry
<1> QED
  BY <1>1, <1>2 DEF ToSet

\* All of a stack have one root, or are all in a cycle.
LEMMA WalkMembers ==
  ASSUME NEW b \in Names
  PROVE  LET w == Walk(RootOf(b))
         IN  \A i \in 1 .. Len(w) : /\ Cyclic(w[i].name) <=> Cyclic(b)
                                    /\ ~ Cyclic(b) => RootOf(w[i].name) = RootOf(b)
<1> DEFINE root == RootOf(b)
           w == Walk(root)
           Member(k) == (Cyclic(k) <=> Cyclic(b)) /\ (~ Cyclic(b) => RootOf(k) = root)
           Bad == {i \in 1 .. Len(w) : ~ Member(w[i].name)}
<1>1. root \in Names /\ Member(root)
  BY RootIsRoot
<1>2. InOrder(w, root)
  BY <1>1, WalkIs
<1> HIDE DEF root, w
<1>3. w \in Seq(Entry) /\ Len(w) \in Nat /\ \A i \in 1 .. Len(w) : w[i].name \in Names
  <2>1. w \in Seq(Entry)
    BY <1>2 DEF InOrder
  <2> QED
    BY <2>1, EntriesAre
<1>4. ASSUME NEW j \in Names, NEW k \in Names, Up(k) = j, Member(j)
      PROVE  Member(k)
  BY <1>4, SameRoot
<1> HIDE DEF Member
<1>5. Bad = {}
  <2> SUFFICES ASSUME Bad # {}
               PROVE  FALSE
    OBVIOUS
  <2>1. Bad \subseteq Nat
    BY <1>3
  <2>2. PICK i \in Bad : \A j \in Bad : i <= j
    BY <2>1, LeastOf
  <2>3. i \in 1 .. Len(w) /\ ~ Member(w[i].name)
    BY <2>2
  <2>4. Listed(w[i], root, {w[j] : j \in 1 .. i - 1})
    BY <1>2, <2>3 DEF InOrder
  <2>5. CASE w[i].depth = 0
    BY <1>1, <2>3, <2>4, <2>5 DEF Listed
  <2>6. CASE w[i].depth # 0
    <3>1. PICK j \in 1 .. i - 1 : Up(w[i].name) = w[j].name
      BY <2>4, <2>6 DEF Listed
    <3>2. j \in 1 .. Len(w) /\ j \notin Bad
      BY <1>3, <2>2, <2>3
    <3>3. Member(w[j].name)
      BY <3>2
    <3> QED
      BY <1>3, <1>4, <2>3, <3>1, <3>2, <3>3
  <2> QED
    BY <2>5, <2>6
<1>6. \A i \in 1 .. Len(w) : Member(w[i].name)
  BY <1>5
<1> QED
  BY <1>6 DEF Member, w, root

LEMMA StackIs ==
  ASSUME NEW t, trees[t].at \in Names
  PROVE  LET w == Stack(t)
         IN  /\ w = Walk(RootOf(trees[t].at)) /\ RootOf(trees[t].at) \in Names
             /\ InOrder(w, RootOf(trees[t].at))
             /\ w \in Seq(Entry) /\ Len(w) \in Nat
             /\ \A i \in 1 .. Len(w) : w[i].name \in Names /\ w[i].depth \in Nat
             /\ ToSet(w) = {w[i] : i \in 1 .. Len(w)}
<1> DEFINE w == Stack(t)
           root == RootOf(trees[t].at)
<1>1. w = Walk(root)
  BY NamesAre DEF Stack
<1>2. root \in Names
  BY RootIsRoot
<1>3. InOrder(w, root)
  BY <1>1, <1>2, WalkIs
<1> HIDE DEF w, root
<1>4. w \in Seq(Entry)
  BY <1>3 DEF InOrder
<1>5. /\ Len(w) \in Nat /\ ToSet(w) = {w[i] : i \in 1 .. Len(w)}
      /\ \A i \in 1 .. Len(w) : w[i].name \in Names /\ w[i].depth \in Nat
  BY <1>4, EntriesAre
<1> QED
  BY <1>1, <1>2, <1>3, <1>4, <1>5 DEF w, root

\* What a sync works on: the stack in its order, each branch with what it is
\* rebased onto.
LEMMA PlanIs ==
  ASSUME NEW t, trees[t].at \in Names
  PROVE  LET plan == Plan(t)
             w == Stack(t)
         IN  /\ Len(plan) = Len(w) /\ Len(plan) \in Nat /\ DOMAIN plan = 1 .. Len(plan)
             /\ plan \in Seq([name : Names, onto : {OntoOf(b) : b \in Names}])
             /\ \A i \in 1 .. Len(plan) : plan[i] = [name |-> w[i].name, onto |-> OntoOf(w[i].name)]
             /\ \A i, j \in 1 .. Len(plan) : plan[i].name = plan[j].name => i = j
<1> DEFINE w == Stack(t)
           plan == Plan(t)
<1>1. /\ w \in Seq(Entry) /\ Len(w) \in Nat /\ DOMAIN w = 1 .. Len(w)
      /\ \A i \in 1 .. Len(w) : w[i].name \in Names
      /\ \A i, j \in 1 .. Len(w) : w[i].name = w[j].name => i = j
  <2>1. w \in Seq(Entry) /\ Len(w) \in Nat /\ InOrder(w, RootOf(trees[t].at))
        /\ \A i \in 1 .. Len(w) : w[i].name \in Names
    BY StackIs
  <2> HIDE DEF w
  <2> QED
    BY <2>1 DEF InOrder
<1>2. plan = [i \in DOMAIN w |-> [name |-> w[i].name, onto |-> OntoOf(w[i].name)]]
  BY DEF Plan
<1> HIDE DEF w, plan
<1>3. plan \in [1 .. Len(w) -> [name : Names, onto : {OntoOf(b) : b \in Names}]]
  BY <1>1, <1>2
<1>4. plan \in Seq([name : Names, onto : {OntoOf(b) : b \in Names}]) /\ Len(plan) = Len(w)
  BY <1>1, <1>3, FunctionIsSeq
<1>5. \A i \in 1 .. Len(plan) : plan[i] = [name |-> w[i].name, onto |-> OntoOf(w[i].name)]
  BY <1>1, <1>2, <1>4
<1>6. \A i, j \in 1 .. Len(plan) : plan[i].name = plan[j].name => i = j
  <2>1. ASSUME NEW i \in 1 .. Len(plan)
        PROVE  plan[i].name = w[i].name /\ i \in 1 .. Len(w)
    <3>1. plan[i] = [name |-> w[i].name, onto |-> OntoOf(w[i].name)]
      BY <1>5
    <3> QED
      BY <1>4, <3>1
  <2> QED
    BY <1>1, <2>1
<1> QED
  BY <1>1, <1>4, <1>5, <1>6 DEF plan, w

\* Unless it was pushed, what a branch is rebased onto comes before it in the
\* stack, and is what the panel compares the branch with.
LEMMA OntoIs ==
  ASSUME RefsRight, NEW t, trees[t].at \in Names, ~ Cyclic(trees[t].at), NEW i \in 1 .. Len(Plan(t)),
         track[Plan(t)[i].name] # Pushed
  PROVE  LET e == Stack(t)[i]
             onto == Plan(t)[i].onto
         IN  /\ onto = Main \/ \E j \in 1 .. i - 1 : onto = Plan(t)[j].name
             /\ Exists(onto) => Base(e) = heads[onto]
<1> DEFINE w == Stack(t)
           plan == Plan(t)
           root == RootOf(trees[t].at)
           e == w[i]
           onto == plan[i].onto
<1>1. /\ Len(plan) = Len(w) /\ Len(plan) \in Nat
      /\ \A j \in 1 .. Len(plan) : plan[j] = [name |-> w[j].name, onto |-> OntoOf(w[j].name)]
  BY PlanIs
<1>2. InOrder(w, root) /\ \A j \in 1 .. Len(w) : w[j].name \in Names /\ w[j].depth \in Nat
  BY StackIs
<1>3. Up(root) \notin Names
  BY RootIsRoot
<1>0. i \in 1 .. Len(plan) /\ track[plan[i].name] # Pushed
  OBVIOUS
<1> HIDE DEF w, plan, root
<1>4. i \in 1 .. Len(w) /\ e.name \in Names /\ e.depth \in Nat /\ onto = OntoOf(e.name) /\ track[e.name] # Pushed
      /\ \A j \in 1 .. Len(plan) : plan[j].name = w[j].name
  <2>1. i \in 1 .. Len(w)
    BY <1>0, <1>1
  <2>2. ASSUME NEW j \in 1 .. Len(plan)
        PROVE  plan[j].name = w[j].name /\ plan[j].onto = OntoOf(w[j].name)
    <3>1. plan[j] = [name |-> w[j].name, onto |-> OntoOf(w[j].name)]
      BY <1>1
    <3> QED
      BY <3>1
  <2> QED
    BY <1>0, <1>2, <2>1, <2>2
<1>5. Listed(e, root, {w[j] : j \in 1 .. i - 1})
  BY <1>2, <1>4 DEF InOrder
<1> HIDE DEF e, onto
<1>6. Up(e.name) = IF track[e.name] \in Names \cup {Main} THEN track[e.name] ELSE None
  BY <1>4 DEF Up
<1>7. onto = IF track[e.name] = None THEN Main ELSE track[e.name]
  BY <1>4 DEF OntoOf
<1>8. CASE e.depth = 0
  <2>1. Up(e.name) \notin Names
    BY <1>3, <1>5, <1>8 DEF Listed
  <2>2. onto = Main
    <3>1. track[e.name] \in Names \cup {Main, Pushed, None}
      BY <1>4 DEF RefsRight
    <3> QED
      BY <1>4, <1>6, <1>7, <2>1, <3>1
  <2> QED
    BY <1>8, <2>2 DEF Base, e, onto, w, plan
<1>9. CASE e.depth # 0
  <2>1. PICK j \in 1 .. i - 1 : Up(e.name) = w[j].name
    BY <1>5, <1>9 DEF Listed
  <2>2. j \in 1 .. Len(w) /\ j \in 1 .. Len(plan) /\ Up(e.name) \in Names
    BY <1>1, <1>2, <1>4, <2>1
  <2>3. Up(e.name) = track[e.name] /\ track[e.name] # None /\ onto = track[e.name] /\ Up(e.name) # None
    BY <1>6, <1>7, <2>2, NamesAre
  <2>4. onto = plan[j].name
    BY <1>4, <2>1, <2>2, <2>3
  <2>5. Exists(onto) => Base(e) = heads[onto]
    BY <1>4, <1>9, <2>3 DEF Base
  <2> QED
    BY <2>4, <2>5 DEF e, onto, w, plan
<1> QED
  BY <1>8, <1>9

-----------------------------------------------------------------------------
(* Syncs: what one that nothing interfered with has done so far.           *)

\* The stacks change with the upstreams only.
LEMMA CyclicSame ==
  ASSUME track' = track, NEW b
  PROVE  Cyclic(b)' <=> Cyclic(b)
BY DEF Cyclic, RootOf, Climb, Up

\* What is left to do for a branch of a stack, and that it was done.
Task == [name : Names, onto : Names \cup {Main}]
Synced(e) ==
  \/ track[e.name] = Pushed
  \/ Exists(e.name) /\ Exists(e.onto) /\ Begins(heads[e.onto], heads[e.name])

\* A sync that nothing interfered with has done the first d tasks of its plan.
Follows(r, t, d) ==
  /\ Len(reqs[r].todo) = Len(Plan(t)) - d
  /\ \A i \in 1 .. Len(reqs[r].todo) : reqs[r].todo[i] = Plan(t)[d + i]
  /\ \A i \in 1 .. d : Synced(Plan(t)[i])
Working(r, t, b) ==
  /\ reqs[r].t = t /\ t \in Trees /\ trees[t].at = b
  /\ reqs[r].todo \in Seq(Task) /\ (reqs[r].todo = << >> <=> reqs[r].at = "done")
  /\ reqs[r].at = "rebase" => b = Head(reqs[r].todo).name
  /\ \/ Cyclic(b) /\ \A i \in 1 .. Len(reqs[r].todo), k \in Names : reqs[r].todo[i].name = k => Cyclic(k)
     \/ ~ Cyclic(b) /\ \E d \in 0 .. Len(Plan(t)) : Follows(r, t, d)
Alone(r) == reqs[r].clean /\ reqs[r].at \in {"checkout", "rebase", "done"}
Sound(r) == Alone(r) => \E t \in Names, b \in Names : Working(r, t, b)
SyncsSound == \A r \in Requests : Sound(r)

LEMMA PlanSame ==
  ASSUME track' = track, NEW t, NEW b, trees[t].at = b, trees'[t].at = b
  PROVE  Plan(t)' = Plan(t)
<1>1. Stack(t) = IF b = Detached THEN << >> ELSE Walk(RootOf(b))
  BY DEF Stack
<1>2. Stack(t)' = IF b = Detached THEN << >> ELSE Walk(RootOf(b))'
  BY DEF Stack
<1>3. Walk(RootOf(b))' = Walk(RootOf(b))
  BY DEF Walk, Visit, Kids, Up, RootOf, Climb
<1>4. Stack(t)' = Stack(t)
  BY <1>1, <1>2, <1>3
<1> QED
  BY <1>4 DEF Plan, OntoOf

\* The tasks of a plan.
LEMMA PlanTasks ==
  ASSUME RefsRight, NEW t, trees[t].at \in Names
  PROVE  Plan(t) \in Seq(Task) /\ Len(Plan(t)) \in Nat
<1> DEFINE plan == Plan(t)
           O == {OntoOf(b) : b \in Names}
           R == [name : Names, onto : O]
<1>1. /\ Len(plan) \in Nat /\ DOMAIN plan = 1 .. Len(plan) /\ plan \in Seq(R)
  BY PlanIs
<1>2. O \subseteq Names \cup {Main}
  BY DEF RefsRight, OntoOf
<1> HIDE DEF plan, O, R
<1>3. R \subseteq Task
  BY <1>2 DEF Task, R
<1>4. \A i \in 1 .. Len(plan) : plan[i] \in R
  BY <1>1
<1>5. plan \in Seq(Task)
  BY <1>1, <1>3, <1>4
<1> QED
  BY <1>1, <1>5 DEF plan

LEMMA PlanMembers ==
  ASSUME NEW t, NEW b \in Names, trees[t].at = b, NEW i \in 1 .. Len(Plan(t))
  PROVE  LET k == Plan(t)[i].name
         IN  k \in Names /\ (Cyclic(k) <=> Cyclic(b)) /\ (~ Cyclic(b) => RootOf(k) = RootOf(b))
<1> DEFINE w == Stack(t)
           k == w[i].name
<1>1. i \in 1 .. Len(w) /\ Plan(t)[i] = [name |-> k, onto |-> OntoOf(k)]
  BY PlanIs
<1>2. w = Walk(RootOf(b)) /\ \A j \in 1 .. Len(w) : w[j].name \in Names
  BY StackIs
<1>3. /\ Cyclic(k) <=> Cyclic(b)
      /\ ~ Cyclic(b) => RootOf(k) = RootOf(b)
  BY <1>1, <1>2, WalkMembers
<1>4. Plan(t)[i].name = k
  BY <1>1
<1>5. k \in Names
  BY <1>1, <1>2
<1> HIDE DEF w, k
<1> QED
  BY <1>3, <1>4, <1>5

\* What a disturbed sync says is no concern.
LEMMA SoundDisturbed ==
  ASSUME RequestsRight, NEW q \in Requests, reqs'[q] = Disturbed[q]
  PROVE  Sound(q)'
<1>1. reqs'[q] = [reqs[q] EXCEPT !.clean = reqs[q].clean /\ ~ InSync(q)]
  BY DEF Disturbed
<1>2. SUFFICES ASSUME Alone(q)'
               PROVE  FALSE
  BY DEF Sound
<1>3. reqs'[q].clean = (reqs[q].clean /\ ~ InSync(q)) /\ reqs'[q].at = reqs[q].at
  BY <1>1 DEF RequestsRight, Request
<1> QED
  BY <1>2, <1>3 DEF Alone, InSync

LEMMA SoundElse ==
  ASSUME NEW q \in Requests, reqs'[q].at \notin {"checkout", "rebase", "done"}
  PROVE  Sound(q)'
BY DEF Sound, Alone

LEMMA SoundStays ==
  ASSUME NEW q \in Requests, Sound(q), reqs'[q] = reqs[q], UNCHANGED <<heads, track, trees>>
  PROVE  Sound(q)'
<1> SUFFICES ASSUME Alone(q)'
             PROVE  \E t \in Names, b \in Names : Working(q, t, b)'
  BY DEF Sound
<1>1. Alone(q)
  BY DEF Alone
<1>2. PICK t \in Names, b \in Names : Working(q, t, b)
  BY <1>1 DEF Sound
<1>3. Plan(t)' = Plan(t)
  BY <1>2, PlanSame DEF Working
<1>4. \A k : Cyclic(k)' <=> Cyclic(k)
  BY CyclicSame
<1>5. \A d : Follows(q, t, d) => Follows(q, t, d)'
  BY <1>3 DEF Follows, Synced, Exists
<1>6. Working(q, t, b)'
  BY <1>2, <1>3, <1>4, <1>5 DEF Working, Trees
<1> QED
  BY <1>6

-----------------------------------------------------------------------------
(* Syncs: every step keeps it.                                             *)

\* No request acts.
LEMMA OutsideSound ==
  ASSUME RequestsRight, SyncsSound, reqs' = Disturbed \/ UNCHANGED <<reqs, heads, track, trees>>
  PROVE  SyncsSound'
<1> SUFFICES ASSUME NEW q \in Requests
             PROVE  Sound(q)'
  BY DEF SyncsSound
<1>1. CASE reqs' = Disturbed
  BY <1>1, SoundDisturbed
<1>2. CASE UNCHANGED <<reqs, heads, track, trees>>
  BY <1>2, SoundStays DEF SyncsSound
<1> QED
  BY <1>1, <1>2

\* A request acts.
LEMMA RequestSound ==
  ASSUME RequestsRight, SyncsSound, NEW r \in Requests, NEW rq,
         reqs' = Disturb(r, rq) \/ (Become(r, rq) /\ UNCHANGED <<heads, track, trees>>),
         reqs'[r] = rq => Sound(r)'
  PROVE  SyncsSound'
<1> SUFFICES ASSUME NEW q \in Requests
             PROVE  Sound(q)'
  BY DEF SyncsSound
<1>1. reqs'[r] = rq
  BY DisturbedIs DEF Disturb, Become, RequestsRight
<1>2. CASE q = r
  BY <1>1, <1>2
<1>3. CASE q # r /\ reqs' = Disturb(r, rq)
  <2>1. reqs'[q] = Disturbed[q]
    BY <1>3, DisturbedIs DEF Disturb
  <2> QED
    BY <2>1, SoundDisturbed
<1>4. CASE q # r /\ Become(r, rq) /\ UNCHANGED <<heads, track, trees>>
  <2>1. reqs'[q] = reqs[q]
    BY <1>4 DEF Become, RequestsRight
  <2> QED
    BY <1>4, <2>1, SoundStays DEF SyncsSound
<1> QED
  BY <1>2, <1>3, <1>4

\* ... and is in no sync then.
LEMMA LeaverSound ==
  ASSUME RequestsRight, SyncsSound, NEW r \in Requests, NEW rq,
         reqs' = Disturb(r, rq) \/ (Become(r, rq) /\ UNCHANGED <<heads, track, trees>>),
         rq.at \notin {"checkout", "rebase", "done"}
  PROVE  SyncsSound'
BY RequestSound, SoundElse

\* ... and begins one.
LEMMA StartSound ==
  ASSUME WorkInv, SyncsSound, NEW r \in Requests, NEW t \in Trees, NEW mass, NEW rest,
         Become(r, Started(r, t, mass, rest)), UNCHANGED <<heads, track, trees>>
  PROVE  SyncsSound'
<1> DEFINE rq == Started(r, t, mass, rest)
           a == IF Plan(t) = <<>> THEN (IF mass THEN "next" ELSE "idle") ELSE "checkout"
           plan == Plan(t)
           n == [Idle EXCEPT !.at = a, !.t = t, !.todo = plan, !.mass = mass, !.rest = rest]
<1>1. rq = n
  BY DEF Started
<1>2. a \in {"next", "idle", "checkout"} /\ (a = "checkout" => Plan(t) # << >>)
  OBVIOUS
<1> HIDE DEF a, plan
<1>3. n.at = a /\ n.t = t /\ n.todo = plan
  BY DEF Idle
<1> HIDE DEF n
<1>4. CASE a # "checkout"
  <2>1. rq.at \notin {"checkout", "rebase", "done"}
    BY <1>1, <1>2, <1>3, <1>4
  <2> HIDE DEF rq
  <2> QED
    BY <2>1, LeaverSound DEF rq, WorkInv
<1>5. CASE a = "checkout"
  <2>1. t \in Names /\ trees[t].at \in Names
    <3>1. trees[t].at # Detached
      BY <1>2, <1>5, PlanOfBranch
    <3> QED
      BY <3>1 DEF WorkInv, TreesRight, Worktree
  <2> DEFINE b == trees[t].at
  <2>2. plan \in Seq(Task) /\ Len(plan) \in Nat /\ plan # << >>
    BY <1>2, <1>5, <2>1, PlanTasks DEF WorkInv, plan
  <2>3. Plan(t)' = plan
    BY <2>1, PlanSame DEF plan
  <2>4. \A k : Cyclic(k)' <=> Cyclic(k)
    BY CyclicSame
  <2>5. ASSUME Cyclic(b)
        PROVE  \A i \in 1 .. Len(plan) : Cyclic(plan[i].name)
    BY <2>1, <2>5, PlanMembers DEF plan
  <2> HIDE DEF b
  <2>6. ASSUME reqs'[r] = rq
        PROVE  Sound(r)'
    <3>1. reqs'[r].at = "checkout" /\ reqs'[r].t = t /\ reqs'[r].todo = plan
      BY <1>1, <1>3, <1>5, <2>6
    <3>2. Follows(r, t, 0)'
      BY <2>2, <2>3, <3>1 DEF Follows
    <3>3. 0 \in 0 .. Len(plan)
      BY <2>2
    <3>4. Working(r, t, b)'
      BY <2>1, <2>2, <2>3, <2>4, <2>5, <3>1, <3>2, <3>3 DEF Working, b, Trees
    <3> QED
      BY <2>1, <3>4 DEF Sound, b
  <2> HIDE DEF rq
  <2> QED
    BY <2>6, RequestSound DEF rq, WorkInv
<1> QED
  BY <1>4, <1>5

\* A checkout moves in the stack.
LEMMA CheckoutSound ==
  ASSUME WorkInv, SyncsSound, NEW r \in Requests, Checkout(r)
  PROVE  SyncsSound'
<1> DEFINE t == reqs[r].t
           b == Head(reqs[r].todo).name
           rq == [reqs[r] EXCEPT !.at = "rebase"]
<1>1. /\ reqs[r].at = "checkout" /\ UNCHANGED <<heads, track>> /\ Request(reqs[r]) /\ RequestsRight
  BY DEF Checkout, refs, WorkInv, RequestsRight
<1>2. CASE Become(r, Over(reqs[r], FALSE)) /\ UNCHANGED trees
  <2>1. Over(reqs[r], FALSE).at \notin {"checkout", "rebase", "done"}
    BY <1>1 DEF Over, Request
  <2> QED
    BY <1>1, <1>2, <2>1, LeaverSound
<1>3. CASE /\ CanCheckout(t, b) /\ trees' = [trees EXCEPT ![t].at = b]
           /\ IF trees[t].at = b THEN Become(r, rq) ELSE reqs' = Disturb(r, rq)
  <2>1. rq.at = "rebase" /\ rq.t = reqs[r].t /\ rq.todo = reqs[r].todo /\ rq.clean = reqs[r].clean
    BY <1>1 DEF Request
  <2>2. t \in Trees /\ trees' = [trees EXCEPT ![t].at = b] /\ trees \in [Trees -> Worktree]
    BY <1>3 DEF CanCheckout, WorkInv, TreesRight
  <2>3. trees[t].at = b => UNCHANGED trees
    BY <2>2 DEF Worktree
  <2>4. reqs' = Disturb(r, rq) \/ (Become(r, rq) /\ UNCHANGED <<heads, track, trees>>)
    BY <1>1, <1>3, <2>3
  <2>5. ASSUME reqs'[r] = rq
        PROVE  Sound(r)'
    <3> SUFFICES ASSUME Alone(r)'
                 PROVE  \E x \in Names, c \in Names : Working(r, x, c)'
      BY DEF Sound
    <3>1. Alone(r)
      BY <1>1, <2>1, <2>5 DEF Alone
    <3>2. PICK x \in Names, c \in Names : Working(r, x, c)
      BY <3>1 DEF Sound, SyncsSound
    <3>3. x = t /\ trees[x].at = c
      BY <3>2 DEF Working
    <3> HIDE DEF t
    <3> DEFINE todo == reqs[r].todo
    <3>4. todo \in Seq(Task) /\ todo # << >>
      BY <1>1, <3>2 DEF Working
    <3>5. Len(todo) \in Nat /\ Len(todo) >= 1 /\ Head(todo) = todo[1] /\ todo[1] \in Task
      BY <3>4
    <3>6. PICK k \in Names : k = b /\ k = todo[1].name
      BY <3>5 DEF Task
    <3>7. trees'[x].at = k /\ x \in Trees'
      BY <2>2, <3>3, <3>6 DEF Worktree, Trees
    <3> HIDE DEF b, todo, rq
    <3>8. \A y : Cyclic(y)' <=> Cyclic(y)
      BY <1>1, CyclicSame
    <3>9. reqs'[r].at = "rebase" /\ reqs'[r].t = x /\ reqs'[r].todo = todo
      BY <2>1, <2>5, <3>2 DEF Working, todo
    <3>10. CASE Cyclic(c)
      <4>1. \A i \in 1 .. Len(todo), y \in Names : todo[i].name = y => Cyclic(y)
        BY <3>2, <3>10 DEF Working, todo
      <4>2. Cyclic(k)
        BY <3>5, <3>6, <4>1
      <4>3. Working(r, x, k)'
        BY <3>4, <3>5, <3>6, <3>7, <3>8, <3>9, <4>1, <4>2 DEF Working
      <4> QED
        BY <4>3
    <3>11. CASE ~ Cyclic(c)
      <4>1. PICK d \in 0 .. Len(Plan(x)) : Follows(r, x, d)
        BY <3>2, <3>11 DEF Working
      <4>2. Len(Plan(x)) \in Nat /\ Stack(x) = Walk(RootOf(c))
        BY <3>3, PlanIs, StackIs
      <4>3. d + 1 \in 1 .. Len(Plan(x)) /\ Plan(x)[d + 1].name = k
        <5>1. Len(todo) = Len(Plan(x)) - d /\ todo[1] = Plan(x)[d + 1]
          BY <3>5, <4>1 DEF Follows, todo
        <5> QED
          BY <3>5, <3>6, <4>2, <5>1
      <4>4. ~ Cyclic(k) /\ RootOf(k) = RootOf(c)
        BY <3>3, <3>11, <4>3, PlanMembers
      <4>5. Stack(x)' = Walk(RootOf(k))'
        BY <3>7, NamesAre DEF Stack
      <4>6. Walk(RootOf(k))' = Walk(RootOf(k))
        BY <1>1 DEF Walk, Visit, Kids, Up, RootOf, Climb
      <4>7. Stack(x)' = Stack(x)
        BY <4>2, <4>4, <4>5, <4>6
      <4>8. Plan(x)' = Plan(x)
        BY <1>1, <4>7 DEF Plan, OntoOf
      <4>9. Follows(r, x, d)'
        BY <1>1, <3>9, <4>1, <4>8 DEF Follows, Synced, Exists, todo
      <4>10. Working(r, x, k)'
        BY <3>4, <3>5, <3>6, <3>7, <3>8, <3>9, <4>1, <4>4, <4>8, <4>9 DEF Working
      <4> QED
        BY <4>10
    <3> QED
      BY <3>10, <3>11
  <2> HIDE DEF rq
  <2> QED
    BY <1>1, <2>4, <2>5, RequestSound
<1> QED
  BY <1>2, <1>3 DEF Checkout

\* A rebase does the next task and undoes none: what a branch is rebased onto
\* comes before it in the plan.
LEMMA TaskDone ==
  ASSUME WorkInv, NEW t \in Trees, NEW b \in Names, trees[t].at = b, ~ Cyclic(b),
         NEW d \in Nat, d + 1 \in 1 .. Len(Plan(t)), Plan(t)[d + 1].name = b,
         \A i \in 1 .. d : Synced(Plan(t)[i]),
         Exists(b), Exists(Plan(t)[d + 1].onto),
         heads' = [heads EXCEPT ![b] = Rebased(heads[b], heads[Plan(t)[d + 1].onto])],
         UNCHANGED <<track, trees>>
  PROVE  \A i \in 1 .. d + 1 : Synced(Plan(t)[i])'
<1> DEFINE plan == Plan(t)
           onto == plan[d + 1].onto
<1>1. /\ RefsRight /\ heads \in [DOMAIN heads -> Seq(Nat)] /\ b # Main /\ trees[t].at \in Names
      /\ ~ Cyclic(trees[t].at)
  BY WorkstreamsAssumption DEF WorkInv, RefsRight, Names, Main
<1>2. plan' = plan
  BY PlanSame
<1>3. /\ Len(plan) \in Nat
      /\ \A i, j \in 1 .. Len(plan) : plan[i].name = plan[j].name => i = j
  BY <1>1, PlanIs
<1>4. ASSUME NEW i \in 1 .. Len(plan), track[plan[i].name] # Pushed
      PROVE  plan[i].onto = Main \/ \E j \in 1 .. i - 1 : plan[i].onto = plan[j].name
  BY <1>1, <1>4, OntoIs
<1>5. DOMAIN heads' = DOMAIN heads /\ \A x \in DOMAIN heads \ {b} : heads'[x] = heads[x]
  OBVIOUS
<1>6. heads'[b] = Rebased(heads[b], heads[onto]) /\ b \in DOMAIN heads /\ onto \in DOMAIN heads
  BY DEF Exists
<1>7. Begins(heads[onto], heads'[b])
  BY <1>1, <1>6, RebaseKeeps
<1>8. /\ d + 1 \in 1 .. Len(plan) /\ plan[d + 1].name = b
      /\ \A i \in 1 .. d : Synced(plan[i])
  OBVIOUS
<1> HIDE DEF plan, onto
<1>9. ASSUME NEW i \in 1 .. d + 1, track[plan[i].name] # Pushed
      PROVE  plan[i].onto # b
  <2>1. i \in 1 .. Len(plan)
    BY <1>3, <1>8
  <2>2. CASE plan[i].onto = Main
    BY <1>1, <2>2
  <2>3. ASSUME NEW j \in 1 .. i - 1, plan[i].onto = plan[j].name
        PROVE  plan[i].onto # b
    <3>1. j \in 1 .. Len(plan) /\ j # d + 1
      BY <1>3, <2>1
    <3> QED
      BY <1>3, <1>8, <2>3, <3>1
  <2> QED
    BY <1>4, <1>9, <2>1, <2>2, <2>3
<1>10. ASSUME NEW i \in 1 .. d + 1
       PROVE  Synced(plan[i])'
  <2> SUFFICES ASSUME track[plan[i].name] # Pushed
               PROVE  /\ plan[i].name \in DOMAIN heads /\ plan[i].onto \in DOMAIN heads
                      /\ Begins(heads'[plan[i].onto], heads'[plan[i].name])
    BY <1>2, <1>5 DEF Synced, Exists
  <2>1. plan[i].onto # b
    BY <1>9
  <2>2. CASE i = d + 1
    <3>1. plan[i].onto = onto
      BY <2>2 DEF onto
    <3>2. plan[i].name = b
      BY <1>8, <2>2
    <3>3. heads'[onto] = heads[onto]
      BY <1>5, <1>6, <2>1, <3>1
    <3> QED
      BY <1>6, <1>7, <3>1, <3>2, <3>3
  <2>3. CASE i \in 1 .. d
    <3>1. /\ plan[i].name \in DOMAIN heads /\ plan[i].onto \in DOMAIN heads
          /\ Begins(heads[plan[i].onto], heads[plan[i].name])
      BY <1>8, <2>3 DEF Synced, Exists
    <3>2. plan[i].name # b
      <4>1. i \in 1 .. Len(plan) /\ i # d + 1
        BY <1>3, <1>8, <2>3
      <4> QED
        BY <1>3, <1>8, <4>1
    <3>3. heads'[plan[i].onto] = heads[plan[i].onto] /\ heads'[plan[i].name] = heads[plan[i].name]
      BY <1>5, <2>1, <3>1, <3>2
    <3> QED
      BY <3>1, <3>3
  <2> QED
    BY <2>2, <2>3
<1> QED
  BY <1>10 DEF plan

LEMMA RebaseDoneSound ==
  ASSUME WorkInv, SyncsSound, NEW r \in Requests, reqs[r].at = "rebase",
         CanRebase(reqs[r].t, Head(reqs[r].todo).onto), RebaseDone(r, reqs[r].t, Head(reqs[r].todo).onto),
         UNCHANGED track
  PROVE  SyncsSound'
<1> DEFINE todo == reqs[r].todo
           rest == Tail(todo)
           onto == Head(todo).onto
           n == [reqs[r] EXCEPT !.at = "checkout", !.todo = rest]
           rq == IF rest = <<>> THEN Over(reqs[r], TRUE) ELSE n
<1>1. /\ reqs' = Disturb(r, rq) \/ (Become(r, rq) /\ UNCHANGED <<heads, track, trees>>)
      /\ UNCHANGED trees /\ Exists(onto)
      /\ heads' = [heads EXCEPT ![trees[reqs[r].t].at] = Rebased(@, heads[onto])]
  BY DEF RebaseDone, CanRebase
<1>2. RequestsRight /\ Request(reqs[r]) /\ RefsRight /\ TreesRight
  BY DEF WorkInv, RequestsRight
<1>3. /\ rq.todo = rest /\ rq.t = reqs[r].t /\ rq.clean = reqs[r].clean
      /\ rq.at = IF rest = << >> THEN "done" ELSE "checkout"
  BY <1>2 DEF Over, Request
<1> HIDE DEF rq, n
<1>4. ASSUME reqs'[r] = rq
      PROVE  Sound(r)'
  <2> SUFFICES ASSUME Alone(r)'
               PROVE  \E t \in Names, b \in Names : Working(r, t, b)'
    BY DEF Sound
  <2>1. Alone(r)
    BY <1>3, <1>4 DEF Alone
  <2>2. PICK t \in Names, b \in Names : Working(r, t, b)
    BY <2>1 DEF Sound, SyncsSound
  <2>3. reqs[r].t = t /\ t \in Trees /\ trees[t].at = b /\ b = Head(todo).name /\ todo \in Seq(Task) /\ todo # << >>
    BY <2>2 DEF Working
  <2> HIDE DEF todo, rest
  <2>4. /\ Len(todo) \in Nat /\ Len(todo) >= 1 /\ Head(todo) = todo[1]
        /\ rest \in Seq(Task) /\ Len(rest) = Len(todo) - 1
        /\ \A i \in 1 .. Len(rest) : rest[i] = todo[i + 1] /\ i + 1 \in 1 .. Len(todo)
    BY <2>3 DEF rest
  <2>5. Plan(t)' = Plan(t)
    BY <1>1, <2>3, PlanSame
  <2>6. \A k : Cyclic(k)' <=> Cyclic(k)
    BY CyclicSame
  <2>7. reqs'[r].t = t /\ reqs'[r].todo = rest /\ reqs'[r].at = IF rest = << >> THEN "done" ELSE "checkout"
    BY <1>3, <1>4, <2>3
  <2>8. t \in Trees' /\ trees'[t].at = b
    BY <1>1, <2>3 DEF Trees
  <2>9. CASE Cyclic(b)
    <3>1. \A i \in 1 .. Len(rest), k \in Names : rest[i].name = k => Cyclic(k)
      <4>1. \A i \in 1 .. Len(todo), k \in Names : todo[i].name = k => Cyclic(k)
        BY <2>2, <2>9 DEF Working, todo
      <4> QED
        BY <2>4, <4>1
    <3>2. Working(r, t, b)'
      BY <2>4, <2>6, <2>7, <2>8, <2>9, <3>1 DEF Working
    <3> QED
      BY <3>2
  <2>10. CASE ~ Cyclic(b)
    <3>1. PICK d \in 0 .. Len(Plan(t)) : Follows(r, t, d)
      BY <2>2, <2>10 DEF Working
    <3>2. /\ Len(todo) = Len(Plan(t)) - d /\ \A i \in 1 .. d : Synced(Plan(t)[i])
          /\ \A i \in 1 .. Len(todo) : todo[i] = Plan(t)[d + i]
      BY <3>1 DEF Follows, todo
    <3>3. Len(Plan(t)) \in Nat
      BY <1>2, <2>3, PlanTasks
    <3>4. d \in Nat /\ d + 1 \in 1 .. Len(Plan(t)) /\ todo[1] = Plan(t)[d + 1]
      BY <2>4, <3>2, <3>3
    <3>5. Plan(t)[d + 1].name = b /\ Plan(t)[d + 1].onto = onto
      BY <2>3, <2>4, <3>4 DEF todo
    <3>6. Exists(b)
      BY <1>2, <2>3, TreeIs, NamesAre DEF TreesRight, Exists
    <3>7. heads' = [heads EXCEPT ![b] = Rebased(heads[b], heads[Plan(t)[d + 1].onto])]
      BY <1>1, <2>3, <3>5
    <3>8. \A i \in 1 .. d + 1 : Synced(Plan(t)[i])'
      BY <1>1, <2>3, <2>10, <3>2, <3>4, <3>5, <3>6, <3>7, TaskDone
    <3>9. Len(rest) = Len(Plan(t)) - (d + 1) /\ \A i \in 1 .. Len(rest) : rest[i] = Plan(t)[(d + 1) + i]
      <4>1. \A i \in 1 .. Len(rest) : rest[i] = Plan(t)[d + (i + 1)]
        BY <2>4, <3>2
      <4>2. \A i \in 1 .. Len(rest) : d + (i + 1) = (d + 1) + i
        BY <3>4
      <4>3. Len(rest) = Len(Plan(t)) - (d + 1)
        BY <2>4, <3>2, <3>3, <3>4
      <4> QED
        BY <4>1, <4>2, <4>3
    <3>10. Follows(r, t, d + 1)'
      BY <2>5, <2>7, <3>8, <3>9 DEF Follows
    <3>11. d + 1 \in 0 .. Len(Plan(t))
      BY <3>3, <3>4
    <3>12. Working(r, t, b)'
      BY <2>4, <2>5, <2>6, <2>7, <2>8, <2>10, <3>10, <3>11 DEF Working
    <3> QED
      BY <3>12
  <2> QED
    BY <2>9, <2>10
<1> QED
  BY <1>1, <1>2, <1>4, RequestSound

LEMMA RebaseSound ==
  ASSUME WorkInv, SyncsSound, NEW r \in Requests, Rebase(r)
  PROVE  SyncsSound'
<1> DEFINE t == reqs[r].t
           onto == Head(reqs[r].todo).onto
           rq == IF reqs[r].mass THEN [reqs[r] EXCEPT !.at = "abort"] ELSE Over(reqs[r], FALSE)
<1>1. reqs[r].at = "rebase" /\ UNCHANGED track /\ RequestsRight /\ Request(reqs[r])
  BY DEF Rebase, WorkInv, RequestsRight
<1>2. rq.at \notin {"checkout", "rebase", "done"}
  BY <1>1 DEF Over, Request
<1>3. CASE CanRebase(t, onto) /\ RebaseDone(r, t, onto)
  BY <1>1, <1>3, RebaseDoneSound
<1>4. CASE Stopped(r, t, onto)
  <2>1. reqs' = Disturb(r, rq)
    BY <1>4 DEF Stopped
  <2> HIDE DEF rq
  <2> QED
    BY <1>1, <1>2, <2>1, LeaverSound
<1>5. CASE Become(r, rq) /\ UNCHANGED <<heads, trees>>
  <2> HIDE DEF rq
  <2> QED
    BY <1>1, <1>2, <1>5, LeaverSound
<1> QED
  BY <1>3, <1>4, <1>5 DEF Rebase

\* The other steps of the requests.
LEMMA SyncSound ==
  ASSUME WorkInv, SyncsSound, NEW r \in Requests, Sync(r)
  PROVE  SyncsSound'
<1>1. RequestsRight /\ Request(reqs[r])
  BY DEF WorkInv, RequestsRight
<1>2. Over(reqs[r], FALSE).at \notin {"checkout", "rebase", "done"} /\ Idle.at = "idle"
  BY <1>1 DEF Over, Request, Idle
<1>3. ASSUME NEW t \in Trees, RebaseWorkstream(r, t)
      PROVE  SyncsSound'
  <2>1. Become(r, Started(r, t, FALSE, {})) /\ UNCHANGED <<heads, track, trees>>
    BY <1>3 DEF RebaseWorkstream, refs
  <2> QED
    BY <2>1, StartSound
<1>4. CASE MassSync(r)
  <2> DEFINE rest == {t \in Trees : HasBehind(t)}
             rq == [Idle EXCEPT !.at = "next", !.mass = TRUE, !.rest = rest]
  <2>1. Become(r, rq) /\ UNCHANGED <<heads, track, trees>>
    BY <1>4 DEF MassSync, refs
  <2> HIDE DEF rest
  <2>2. rq.at = "next"
    BY DEF Idle
  <2> HIDE DEF rq
  <2> QED
    BY <1>1, <2>1, <2>2, LeaverSound
<1>5. CASE NextWorkstream(r)
  <2>1. reqs[r].at = "next" /\ UNCHANGED <<heads, track, trees>>
    BY <1>5 DEF NextWorkstream, refs
  <2>2. \/ Become(r, Idle)
        \/ \E t : \/ t \in Trees /\ Become(r, Started(r, t, TRUE, reqs[r].rest \ {t}))
                  \/ Become(r, [reqs[r] EXCEPT !.rest = @ \ {t}])
    <3>1. CASE reqs[r].rest = {}
      BY <1>5, <3>1 DEF NextWorkstream
    <3>2. CASE reqs[r].rest # {}
      BY <1>5, <3>2 DEF NextWorkstream
    <3> QED
      BY <3>1, <3>2
  <2>3. CASE Become(r, Idle)
    BY <1>1, <1>2, <2>1, <2>3, LeaverSound
  <2>4. ASSUME NEW t \in Trees, Become(r, Started(r, t, TRUE, reqs[r].rest \ {t}))
        PROVE  SyncsSound'
    BY <2>1, <2>4, StartSound
  <2>5. ASSUME NEW t, Become(r, [reqs[r] EXCEPT !.rest = @ \ {t}])
        PROVE  SyncsSound'
    <3> DEFINE rq == [reqs[r] EXCEPT !.rest = @ \ {t}]
    <3>1. rq.at = "next" /\ Become(r, rq)
      BY <1>1, <2>1, <2>5, RequestRest
    <3> HIDE DEF rq
    <3> QED
      BY <1>1, <2>1, <3>1, LeaverSound
  <2> QED
    BY <2>2, <2>3, <2>4, <2>5
<1>6. CASE AbortRebase(r)
  <2>1. \/ reqs' = Disturb(r, Over(reqs[r], FALSE))
        \/ Become(r, Over(reqs[r], FALSE)) /\ UNCHANGED <<heads, track, trees>>
    BY <1>6 DEF AbortRebase, refs
  <2> QED
    BY <1>1, <1>2, <2>1, LeaverSound
<1>7. CASE SayDone(r)
  <2> DEFINE rq == [reqs[r] EXCEPT !.at = "next", !.t = None]
  <2>1. (Become(r, rq) \/ Become(r, Idle)) /\ UNCHANGED <<heads, track, trees>>
    BY <1>7 DEF SayDone, refs
  <2>2. rq.at = "next"
    BY <1>1, RequestLeaves
  <2> HIDE DEF rq
  <2> QED
    BY <1>1, <1>2, <2>1, <2>2, LeaverSound
<1> QED
  BY <1>3, <1>4, <1>5, <1>6, <1>7, CheckoutSound, RebaseSound DEF Sync

LEMMA PruneSound ==
  ASSUME WorkInv, SyncsSound, NEW r \in Requests, Prune(r)
  PROVE  SyncsSound'
<1>1. RequestsRight /\ Request(reqs[r])
  BY DEF WorkInv, RequestsRight
<1> SUFFICES \E rq : /\ rq.at \notin {"checkout", "rebase", "done"}
                     /\ reqs' = Disturb(r, rq) \/ (Become(r, rq) /\ UNCHANGED <<heads, track, trees>>)
  BY <1>1, LeaverSound
<1>2. CASE ShowPlan(r)
  <2> DEFINE rest == {t \in Trees : AllWorkstreams[t].archived}
             rq == [Idle EXCEPT !.at = "planned", !.rest = rest]
  <2>1. Become(r, rq) /\ UNCHANGED <<heads, track, trees>>
    BY <1>2 DEF ShowPlan, refs
  <2> HIDE DEF rest
  <2>2. rq.at = "planned"
    BY DEF Idle
  <2> HIDE DEF rq
  <2> QED
    BY <2>1, <2>2
<1>3. CASE Cancel(r)
  BY <1>3, IdleIs DEF Cancel, refs
<1>4. CASE PruneStack(r)
  <2>1. UNCHANGED <<heads, track, trees>>
    BY <1>4 DEF PruneStack, refs
  <2>2. \/ Become(r, Idle)
        \/ \E t \in reqs[r].rest : \E s :
             Become(r, [reqs[r] EXCEPT !.at = "remove", !.t = t, !.rest = @ \ {t}, !.todo = s])
    BY <1>4 DEF PruneStack
  <2>3. CASE Become(r, Idle)
    BY <2>1, <2>3, IdleIs
  <2>4. ASSUME NEW t \in reqs[r].rest, NEW s,
               Become(r, [reqs[r] EXCEPT !.at = "remove", !.t = t, !.rest = @ \ {t}, !.todo = s])
        PROVE  \E rq : /\ rq.at \notin {"checkout", "rebase", "done"}
                       /\ Become(r, rq) /\ UNCHANGED <<heads, track, trees>>
    <3> DEFINE rq == [reqs[r] EXCEPT !.at = "remove", !.t = t, !.rest = @ \ {t}, !.todo = s]
    <3>1. rq.at = "remove" /\ Become(r, rq)
      BY <1>1, <2>4 DEF Request
    <3> HIDE DEF rq
    <3> QED
      BY <2>1, <3>1
  <2> QED
    BY <2>2, <2>3, <2>4
<1>5. CASE RemoveWorktree(r)
  <2>1. \E a \in {"delete", "prune"} : LET rq == [reqs[r] EXCEPT !.at = a] IN
          reqs' = Disturb(r, rq) \/ (Become(r, rq) /\ UNCHANGED <<heads, track, trees>>)
    BY <1>5 DEF RemoveWorktree, refs
  <2> QED
    BY <1>1, <2>1, RequestAt
<1>6. CASE DeleteBranch(r)
  <2> DEFINE rest == Tail(reqs[r].todo)
             rq == [reqs[r] EXCEPT !.todo = rest]
  <2>1. /\ reqs[r].at = "delete"
        /\ reqs' = Disturb(r, rq) \/ (Become(r, rq) /\ UNCHANGED <<heads, track, trees>>)
    BY <1>6 DEF DeleteBranch
  <2> HIDE DEF rest
  <2>2. rq.at = "delete"
    BY <1>1, <2>1, RequestTodo
  <2> HIDE DEF rq
  <2> QED
    BY <2>1, <2>2
<1>7. CASE ForgetArchived(r)
  <2> DEFINE rq == [reqs[r] EXCEPT !.at = "prune", !.t = None]
  <2>1. Become(r, rq) /\ UNCHANGED <<heads, track, trees>>
    BY <1>7 DEF ForgetArchived, refs
  <2>2. rq.at = "prune"
    BY <1>1, RequestLeaves
  <2> HIDE DEF rq
  <2> QED
    BY <2>1, <2>2
<1> QED
  BY <1>2, <1>3, <1>4, <1>5, <1>6, <1>7 DEF Prune

LEMMA SoundInit ==
  Init => SyncsSound
BY DEF Init, SyncsSound, Sound, Alone, Idle

LEMMA SoundStep ==
  WorkInv /\ SyncsSound /\ [Next]_vars => SyncsSound'
<1> SUFFICES ASSUME WorkInv, SyncsSound, [Next]_vars
             PROVE  SyncsSound'
  OBVIOUS
<1>1. RequestsRight
  BY DEF WorkInv
<1>2. ASSUME Outside
      PROVE  reqs' = Disturbed \/ UNCHANGED <<reqs, heads, track, trees>>
  BY <1>2 DEF Outside, Edit, Commit, Continue, GiveUp, StackBranch, Push, Switch, MergeRemote, DeleteRemote, MergeOther
<1>3. ASSUME NEW n \in Names, CreateWorkstream(n) \/ ArchiveWorkstream(n) \/ UnarchiveWorkstream(n)
      PROVE  reqs' = Disturbed \/ UNCHANGED <<reqs, heads, track, trees>>
  BY <1>3 DEF CreateWorkstream, ArchiveWorkstream, UnarchiveWorkstream, refs
<1>4. CASE PullMain
  BY <1>1, <1>4, OutsideSound DEF PullMain
<1>5. CASE UNCHANGED vars
  BY <1>1, <1>5, OutsideSound DEF vars, refs
<1> QED
  BY <1>1, <1>2, <1>3, <1>4, <1>5, OutsideSound, SyncSound, PruneSound DEF Next

LEMMA SoundGives ==
  WorkInv /\ SyncsSound => DoneIsUpToDate
<1> SUFFICES ASSUME WorkInv, SyncsSound, NEW r \in Requests, reqs[r].at = "done", reqs[r].clean,
                    NEW e \in ToSet(Stack(reqs[r].t)), track[e.name] # Pushed, ~ Cyclic(e.name)
             PROVE  BehindMain(e) = 0
  BY DEF DoneIsUpToDate
<1>1. PICK t \in Names, b \in Names : Working(r, t, b)
  BY DEF SyncsSound, Sound, Alone
<1>2. reqs[r].t = t /\ trees[t].at = b /\ reqs[r].todo = << >>
  BY <1>1 DEF Working
<1> DEFINE w == Stack(t)
           plan == Plan(t)
<1>3. /\ Len(plan) = Len(w) /\ Len(plan) \in Nat
      /\ \A i \in 1 .. Len(plan) : plan[i] = [name |-> w[i].name, onto |-> OntoOf(w[i].name)]
  BY <1>2, PlanIs
<1>4. ToSet(w) = {w[i] : i \in 1 .. Len(w)}
  BY <1>2, StackIs
<1>5. PICK i \in 1 .. Len(plan) : e = w[i]
  BY <1>2, <1>3, <1>4
<1>6. plan[i].name = e.name
  <2>1. plan[i] = [name |-> w[i].name, onto |-> OntoOf(w[i].name)]
    BY <1>3
  <2> HIDE DEF w, plan
  <2> QED
    BY <1>5, <2>1
<1>7. ~ Cyclic(b)
  BY <1>2, <1>5, <1>6, PlanMembers
<1>8. PICK d \in 0 .. Len(plan) : Follows(r, t, d)
  BY <1>1, <1>7 DEF Working
<1>9. i \in 1 .. d
  <2>1. Len(<< >>) = 0
    OBVIOUS
  <2> QED
    BY <1>2, <1>3, <1>8, <2>1 DEF Follows
<1>10. Synced(plan[i])
  BY <1>8, <1>9 DEF Follows
<1>11. Exists(e.name) /\ Exists(plan[i].onto) /\ Begins(heads[plan[i].onto], heads[e.name])
  BY <1>6, <1>10 DEF Synced
<1>12. Base(e) = heads[plan[i].onto]
  BY <1>2, <1>5, <1>6, <1>7, <1>11, OntoIs DEF WorkInv
<1>13. heads[e.name] \in Seq(Nat) /\ heads[plan[i].onto] \in Seq(Nat)
  BY <1>11 DEF WorkInv, RefsRight, Exists
<1>14. Ahead(heads[e.name], heads[plan[i].onto]) = 0
  BY <1>11, <1>13, NothingAhead
<1> QED
  BY <1>11, <1>12, <1>14 DEF BehindMain

\* A sync that nothing interfered with and that says done leaves no branch of
\* its worktree behind, but for a pushed branch and a cycle.
THEOREM SyncsFinish == Spec => []DoneIsUpToDate
<1>1. Spec => []IInv
  BY InvInit, InvStep, PTL DEF Spec
<1>2. IInv => WorkInv
  BY DEF IInv
<1>3. Spec => []SyncsSound
  BY <1>1, <1>2, SoundInit, SoundStep, PTL DEF Spec
<1> QED
  BY <1>1, <1>2, <1>3, SoundGives, PTL
=============================================================================
