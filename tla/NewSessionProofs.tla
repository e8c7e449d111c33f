---------------------------- MODULE NewSessionProofs ----------------------------
(***************************************************************************)
(* What a new session begins with and what its page shows, for any number  *)
(* of first messages, pages and replies.                                   *)
(***************************************************************************)
EXTENDS NewSession, SequenceTheorems, TLAPS

In(f, s) == \E i \in 1 .. Len(s) : s[i] = f

-----------------------------------------------------------------------------
(* From the CLI to the log.                                                *)

\* The places of handleSend.
Created == {"announce", "replay", "replaying", "started", "sync", "syncing", "bind", "render", "show",
            "running", "done", "ended"}
Announced == Created \ {"announce"}
BoundPcs == Announced \ {"replay"}
Handing == BoundPcs \ {"replaying"}
Synced == Handing \ {"started", "sync", "syncing"}

\* Who holds what of a session: events are buffered until it is bound, replayed
\* under the lock, and handled one by one after that.
HandsOver(p) ==
  /\ binding[p].bound <=> pc[p] \in BoundPcs
  /\ binding[p].locked <=> pc[p] = "replaying"
  /\ pc[p] \in Handing => binding[p].buffered = <<>>
  /\ inHand[p] # Nothing => pc[p] \in Handing
  /\ ask[p] \in {"registered", "waiting"} => pc[p] \in BoundPcs
  /\ pc[p] = "failed" => ~ cli[p].up
  /\ log[p] # <<>> => pc[p] \in Announced

\* What one place has of the CLI's words was said before what another one has.
Rising(s) == \A i, j \in 1 .. Len(s) : s[i] \in Spoken /\ s[j] \in Spoken /\ i < j => Rank(s[i]) < Rank(s[j])
Below(s, t) == \A f, g \in Spoken : In(f, s) /\ In(g, t) => Rank(f) < Rank(g)
InTurn(p) ==
  /\ Rising(log[p]) /\ Rising(binding[p].buffered) /\ Rising(stdout[p])
  /\ Below(log[p], binding[p].buffered) /\ Below(log[p], stdout[p]) /\ Below(binding[p].buffered, stdout[p])
  /\ \A f \in Spoken : In(f, log[p]) /\ inHand[p] \in Spoken => Rank(f) < Rank(inHand[p])
  /\ \A f \in Spoken : In(f, stdout[p]) /\ inHand[p] \in Spoken => Rank(inHand[p]) < Rank(f)

\* What the CLI said is in one of the places, and nothing else is.
SaidBy(p) == {Reply(n) : n \in 1 .. cli[p].replies} \cup (IF cli[p].ended THEN {<<"result", 0>>} ELSE {})
Somewhere(f, p) == In(f, log[p]) \/ inHand[p] = f \/ In(f, binding[p].buffered) \/ In(f, stdout[p])
AllSaid(p) == \A f \in Spoken : f \in SaidBy(p) <=> Somewhere(f, p)

\* What the server itself broadcasts.
Broadcasts(p) ==
  /\ In(<<"user", 0>>, log[p]) <=> pc[p] \in Announced
  /\ In(<<"started", 0>>, log[p]) <=> pc[p] \in Synced \cup {"sync", "syncing"}
  /\ In(<<"running", 0>>, log[p]) <=> pc[p] \in {"done", "ended"}
  /\ In(<<"ended", 0>>, log[p]) <=> pc[p] = "ended"
  /\ In(<<"ask", 0>>, log[p]) <=> ask[p] = "waiting"
Once(p) ==
  /\ \A i, j \in 1 .. Len(log[p]) : log[p][i] = log[p][j] => i = j
  /\ log[p] # <<>> => log[p][1] = <<"user", 0>>

Flow(p) == HandsOver(p) /\ InTurn(p) /\ AllSaid(p) /\ Broadcasts(p) /\ Once(p)

-----------------------------------------------------------------------------
(* From the log to the model.                                              *)

\* The messages the model has applied are those up to here.
Done(p) == Len(log[p]) - (Len(queue[p]) - (IF pc[p] = "syncing" THEN 1 ELSE 0))

\* The queue has the rest, and the mark of Sync comes after session_started.
Queued(p) ==
  /\ Done(p) \in 0 .. Len(log[p])
  /\ pc[p] # "syncing" => \A i \in 1 .. Len(queue[p]) : queue[p][i] = log[p][Done(p) + i]
  /\ pc[p] = "syncing" => \E s \in 1 .. Len(queue[p]) :
       /\ queue[p][s] = <<"sync", 0>>
       /\ \A i \in 1 .. s - 1 : queue[p][i] = log[p][Done(p) + i]
       /\ \A i \in s + 1 .. Len(queue[p]) : queue[p][i] = log[p][Done(p) + i - 1]
       /\ \A i \in 1 .. Len(log[p]) : log[p][i] = <<"started", 0>> => i < Done(p) + s

\* The chips in the order of the conversation.
Word(i) == IF i = 1 THEN <<"user", 0>> ELSE Reply(i - 1)
Applied(p) ==
  /\ m[p].seen = {log[p][i] : i \in 1 .. Done(p)}
  /\ \A i \in 1 .. Len(m[p].chips) : m[p].chips[i] = Word(i)
  /\ \A i \in 1 .. MaxReplies + 1 : Word(i) \in m[p].seen <=> i <= Len(m[p].chips)
  /\ applied[p].msg # Nothing => Done(p) # 0 /\ applied[p].msg = log[p][Done(p)]
  /\ applied[p].msg = Nothing => ~ applied[p].changed

\* Why the model has a turn going on or a permission pending.
StateFolds(p) ==
  /\ m[p].turn => \E i \in 1 .. Done(p) :
       /\ log[p][i] = <<"running", 0>>
       /\ \A j \in i .. Done(p) : log[p][j] # <<"result", 0>>
  /\ m[p].perm => <<"ask", 0>> \in m[p].seen
  /\ <<"ask", 0>> \in m[p].seen =>
       \/ m[p].perm
       \/ \E i, j \in 1 .. Done(p) : i < j /\ log[p][i] = <<"ask", 0>> /\ log[p][j] = <<"started", 0>>

\* Sync has waited for all that came up to session_started.
SyncedUp(p) ==
  pc[p] \in Synced => \A i \in 1 .. Len(log[p]) : log[p][i] = <<"started", 0>> =>
    i <= Done(p) /\ (applied[p].msg # Nothing => i < Done(p))

Folds(p) == Queued(p) /\ Applied(p) /\ StateFolds(p) /\ SyncedUp(p)

-----------------------------------------------------------------------------
(* From the model to the page.                                             *)

\* What the full render read is the model, but for one message.
SnapshotRight(p) ==
  pc[p] = "show" /\ ~ crossed[p] =>
    IF applied[p].msg = Nothing \/ applied[p].msg \in snapshot[p].seen THEN m[p] = snapshot[p]
    ELSE /\ m[p] = ApplyMsg(snapshot[p], applied[p].msg)
         /\ applied[p].changed <=> Active(m[p]) # Active(snapshot[p])

\* A page shows the model, but for the message that is to be pushed.
PageRight(p) ==
  \A c \in Clients : client[c] = p =>
    /\ pc[p] \in {"render", "show", "running", "done", "ended"}
    /\ pc[p] \in {"running", "done", "ended"} /\ ~ crossed[p] =>
         /\ m[p].chips = page[c].chips \o (IF applied[p].msg = Nothing THEN <<>> ELSE Chips(applied[p].msg))
         /\ page[c].running <=> (Active(m[p]) # applied[p].changed)
         /\ m[p].perm => page[c].prompt \/ applied[p].msg = <<"ask", 0>>

SessionInv ==
  TypeOK /\ \A p \in Sends : Flow(p) /\ Folds(p) /\ SnapshotRight(p) /\ PageRight(p)

-----------------------------------------------------------------------------
(* Steps.                                                                  *)

Announces(p) == BroadcastUserMessage(p) \/ BroadcastStarted(p) \/ BroadcastRunning(p) \/ Watch(p)
Goes(p) == Start(p) \/ Send(p) \/ Fails(p) \/ Create(p) \/ Bind(p) \/ Replayed(p) \/ Sync(p)
           \/ BindClients(p) \/ Render(p) \/ Show(p)
Step(p) == Goes(p) \/ Announces(p) \/ Replay(p) \/ Scan(p) \/ Permission(p) \/ Model(p) \/ CliSays(p)
           \/ CliAsks(p) \/ CliExits(p)

\* Every step is the step of one send.
LEMMA NextSteps == Next => \E p \in Sends : Step(p)
<1>1. ASSUME NEW p \in Sends, Handler(p)
      PROVE  Step(p)
  <2>1. Goes(p) \/ Announces(p) \/ Replay(p)
    BY <1>1 DEF Handler, Goes, Announces
  <2> QED
    BY <2>1 DEF Step
<1>2. ASSUME NEW p \in Sends, Scan(p) \/ Permission(p) \/ Model(p) \/ CliSays(p) \/ CliAsks(p) \/ CliExits(p)
      PROVE  Step(p)
  BY <1>2 DEF Step
<1> QED
  BY <1>1, <1>2 DEF Next

\* What Append and Tail do to what a sequence holds.
LEMMA AppendHolds ==
  ASSUME NEW S, NEW s \in Seq(S), NEW x \in S
  PROVE  /\ Append(s, x) \in Seq(S) /\ Append(s, x) # <<>>
         /\ Len(Append(s, x)) = Len(s) + 1
         /\ \A i \in 1 .. Len(s) : Append(s, x)[i] = s[i]
         /\ Append(s, x)[Len(s) + 1] = x
         /\ \A f : In(f, Append(s, x)) <=> In(f, s) \/ f = x
<1>1. Len(s) \in Nat
  BY LenProperties
<1>2. /\ Append(s, x) \in Seq(S) /\ Append(s, x) # <<>>
      /\ Len(Append(s, x)) = Len(s) + 1
      /\ \A i \in 1 .. Len(s) : Append(s, x)[i] = s[i]
      /\ Append(s, x)[Len(s) + 1] = x
  BY <1>1, AppendProperties
<1>3. \A i \in 1 .. Len(s) + 1 : i \in 1 .. Len(s) \/ i = Len(s) + 1
  BY <1>1
<1>4. \A i \in 1 .. Len(s) : i \in 1 .. Len(s) + 1
  BY <1>1
<1>5. Len(s) + 1 \in 1 .. Len(s) + 1
  BY <1>1
<1> DEFINE t == Append(s, x)
<1> HIDE DEF t
<1>6. ASSUME NEW f, In(f, t)
      PROVE  In(f, s) \/ f = x
  BY <1>2, <1>3, <1>6 DEF In, t
<1>7. ASSUME NEW f, In(f, s) \/ f = x
      PROVE  In(f, t)
  BY <1>2, <1>4, <1>5, <1>7 DEF In, t
<1> QED
  BY <1>2, <1>6, <1>7 DEF t

\* What Tail takes away, and what it leaves.
LEMMA TailHolds ==
  ASSUME NEW S, NEW s \in Seq(S), s # <<>>
  PROVE  /\ Tail(s) \in Seq(S) /\ Len(s) \in Nat \ {0}
         /\ Len(Tail(s)) = Len(s) - 1
         /\ \A i \in 1 .. Len(Tail(s)) : Tail(s)[i] = s[i + 1]
         /\ Head(s) = s[1] /\ Head(s) \in S
         /\ \A f : In(f, s) <=> In(f, Tail(s)) \/ f = Head(s)
<1>1. Len(s) \in Nat /\ Len(s) # 0
  BY EmptySeq, LenProperties
<1>2. /\ Tail(s) \in Seq(S)
      /\ Len(Tail(s)) = Len(s) - 1
      /\ \A i \in 1 .. Len(Tail(s)) : Tail(s)[i] = s[i + 1]
      /\ Head(s) \in S
  BY <1>1, HeadTailProperties
<1>3. Head(s) = s[1]
  BY <1>1
<1>4. \A i \in 1 .. Len(s) : i = 1 \/ i - 1 \in 1 .. Len(s) - 1
  BY <1>1
<1>5. \A i \in 1 .. Len(s) : i - 1 + 1 = i
  BY <1>1
<1>6. \A i \in 1 .. Len(s) - 1 : i + 1 \in 1 .. Len(s)
  BY <1>1
<1>7. 1 \in 1 .. Len(s)
  BY <1>1
<1> DEFINE t == Tail(s)
<1> HIDE DEF t
<1>8. ASSUME NEW f, In(f, s)
      PROVE  In(f, t) \/ f = Head(s)
  <2>1. PICK i \in 1 .. Len(s) : s[i] = f
    BY <1>8 DEF In
  <2>2. CASE i = 1
    BY <1>3, <2>1, <2>2
  <2>3. CASE i # 1
    <3>1. i - 1 \in 1 .. Len(t) /\ t[i - 1] = s[i - 1 + 1]
      BY <1>2, <1>4, <2>3 DEF t
    <3> QED
      BY <1>5, <2>1, <3>1 DEF In
  <2> QED
    BY <2>2, <2>3
<1>9. ASSUME NEW f, In(f, t) \/ f = Head(s)
      PROVE  In(f, s)
  BY <1>2, <1>3, <1>6, <1>7, <1>9 DEF In, t
<1> QED
  BY <1>1, <1>2, <1>3, <1>8, <1>9 DEF t

\* What a change of one field makes of the record of a send.
Clis == [up : BOOLEAN, got : BOOLEAN, named : BOOLEAN, replies : 0 .. MaxReplies, ended : BOOLEAN]
Bindings == [bound : BOOLEAN, buffered : Seq(Spoken), locked : BOOLEAN]
CliNow(p, up, got, named, replies, ended) ==
  cli' = [cli EXCEPT ![p] = [up |-> up, got |-> got, named |-> named, replies |-> replies, ended |-> ended]]
BindingNow(p, bound, buffered, locked) ==
  binding' = [binding EXCEPT ![p] = [bound |-> bound, buffered |-> buffered, locked |-> locked]]

\* An update of one part of a CLI's record, as the new record.
LEMMA CliChanges ==
  ASSUME TypeOK, NEW p \in Sends, NEW x
  PROVE  /\ cli' = [cli EXCEPT ![p].up = x] => CliNow(p, x, cli[p].got, cli[p].named, cli[p].replies, cli[p].ended)
         /\ cli' = [cli EXCEPT ![p].got = x] => CliNow(p, cli[p].up, x, cli[p].named, cli[p].replies, cli[p].ended)
         /\ cli' = [cli EXCEPT ![p].named = x] => CliNow(p, cli[p].up, cli[p].got, x, cli[p].replies, cli[p].ended)
         /\ cli' = [cli EXCEPT ![p].replies = x] => CliNow(p, cli[p].up, cli[p].got, cli[p].named, x, cli[p].ended)
         /\ cli' = [cli EXCEPT ![p].ended = x] => CliNow(p, cli[p].up, cli[p].got, cli[p].named, cli[p].replies, x)
<1> DEFINE q == [up |-> cli[p].up, got |-> cli[p].got, named |-> cli[p].named, replies |-> cli[p].replies, ended |-> cli[p].ended]
<1>1. cli[p] = q /\ cli = [r \in Sends |-> cli[r]]
  BY DEF TypeOK
<1>2. [cli EXCEPT ![p].up = x] = [cli EXCEPT ![p] = [up |-> x, got |-> cli[p].got, named |-> cli[p].named, replies |-> cli[p].replies, ended |-> cli[p].ended]]
  <2>1. [q EXCEPT !.up = x] = [up |-> x, got |-> cli[p].got, named |-> cli[p].named, replies |-> cli[p].replies, ended |-> cli[p].ended]
    OBVIOUS
  <2> HIDE DEF q
  <2>2. [cli EXCEPT ![p].up = x] = [cli EXCEPT ![p] = [q EXCEPT !.up = x]]
    BY <1>1
  <2> QED
    BY <2>1, <2>2
<1>3. [cli EXCEPT ![p].got = x] = [cli EXCEPT ![p] = [up |-> cli[p].up, got |-> x, named |-> cli[p].named, replies |-> cli[p].replies, ended |-> cli[p].ended]]
  <2>1. [q EXCEPT !.got = x] = [up |-> cli[p].up, got |-> x, named |-> cli[p].named, replies |-> cli[p].replies, ended |-> cli[p].ended]
    OBVIOUS
  <2> HIDE DEF q
  <2>2. [cli EXCEPT ![p].got = x] = [cli EXCEPT ![p] = [q EXCEPT !.got = x]]
    BY <1>1
  <2> QED
    BY <2>1, <2>2
<1>4. [cli EXCEPT ![p].named = x] = [cli EXCEPT ![p] = [up |-> cli[p].up, got |-> cli[p].got, named |-> x, replies |-> cli[p].replies, ended |-> cli[p].ended]]
  <2>1. [q EXCEPT !.named = x] = [up |-> cli[p].up, got |-> cli[p].got, named |-> x, replies |-> cli[p].replies, ended |-> cli[p].ended]
    OBVIOUS
  <2> HIDE DEF q
  <2>2. [cli EXCEPT ![p].named = x] = [cli EXCEPT ![p] = [q EXCEPT !.named = x]]
    BY <1>1
  <2> QED
    BY <2>1, <2>2
<1>5. [cli EXCEPT ![p].replies = x] = [cli EXCEPT ![p] = [up |-> cli[p].up, got |-> cli[p].got, named |-> cli[p].named, replies |-> x, ended |-> cli[p].ended]]
  <2>1. [q EXCEPT !.replies = x] = [up |-> cli[p].up, got |-> cli[p].got, named |-> cli[p].named, replies |-> x, ended |-> cli[p].ended]
    OBVIOUS
  <2> HIDE DEF q
  <2>2. [cli EXCEPT ![p].replies = x] = [cli EXCEPT ![p] = [q EXCEPT !.replies = x]]
    BY <1>1
  <2> QED
    BY <2>1, <2>2
<1>6. [cli EXCEPT ![p].ended = x] = [cli EXCEPT ![p] = [up |-> cli[p].up, got |-> cli[p].got, named |-> cli[p].named, replies |-> cli[p].replies, ended |-> x]]
  <2>1. [q EXCEPT !.ended = x] = [up |-> cli[p].up, got |-> cli[p].got, named |-> cli[p].named, replies |-> cli[p].replies, ended |-> x]
    OBVIOUS
  <2> HIDE DEF q
  <2>2. [cli EXCEPT ![p].ended = x] = [cli EXCEPT ![p] = [q EXCEPT !.ended = x]]
    BY <1>1
  <2> QED
    BY <2>1, <2>2
<1> QED
  BY <1>2, <1>3, <1>4, <1>5, <1>6 DEF CliNow

\* The same of what the event callback and handleSend share.
LEMMA BindingChanges ==
  ASSUME TypeOK, NEW p \in Sends, NEW x, NEW y
  PROVE  /\ binding' = [binding EXCEPT ![p].bound = x] => BindingNow(p, x, binding[p].buffered, binding[p].locked)
         /\ binding' = [binding EXCEPT ![p].buffered = x] => BindingNow(p, binding[p].bound, x, binding[p].locked)
         /\ binding' = [binding EXCEPT ![p].locked = x] => BindingNow(p, binding[p].bound, binding[p].buffered, x)
         /\ binding' = [binding EXCEPT ![p].bound = y, ![p].locked = x] =>
              BindingNow(p, y, binding[p].buffered, x)
<1> DEFINE q == [bound |-> binding[p].bound, buffered |-> binding[p].buffered, locked |-> binding[p].locked]
<1>1. binding[p] = q /\ binding = [r \in Sends |-> binding[r]]
  BY DEF TypeOK
<1>2. [binding EXCEPT ![p].bound = x] = [binding EXCEPT ![p] = [bound |-> x, buffered |-> binding[p].buffered, locked |-> binding[p].locked]]
  <2>1. [q EXCEPT !.bound = x] = [bound |-> x, buffered |-> binding[p].buffered, locked |-> binding[p].locked]
    OBVIOUS
  <2> HIDE DEF q
  <2>2. [binding EXCEPT ![p].bound = x] = [binding EXCEPT ![p] = [q EXCEPT !.bound = x]]
    BY <1>1
  <2> QED
    BY <2>1, <2>2
<1>3. [binding EXCEPT ![p].buffered = x] = [binding EXCEPT ![p] = [bound |-> binding[p].bound, buffered |-> x, locked |-> binding[p].locked]]
  <2>1. [q EXCEPT !.buffered = x] = [bound |-> binding[p].bound, buffered |-> x, locked |-> binding[p].locked]
    OBVIOUS
  <2> HIDE DEF q
  <2>2. [binding EXCEPT ![p].buffered = x] = [binding EXCEPT ![p] = [q EXCEPT !.buffered = x]]
    BY <1>1
  <2> QED
    BY <2>1, <2>2
<1>4. [binding EXCEPT ![p].locked = x] = [binding EXCEPT ![p] = [bound |-> binding[p].bound, buffered |-> binding[p].buffered, locked |-> x]]
  <2>1. [q EXCEPT !.locked = x] = [bound |-> binding[p].bound, buffered |-> binding[p].buffered, locked |-> x]
    OBVIOUS
  <2> HIDE DEF q
  <2>2. [binding EXCEPT ![p].locked = x] = [binding EXCEPT ![p] = [q EXCEPT !.locked = x]]
    BY <1>1
  <2> QED
    BY <2>1, <2>2
<1>5. [binding EXCEPT ![p].bound = y, ![p].locked = x] = [binding EXCEPT ![p] = [bound |-> y, buffered |-> binding[p].buffered, locked |-> x]]
  <2>1. [[q EXCEPT !.bound = y] EXCEPT !.locked = x] = [bound |-> y, buffered |-> binding[p].buffered, locked |-> x]
    <3>1. [q EXCEPT !.bound = y] = [bound |-> y, buffered |-> binding[p].buffered, locked |-> binding[p].locked]
      OBVIOUS
    <3>2. [[bound |-> y, buffered |-> binding[p].buffered, locked |-> binding[p].locked] EXCEPT !.locked = x] = [bound |-> y, buffered |-> binding[p].buffered, locked |-> x]
      OBVIOUS
    <3> QED
      BY <3>1, <3>2
  <2> HIDE DEF q
  <2>2. [binding EXCEPT ![p].bound = y, ![p].locked = x] =
          [binding EXCEPT ![p] = [[q EXCEPT !.bound = y] EXCEPT !.locked = x]]
    BY <1>1
  <2> QED
    BY <2>1, <2>2
<1> QED
  BY <1>2, <1>3, <1>4, <1>5 DEF BindingNow

\* What handleSend does to the CLI.
LEMMA CliForms ==
  ASSUME TypeOK, NEW p \in Sends
  PROVE  /\ Start(p) => CliNow(p, TRUE, cli[p].got, cli[p].named, cli[p].replies, cli[p].ended)
         /\ Send(p) => CliNow(p, cli[p].up, TRUE, cli[p].named, cli[p].replies, cli[p].ended)
         /\ Fails(p) \/ CliExits(p) =>
              CliNow(p, FALSE, cli[p].got, cli[p].named, cli[p].replies, cli[p].ended)
<1>1. Start(p) => CliNow(p, TRUE, cli[p].got, cli[p].named, cli[p].replies, cli[p].ended)
  BY CliChanges DEF Start
<1>2. Send(p) => CliNow(p, cli[p].up, TRUE, cli[p].named, cli[p].replies, cli[p].ended)
  BY CliChanges DEF Send
<1>3. Fails(p) \/ CliExits(p) =>
        CliNow(p, FALSE, cli[p].got, cli[p].named, cli[p].replies, cli[p].ended)
  BY CliChanges DEF Fails, FailsIf, CliExits
<1> QED
  BY <1>1, <1>2, <1>3

\* What the CLI says and how it changes by that.
LEMMA SaysForms ==
  ASSUME TypeOK, NEW p \in Sends, CliSays(p)
  PROVE  \/ /\ CliNow(p, cli[p].up, cli[p].got, TRUE, cli[p].replies, cli[p].ended)
            /\ stdout' = [stdout EXCEPT ![p] = Append(@, <<"id", 0>>)]
         \/ /\ cli[p].replies < MaxReplies
            /\ CliNow(p, cli[p].up, cli[p].got, cli[p].named, cli[p].replies + 1, cli[p].ended)
            /\ stdout' = [stdout EXCEPT ![p] = Append(@, Reply(cli[p].replies + 1))]
         \/ /\ CliNow(p, cli[p].up, cli[p].got, cli[p].named, cli[p].replies, TRUE)
            /\ stdout' = [stdout EXCEPT ![p] = Append(@, <<"result", 0>>)]
<1>1. CASE /\ cli' = [cli EXCEPT ![p].named = TRUE]
            /\ stdout' = [stdout EXCEPT ![p] = Append(@, <<"id", 0>>)]
  BY <1>1, CliChanges
<1>2. CASE /\ cli[p].replies < MaxReplies /\ cli' = [cli EXCEPT ![p].replies = @ + 1]
            /\ stdout' = [stdout EXCEPT ![p] = Append(@, Reply(cli[p].replies + 1))]
  BY <1>2, CliChanges
<1>3. CASE /\ cli' = [cli EXCEPT ![p].ended = TRUE]
            /\ stdout' = [stdout EXCEPT ![p] = Append(@, <<"result", 0>>)]
  BY <1>3, CliChanges
<1> QED
  BY <1>1, <1>2, <1>3 DEF CliSays

\* What handleSend does to the binding.
LEMMA BindingForms ==
  ASSUME TypeOK, NEW p \in Sends
  PROVE  /\ Create(p) => BindingNow(p, FALSE, binding[p].buffered, binding[p].locked)
         /\ Bind(p) => BindingNow(p, TRUE, binding[p].buffered, TRUE)
         /\ Replay(p) => BindingNow(p, binding[p].bound, Tail(binding[p].buffered), binding[p].locked)
         /\ Replayed(p) => BindingNow(p, binding[p].bound, binding[p].buffered, FALSE)
<1>1. Create(p) => BindingNow(p, FALSE, binding[p].buffered, binding[p].locked)
  BY BindingChanges DEF Create
<1>2. Bind(p) => BindingNow(p, TRUE, binding[p].buffered, TRUE)
  BY BindingChanges DEF Bind, BindAs
<1>3. Replay(p) => BindingNow(p, binding[p].bound, Tail(binding[p].buffered), binding[p].locked)
  BY BindingChanges DEF Replay
<1>4. Replayed(p) => BindingNow(p, binding[p].bound, binding[p].buffered, FALSE)
  BY BindingChanges DEF Replayed
<1> QED
  BY <1>1, <1>2, <1>3, <1>4

\* What the scan goroutine does with a frame.
LEMMA EventForms ==
  ASSUME TypeOK, NEW p \in Sends, OnEvent(p)
  PROVE  /\ stdout[p] # <<>> /\ inHand[p] = Nothing /\ ~ binding[p].locked
         /\ stdout' = [stdout EXCEPT ![p] = Tail(@)]
         /\ \/ /\ Head(stdout[p]) = <<"id", 0>>
               /\ UNCHANGED <<binding, inHand>>
            \/ /\ Head(stdout[p]) \in Spoken /\ binding[p].bound
               /\ inHand' = [inHand EXCEPT ![p] = Head(stdout[p])] /\ UNCHANGED binding
            \/ /\ Head(stdout[p]) \in Spoken /\ ~ binding[p].bound
               /\ BindingNow(p, FALSE, Append(binding[p].buffered, Head(stdout[p])), FALSE)
               /\ UNCHANGED inHand
<1>1. stdout[p] # <<>> /\ inHand[p] = Nothing /\ ~ binding[p].locked /\ stdout' = [stdout EXCEPT ![p] = Tail(@)]
  BY DEF OnEvent
<1>2. Head(stdout[p]) \in Frames
  BY <1>1, TailHolds DEF TypeOK
<1>3. CASE Head(stdout[p])[1] = "id"
  <2>1. Head(stdout[p]) = <<"id", 0>>
    BY <1>2, <1>3 DEF Frames, Spoken
  <2> QED
    BY <1>1, <1>3, <2>1 DEF OnEvent
<1>4. CASE Head(stdout[p])[1] # "id"
  <2>1. Head(stdout[p]) \in Spoken
    BY <1>2, <1>4 DEF Frames
  <2>2. CASE binding[p].bound
    BY <1>1, <1>4, <2>1, <2>2 DEF OnEvent
  <2>3. CASE ~ binding[p].bound
    <3>1. binding' = [binding EXCEPT ![p].buffered = Append(@, Head(stdout[p]))] /\ UNCHANGED inHand
      BY <1>4, <2>3 DEF OnEvent
    <3>2. BindingNow(p, binding[p].bound, Append(binding[p].buffered, Head(stdout[p])), binding[p].locked)
      BY <3>1, BindingChanges
    <3>3. binding[p].bound = FALSE /\ binding[p].locked = FALSE
      BY <1>1, <2>3 DEF TypeOK
    <3> QED
      BY <1>1, <2>1, <2>3, <3>1, <3>2, <3>3
  <2> QED
    BY <2>2, <2>3
<1> QED
  BY <1>3, <1>4

\* The parts of the records are of their types.
LEMMA FieldTypes ==
  ASSUME TypeOK, NEW p \in Sends
  PROVE  /\ cli[p].up \in BOOLEAN /\ cli[p].got \in BOOLEAN /\ cli[p].named \in BOOLEAN
         /\ cli[p].replies \in 0 .. MaxReplies /\ cli[p].ended \in BOOLEAN
         /\ binding[p].bound \in BOOLEAN /\ binding[p].locked \in BOOLEAN
         /\ binding[p].buffered \in Seq(Spoken)
         /\ cli \in [Sends -> Clis] /\ binding \in [Sends -> Bindings]
         /\ \A x \in Spoken : Append(binding[p].buffered, x) \in Seq(Spoken)
         /\ binding[p].buffered # <<>> => Tail(binding[p].buffered) \in Seq(Spoken)
<1>1. binding[p].buffered \in Seq(Spoken)
  BY DEF TypeOK
<1>2. binding[p].buffered # <<>> => Tail(binding[p].buffered) \in Seq(Spoken)
  BY <1>1, TailHolds
<1>3. \A x \in Spoken : Append(binding[p].buffered, x) \in Seq(Spoken)
  BY <1>1, AppendHolds
<1> QED
  BY <1>1, <1>2, <1>3 DEF TypeOK, Clis, Bindings

\* The records keep their types.
LEMMA CliStays ==
  ASSUME TypeOK, NEW p \in Sends,
         Start(p) \/ Send(p) \/ Fails(p) \/ CliExits(p) \/ CliSays(p)
  PROVE  cli' \in [Sends -> Clis]
<1>1. CASE Start(p)
  <2>1. CliNow(p, TRUE, cli[p].got, cli[p].named, cli[p].replies, cli[p].ended)
    BY <1>1, CliForms
  <2> QED
    BY <2>1, FieldTypes DEF CliNow, Clis
<1>2. CASE Send(p)
  <2>1. CliNow(p, cli[p].up, TRUE, cli[p].named, cli[p].replies, cli[p].ended)
    BY <1>2, CliForms
  <2> QED
    BY <2>1, FieldTypes DEF CliNow, Clis
<1>3. CASE Fails(p) \/ CliExits(p)
  <2>1. CliNow(p, FALSE, cli[p].got, cli[p].named, cli[p].replies, cli[p].ended)
    BY <1>3, CliForms
  <2> QED
    BY <2>1, FieldTypes DEF CliNow, Clis
<1>4. CASE CliSays(p)
  <2>1. CASE CliNow(p, cli[p].up, cli[p].got, TRUE, cli[p].replies, cli[p].ended)
    BY <2>1, FieldTypes DEF CliNow, Clis
  <2>2. CASE /\ cli[p].replies < MaxReplies
             /\ CliNow(p, cli[p].up, cli[p].got, cli[p].named, cli[p].replies + 1, cli[p].ended)
    <3>1. cli[p].replies + 1 \in 0 .. MaxReplies
      BY <2>2, FieldTypes, NewSessionAssumption
    <3> QED
      BY <2>2, <3>1, FieldTypes DEF CliNow, Clis
  <2>3. CASE CliNow(p, cli[p].up, cli[p].got, cli[p].named, cli[p].replies, TRUE)
    BY <2>3, FieldTypes DEF CliNow, Clis
  <2> QED
    BY <1>4, <2>1, <2>2, <2>3, SaysForms
<1> QED
  BY <1>1, <1>2, <1>3, <1>4

\* The binding keeps its type.
LEMMA BindingStays ==
  ASSUME TypeOK, NEW p \in Sends,
         Create(p) \/ Bind(p) \/ Replay(p) \/ Replayed(p) \/ OnEvent(p)
  PROVE  binding' \in [Sends -> Bindings]
<1>1. CASE Create(p)
  <2>1. BindingNow(p, FALSE, binding[p].buffered, binding[p].locked)
    BY <1>1, BindingForms
  <2> QED
    BY <2>1, FieldTypes DEF BindingNow, Bindings
<1>2. CASE Bind(p)
  <2>1. BindingNow(p, TRUE, binding[p].buffered, TRUE)
    BY <1>2, BindingForms
  <2> QED
    BY <2>1, FieldTypes DEF BindingNow, Bindings
<1>3. CASE Replay(p)
  <2>1. BindingNow(p, binding[p].bound, Tail(binding[p].buffered), binding[p].locked)
    BY <1>3, BindingForms
  <2>2. binding[p].buffered # <<>>
    BY <1>3 DEF Replay
  <2> QED
    BY <2>1, <2>2, FieldTypes DEF BindingNow, Bindings
<1>4. CASE Replayed(p)
  <2>1. BindingNow(p, binding[p].bound, binding[p].buffered, FALSE)
    BY <1>4, BindingForms
  <2> QED
    BY <2>1, FieldTypes DEF BindingNow, Bindings
<1>5. CASE OnEvent(p)
  <2>1. CASE UNCHANGED binding
    BY <2>1, FieldTypes
  <2>2. CASE /\ Head(stdout[p]) \in Spoken
             /\ BindingNow(p, FALSE, Append(binding[p].buffered, Head(stdout[p])), FALSE)
    BY <2>2, FieldTypes DEF BindingNow, Bindings
  <2> QED
    BY <1>5, <2>1, <2>2, EventForms
<1> QED
  BY <1>1, <1>2, <1>3, <1>4, <1>5

-----------------------------------------------------------------------------
(* Types.                                                                  *)

\* Apply leads from a state of the model to one.
LEMMA ApplyTypes ==
  ASSUME NEW before \in States, NEW msg \in Msgs
  PROVE  ApplyMsg(before, msg) \in States
<1>1. Chips(msg) \in Seq(Msgs)
  BY DEF Chips
<1>2. before.chips \o Chips(msg) \in Seq(Msgs)
  BY <1>1, ConcatProperties DEF States
<1> QED
  BY <1>2 DEF ApplyMsg, States

\* A broadcast keeps the types of the log and of the queue.
LEMMA BroadcastTypes ==
  ASSUME TypeOK, NEW p \in Sends, NEW msg \in Msgs, Broadcast(p, msg)
  PROVE  /\ log' \in [Sends -> Seq(Msgs)]
         /\ queue' \in [Sends -> Seq(Msgs \cup {<<"sync", 0>>})]
  BY DEF TypeOK, Broadcast

\* The types hold at first,
LEMMA InitTypes == Init => TypeOK
<1>1. /\ NewModel \in States /\ EmptyPage \in [chips : Seq(Msgs), running : BOOLEAN, prompt : BOOLEAN]
      /\ <<>> \in Seq(Msgs) /\ <<>> \in Seq(Frames) /\ <<>> \in Seq(Spoken) /\ <<>> \in Seq(Msgs \cup {<<"sync", 0>>})
  BY DEF NewModel, EmptyPage, States
<1>2. [up |-> FALSE, got |-> FALSE, named |-> FALSE, replies |-> 0, ended |-> FALSE]
        \in [up : BOOLEAN, got : BOOLEAN, named : BOOLEAN, replies : 0 .. MaxReplies, ended : BOOLEAN]
  BY NewSessionAssumption
<1> QED
  BY <1>1, <1>2 DEF Init, TypeOK

\* after what handleSend does on its own,
LEMMA GoesTypes == ASSUME TypeOK, NEW p \in Sends, Goes(p) PROVE TypeOK'
<1>1. CASE Start(p) \/ Send(p) \/ Fails(p)
  <2>1. cli' \in [Sends -> Clis]
    BY <1>1, CliStays
  <2> QED
    BY <1>1, <2>1 DEF TypeOK, Start, Send, Fails, FailsIf, Goto, scan, model, display, Clis
<1>2. CASE Create(p) \/ Bind(p) \/ Replayed(p)
  <2>1. binding' \in [Sends -> Bindings]
    BY <1>2, BindingStays
  <2> QED
    BY <1>2, <2>1 DEF TypeOK, Create, Bind, BindAs, Replayed, Goto, process, scan, model, display, Bindings
<1>3. CASE Sync(p)
  BY <1>3 DEF TypeOK, Sync, Goto, process, scan, model, display
<1>4. CASE BindClients(p)
  BY <1>4 DEF TypeOK, BindClients, Goto, process, scan, model, display
<1>5. CASE Render(p)
  BY <1>5 DEF TypeOK, Render, Goto, process, scan, model, display
<1>6. CASE Show(p)
  <2>1. \A d \in BOOLEAN : [crossed EXCEPT ![p] = d] \in [Sends -> BOOLEAN]
    BY DEF TypeOK
  <2>2. crossed' \in [Sends -> BOOLEAN]
    BY <1>6, Zenon DEF Show, TypeOK, Late
  <2>3. /\ snapshot[p].chips \in Seq(Msgs) /\ snapshot[p].perm \in BOOLEAN
        /\ Active(snapshot[p]) \in BOOLEAN
    BY DEF TypeOK, States, Active
  <2>4. page' \in [Clients -> [chips : Seq(Msgs), running : BOOLEAN, prompt : BOOLEAN]]
    BY <1>6, <2>3 DEF Show, TypeOK
  <2> QED
    BY <1>6, <2>2, <2>4 DEF TypeOK, Show, Goto, process, scan, model
<1> QED
  BY <1>1, <1>2, <1>3, <1>4, <1>5, <1>6 DEF Goes

\* after what is broadcast, scanned, asked or said,
LEMMA FlowTypes ==
  ASSUME TypeOK, NEW p \in Sends,
         Announces(p) \/ Replay(p) \/ Scan(p) \/ Permission(p) \/ CliSays(p) \/ CliAsks(p) \/ CliExits(p)
  PROVE  TypeOK'
<1>1. CASE Announces(p)
  <2>1. log' \in [Sends -> Seq(Msgs)] /\ queue' \in [Sends -> Seq(Msgs \cup {<<"sync", 0>>})]
    <3>1. {<<"user", 0>>, <<"started", 0>>, <<"running", 0>>, <<"ended", 0>>} \subseteq Msgs
      BY DEF Msgs
    <3> QED
      BY <1>1, <3>1, BroadcastTypes
         DEF Announces, BroadcastUserMessage, BroadcastStarted, BroadcastRunning, Watch
  <2>2. /\ pc' \in [Sends -> {"start", "send", "wait", "failed", "announce", "replay", "replaying", "started",
                       "sync", "syncing", "bind", "render", "show", "running", "done", "ended"}]
        /\ UNCHANGED <<process, scan, binding, model, display>>
    BY <1>1 DEF TypeOK, Announces, BroadcastUserMessage, BroadcastStarted, BroadcastRunning, Watch, Goto
  <2> QED
    BY <2>1, <2>2 DEF TypeOK, process, scan, model, display
<1>2. CASE Replay(p)
  <2>1. /\ Head(binding[p].buffered) \in Spoken /\ Tail(binding[p].buffered) \in Seq(Spoken)
    BY <1>2, TailHolds DEF Replay, TypeOK
  <2>2. log' \in [Sends -> Seq(Msgs)] /\ queue' \in [Sends -> Seq(Msgs \cup {<<"sync", 0>>})]
    BY <1>2, <2>1, BroadcastTypes DEF Replay, Msgs
  <2>3. binding' \in [Sends -> Bindings]
    BY <1>2, BindingStays
  <2> QED
    BY <1>2, <2>2, <2>3 DEF TypeOK, Replay, process, scan, model, display, Bindings
<1>3. CASE OnEvent(p)
  <2>1. stdout[p] # <<>> /\ stdout' = [stdout EXCEPT ![p] = Tail(@)] /\ Tail(stdout[p]) \in Seq(Frames)
    BY <1>3, EventForms, TailHolds DEF TypeOK
  <2>2. stdout' \in [Sends -> Seq(Frames)] /\ idKnown' \in [Sends -> BOOLEAN]
    BY <1>3, <2>1 DEF OnEvent, TypeOK
  <2>4. inHand' \in [Sends -> Spoken \cup {Nothing}]
    <3>1. \/ UNCHANGED inHand
          \/ Head(stdout[p]) \in Spoken /\ inHand' = [inHand EXCEPT ![p] = Head(stdout[p])]
      BY <1>3, EventForms
    <3> QED
      BY <3>1 DEF TypeOK
  <2>5. binding' \in [Sends -> Bindings]
    BY <1>3, BindingStays
  <2> QED
    BY <1>3, <2>2, <2>4, <2>5 DEF TypeOK, OnEvent, process, model, display, Bindings
<1>4. CASE HandleStreamEvent(p)
  <2>1. inHand[p] \in Msgs
    BY <1>4 DEF HandleStreamEvent, TypeOK, Msgs
  <2>2. log' \in [Sends -> Seq(Msgs)] /\ queue' \in [Sends -> Seq(Msgs \cup {<<"sync", 0>>})]
    BY <1>4, <2>1, BroadcastTypes DEF HandleStreamEvent
  <2> QED
    BY <1>4, <2>2 DEF TypeOK, HandleStreamEvent, process, model, display
<1>5. CASE PermHandler(p)
  BY <1>5 DEF TypeOK, PermHandler, scan, model, display
<1>6. CASE HandlePermission(p)
  <2>1. log' \in [Sends -> Seq(Msgs)] /\ queue' \in [Sends -> Seq(Msgs \cup {<<"sync", 0>>})]
    BY <1>6, BroadcastTypes DEF HandlePermission, Msgs
  <2> QED
    BY <1>6, <2>1 DEF TypeOK, HandlePermission, scan, model, display
<1>7. CASE CliSays(p)
  <2>1. PICK f \in Frames : stdout' = [stdout EXCEPT ![p] = Append(@, f)]
    <3>1. cli[p].replies < MaxReplies => Reply(cli[p].replies + 1) \in Frames
      BY FieldTypes, NewSessionAssumption DEF Frames, Spoken, Reply
    <3>2. <<"id", 0>> \in Frames /\ <<"result", 0>> \in Frames
      BY DEF Frames, Spoken
    <3> QED
      BY <1>7, <3>1, <3>2 DEF CliSays
  <2>2. stdout' \in [Sends -> Seq(Frames)]
    BY <2>1 DEF TypeOK
  <2>3. cli' \in [Sends -> Clis]
    BY <1>7, CliStays
  <2> QED
    BY <1>7, <2>2, <2>3 DEF TypeOK, CliSays, model, display, Clis
<1>8. CASE CliAsks(p) \/ CliExits(p)
  <2>1. cli' \in [Sends -> Clis]
    BY <1>8, CliStays, FieldTypes DEF CliAsks
  <2> QED
    BY <1>8, <2>1 DEF TypeOK, CliAsks, CliExits, scan, model, display, Clis
<1> QED
  BY <1>1, <1>2, <1>3, <1>4, <1>5, <1>6, <1>7, <1>8 DEF Scan, Permission

\* after what the model's goroutine does,
LEMMA ModelTypes == ASSUME TypeOK, NEW p \in Sends, Model(p) PROVE TypeOK'
<1>1. CASE ModelApplies(p)
  <2> DEFINE x == Head(queue[p])
  <2>1. x \in Msgs /\ Tail(queue[p]) \in Seq(Msgs \cup {<<"sync", 0>>})
    BY <1>1, TailHolds DEF ModelApplies, TypeOK
  <2>2. ApplyMsg(m[p], x) \in States
    BY <2>1, ApplyTypes DEF TypeOK
  <2> HIDE DEF x
  <2>3. m' \in [Sends -> States]
    BY <1>1, <2>2 DEF ModelApplies, TypeOK, x
  <2>4. applied' \in [Sends -> [msg : Msgs \cup {Nothing}, changed : BOOLEAN]]
    <3>1. (Active(m'[p]) # Active(m[p])) \in BOOLEAN
      OBVIOUS
    <3> QED
      BY <1>1, <2>1, <3>1 DEF ModelApplies, TypeOK, x
  <2>5. queue' \in [Sends -> Seq(Msgs \cup {<<"sync", 0>>})]
    BY <1>1, <2>1 DEF ModelApplies, TypeOK
  <2> QED
    BY <1>1, <2>3, <2>4, <2>5 DEF TypeOK, ModelApplies, process, scan, display
<1>2. CASE ModelPushes(p)
  <2> DEFINE x == applied[p].msg
  <2>1. x \in Msgs /\ Chips(x) \in Seq(Msgs)
    BY <1>2 DEF ModelPushes, TypeOK, Chips
  <2>2. Active(m[p]) \in BOOLEAN
    BY DEF TypeOK, States, Active
  <2>3. \A c \in Clients : page[c].chips \o Chips(x) \in Seq(Msgs)
    BY <2>1, ConcatProperties DEF TypeOK
  <2> HIDE DEF x
  <2>4. page' \in [Clients -> [chips : Seq(Msgs), running : BOOLEAN, prompt : BOOLEAN]]
    <3>1. page' = [c \in Clients |->
             IF client[c] # p THEN page[c]
             ELSE [chips |-> page[c].chips \o Chips(x),
                   running |-> IF applied[p].changed THEN Active(m[p]) ELSE page[c].running,
                   prompt |-> page[c].prompt \/ x[1] = "ask"]]
      BY <1>2 DEF ModelPushes, x
    <3> QED
      BY <2>2, <2>3, <3>1 DEF TypeOK
  <2>5. crossed' \in [Sends -> BOOLEAN]
    BY <1>2, Zenon DEF ModelPushes, TypeOK, Late
  <2>6. applied' \in [Sends -> [msg : Msgs \cup {Nothing}, changed : BOOLEAN]]
    BY <1>2 DEF ModelPushes, TypeOK
  <2> QED
    BY <1>2, <2>4, <2>5, <2>6 DEF TypeOK, ModelPushes, process, scan
<1>3. CASE ModelSyncs(p)
  <2>1. queue' \in [Sends -> Seq(Msgs \cup {<<"sync", 0>>})]
    BY <1>3, TailHolds DEF ModelSyncs, TypeOK
  <2> QED
    BY <1>3, <2>1 DEF TypeOK, ModelSyncs, Goto, process, scan, model, display
<1> QED
  BY <1>1, <1>2, <1>3 DEF Model

\* and so after every step.
LEMMA TypesInvariant == TypeOK /\ [Next]_vars => TypeOK'
<1>1. ASSUME TypeOK, NEW p \in Sends, Step(p)
      PROVE  TypeOK'
  BY <1>1, GoesTypes, FlowTypes, ModelTypes DEF Step
<1>2. TypeOK /\ UNCHANGED vars => TypeOK'
  BY DEF TypeOK, vars, process, scan, model, display
<1> QED
  BY <1>1, <1>2, NextSteps

-----------------------------------------------------------------------------
(* The steps of one send leave the others alone.                           *)

Untouched(q) ==
  /\ pc'[q] = pc[q] /\ cli'[q] = cli[q] /\ ask'[q] = ask[q] /\ stdout'[q] = stdout[q]
  /\ binding'[q] = binding[q] /\ inHand'[q] = inHand[q] /\ log'[q] = log[q] /\ queue'[q] = queue[q]
  /\ m'[q] = m[q] /\ applied'[q] = applied[q] /\ snapshot'[q] = snapshot[q] /\ crossed'[q] = crossed[q]
  /\ \A c \in Clients : client'[c] = q => client[c] = q /\ page'[c] = page[c]

\* A step of one send leaves what belongs to another one.
LEMMA OthersStay ==
  ASSUME TypeOK, NEW p \in Sends, NEW q \in Sends, p # q, Step(p)
  PROVE  Untouched(q)
<1>1. CASE Start(p) \/ Send(p) \/ Fails(p)
  BY <1>1 DEF TypeOK, Untouched, Start, Send, Fails, FailsIf, Goto, scan, model, display
<1>2. CASE Create(p) \/ Bind(p) \/ Replayed(p)
  BY <1>2 DEF TypeOK, Untouched, Create, Bind, BindAs, Replayed, Goto, process, scan, model, display
<1>3. CASE Sync(p) \/ BindClients(p) \/ Render(p)
  BY <1>3, NewSessionAssumption DEF TypeOK, Untouched, Sync, BindClients, Render, Goto, process, scan, model, display
<1>4. CASE Show(p)
  <2>1. crossed'[q] = crossed[q]
    BY <1>4, Zenon DEF Show, TypeOK
  <2>2. /\ client' = client
        /\ page' = [c \in Clients |->
             IF client[c] # p THEN page[c]
             ELSE [chips |-> snapshot[p].chips, running |-> Active(snapshot[p]), prompt |-> snapshot[p].perm]]
    BY <1>4 DEF Show
  <2>3. \A c \in Clients : client'[c] = q => client[c] = q /\ page'[c] = page[c]
    BY <2>2
  <2> QED
    BY <1>4, <2>1, <2>3 DEF TypeOK, Untouched, Show, Goto, process, scan, model
<1>5. CASE Announces(p)
  BY <1>5 DEF TypeOK, Untouched, Announces, BroadcastUserMessage, BroadcastStarted, BroadcastRunning, Watch,
              Broadcast, Goto, process, scan, model, display
<1>6. CASE Replay(p)
  BY <1>6 DEF TypeOK, Untouched, Replay, Broadcast, process, scan, model, display
<1>7. CASE OnEvent(p)
  <2>1. inHand'[q] = inHand[q] /\ binding'[q] = binding[q]
    <3>1. \/ UNCHANGED <<binding, inHand>>
          \/ inHand' = [inHand EXCEPT ![p] = Head(stdout[p])] /\ UNCHANGED binding
          \/ BindingNow(p, FALSE, Append(binding[p].buffered, Head(stdout[p])), FALSE) /\ UNCHANGED inHand
      BY <1>7, EventForms
    <3> QED
      BY <3>1 DEF TypeOK, BindingNow
  <2> QED
    BY <1>7, <2>1 DEF TypeOK, Untouched, OnEvent, process, model, display
<1>8. CASE HandleStreamEvent(p) \/ PermHandler(p) \/ HandlePermission(p)
  BY <1>8 DEF TypeOK, Untouched, HandleStreamEvent, PermHandler, HandlePermission, Broadcast, process, scan, model, display
<1>9. CASE CliSays(p) \/ CliAsks(p) \/ CliExits(p)
  BY <1>9 DEF TypeOK, Untouched, CliSays, CliAsks, CliExits, scan, model, display
<1>10. CASE ModelApplies(p) \/ ModelSyncs(p)
  BY <1>10 DEF TypeOK, Untouched, ModelApplies, ModelSyncs, Goto, process, scan, model, display
<1>11. CASE ModelPushes(p)
  <2>1. crossed'[q] = crossed[q]
    BY <1>11, Zenon DEF ModelPushes, TypeOK
  <2>2. \A c \in Clients : client'[c] = q => client[c] = q /\ page'[c] = page[c]
    BY <1>11 DEF ModelPushes
  <2> QED
    BY <1>11, <2>1, <2>2 DEF TypeOK, Untouched, ModelPushes, process, scan
<1> QED
  BY <1>1, <1>2, <1>3, <1>4, <1>5, <1>6, <1>7, <1>8, <1>9, <1>10, <1>11
     DEF Step, Goes, Scan, Permission, Model

\* What is left alone stays right.
LEMMA OthersKeep ==
  ASSUME NEW q \in Sends, Untouched(q)
  PROVE  /\ Flow(q) => Flow(q)'
         /\ Folds(q) => Folds(q)'
         /\ SnapshotRight(q) => SnapshotRight(q)'
         /\ PageRight(q) => PageRight(q)'
<1>1. HandsOver(q) => HandsOver(q)'
  BY DEF Untouched, HandsOver
<1>2. InTurn(q) => InTurn(q)'
  BY DEF Untouched, InTurn
<1>3. AllSaid(q) => AllSaid(q)'
  BY DEF Untouched, AllSaid, SaidBy, Somewhere
<1>4. Broadcasts(q) => Broadcasts(q)'
  BY DEF Untouched, Broadcasts
<1>5. Once(q) => Once(q)'
  BY DEF Untouched, Once
<1>6. Done(q)' = Done(q)
  BY DEF Untouched, Done
<1>7. Queued(q) => Queued(q)'
  BY <1>6 DEF Untouched, Queued
<1>8. Applied(q) => Applied(q)'
  BY <1>6 DEF Untouched, Applied
<1>9. StateFolds(q) => StateFolds(q)'
  <2>1. m'[q] = m[q] /\ log'[q] = log[q]
    BY DEF Untouched
  <2> QED
    BY <1>6, <2>1, Zenon DEF StateFolds
<1>10. SyncedUp(q) => SyncedUp(q)'
  BY <1>6 DEF Untouched, SyncedUp
<1>11. SnapshotRight(q) => SnapshotRight(q)'
  BY DEF Untouched, SnapshotRight
<1>12. PageRight(q) => PageRight(q)'
  BY DEF Untouched, PageRight
<1> QED
  BY <1>1, <1>2, <1>3, <1>4, <1>5, <1>7, <1>8, <1>9, <1>10, <1>11, <1>12 DEF Flow, Folds

-----------------------------------------------------------------------------
(* From the CLI to the log: who holds what.                                *)

\* At every moment it is clear who holds what: no step breaks it.
LEMMA HandsOverStays ==
  ASSUME TypeOK, NEW p \in Sends, HandsOver(p), Step(p)
  PROVE  HandsOver(p)'
<1> USE DEF HandsOver, BoundPcs, Handing, Announced, Created
<1>1. CASE Start(p) \/ Send(p)
  BY <1>1 DEF TypeOK, Start, Send, Goto, scan, model, display
<1>2. CASE Fails(p)
  <2>1. CliNow(p, FALSE, cli[p].got, cli[p].named, cli[p].replies, cli[p].ended)
    BY <1>2, CliForms
  <2>2. cli'[p].up = FALSE
    BY <2>1 DEF CliNow, TypeOK
  <2> QED
    BY <1>2, <2>2 DEF TypeOK, Fails, FailsIf, Goto, scan, model, display
<1>3. CASE Create(p)
  <2>1. BindingNow(p, FALSE, binding[p].buffered, binding[p].locked)
    BY <1>3, BindingForms
  <2>2. binding'[p] = [bound |-> FALSE, buffered |-> binding[p].buffered, locked |-> binding[p].locked]
    BY <2>1 DEF BindingNow, TypeOK
  <2> QED
    BY <1>3, <2>2 DEF TypeOK, Create, Goto, process, scan
<1>4. CASE Bind(p)
  <2>1. BindingNow(p, TRUE, binding[p].buffered, TRUE)
    BY <1>4, BindingForms
  <2>2. binding'[p] = [bound |-> TRUE, buffered |-> binding[p].buffered, locked |-> TRUE]
    BY <2>1 DEF BindingNow, TypeOK
  <2> QED
    BY <1>4, <2>2 DEF TypeOK, Bind, BindAs, Goto, process, scan
<1>5. CASE Replay(p)
  <2>1. BindingNow(p, binding[p].bound, Tail(binding[p].buffered), binding[p].locked)
    BY <1>5, BindingForms
  <2>2. binding'[p] = [bound |-> binding[p].bound, buffered |-> Tail(binding[p].buffered), locked |-> binding[p].locked]
    BY <2>1 DEF BindingNow, TypeOK
  <2> QED
    BY <1>5, <2>2 DEF TypeOK, Replay, process, scan
<1>6. CASE Replayed(p)
  <2>1. BindingNow(p, binding[p].bound, binding[p].buffered, FALSE)
    BY <1>6, BindingForms
  <2>2. binding'[p] = [bound |-> binding[p].bound, buffered |-> binding[p].buffered, locked |-> FALSE]
    BY <2>1 DEF BindingNow, TypeOK
  <2> QED
    BY <1>6, <2>2 DEF TypeOK, Replayed, Goto, process, scan
<1>7. CASE Sync(p) \/ BindClients(p) \/ Render(p) \/ Show(p) \/ ModelSyncs(p)
  BY <1>7 DEF TypeOK, Sync, BindClients, Render, Show, ModelSyncs, Goto, process, scan
<1>8. CASE BroadcastUserMessage(p) \/ BroadcastStarted(p) \/ BroadcastRunning(p) \/ Watch(p)
  BY <1>8 DEF TypeOK, BroadcastUserMessage, BroadcastStarted, BroadcastRunning, Watch, Goto, process, scan
<1>9. CASE OnEvent(p)
  <2>1. UNCHANGED <<pc, cli, ask, log>>
    BY <1>9 DEF OnEvent, process
  <2>2. CASE UNCHANGED <<binding, inHand>>
    BY <2>1, <2>2
  <2>3. CASE binding[p].bound /\ ~ binding[p].locked /\ UNCHANGED binding
    BY <2>1, <2>3
  <2>4. CASE /\ ~ binding[p].bound /\ UNCHANGED inHand
             /\ BindingNow(p, FALSE, Append(binding[p].buffered, Head(stdout[p])), FALSE)
    <3>1. binding'[p] = [bound |-> FALSE, buffered |-> Append(binding[p].buffered, Head(stdout[p])), locked |-> FALSE]
      BY <2>4 DEF BindingNow, TypeOK
    <3> QED
      BY <2>1, <2>4, <3>1
  <2> QED
    BY <1>9, <2>2, <2>3, <2>4, EventForms
<1>10. CASE HandleStreamEvent(p)
  BY <1>10 DEF TypeOK, HandleStreamEvent, process
<1>11. CASE PermHandler(p) \/ HandlePermission(p)
  BY <1>11 DEF TypeOK, PermHandler, HandlePermission, scan
<1>12. CASE CliSays(p) \/ CliAsks(p)
  <2>1. cli[p].up
    BY <1>12 DEF CliSays, CliAsks
  <2> QED
    BY <1>12, <2>1 DEF TypeOK, CliSays, CliAsks, scan
<1>13. CASE CliExits(p)
  BY <1>13 DEF TypeOK, CliExits, scan
<1>14. CASE ModelApplies(p) \/ ModelPushes(p)
  BY <1>14 DEF ModelApplies, ModelPushes, process, scan
<1> QED
  BY <1>1, <1>2, <1>3, <1>4, <1>5, <1>6, <1>7, <1>8, <1>9, <1>10, <1>11, <1>12, <1>13, <1>14
     DEF Step, Goes, Announces, Scan, Permission, Model

-----------------------------------------------------------------------------
(* From the CLI to the log: in the order it was said.                      *)

\* The places of the CLI's words are numbers.
LEMMA RankNat == \A f \in Spoken : Rank(f) \in Nat
  BY NewSessionAssumption DEF Rank, Spoken

\* A later word at the end keeps the order.
LEMMA RisingAppends ==
  ASSUME NEW S, NEW s \in Seq(S), NEW x \in S, Rising(s),
         \A f \in Spoken : In(f, s) /\ x \in Spoken => Rank(f) < Rank(x)
  PROVE  Rising(Append(s, x))
<1> DEFINE t == Append(s, x)
<1>1. /\ Len(t) = Len(s) + 1 /\ Len(s) \in Nat /\ t[Len(s) + 1] = x
      /\ \A i \in 1 .. Len(s) : t[i] = s[i]
  BY AppendHolds, LenProperties
<1> HIDE DEF t
<1>2. SUFFICES ASSUME NEW i \in 1 .. Len(t), NEW j \in 1 .. Len(t), t[i] \in Spoken, t[j] \in Spoken, i < j
               PROVE  Rank(t[i]) < Rank(t[j])
  BY DEF Rising, t
<1>3. i \in 1 .. Len(s) /\ (j \in 1 .. Len(s) \/ j = Len(s) + 1)
  BY <1>1, <1>2
<1>4. CASE j \in 1 .. Len(s)
  BY <1>1, <1>2, <1>3, <1>4 DEF Rising
<1>5. CASE j = Len(s) + 1
  BY <1>1, <1>2, <1>3, <1>5 DEF In
<1> QED
  BY <1>3, <1>4, <1>5

\* The order is kept without the first word, which all others follow.
LEMMA RisingTails ==
  ASSUME NEW S, NEW s \in Seq(S), s # <<>>, Rising(s)
  PROVE  /\ Rising(Tail(s))
         /\ \A f \in Spoken : In(f, Tail(s)) /\ Head(s) \in Spoken => Rank(Head(s)) < Rank(f)
<1> DEFINE t == Tail(s)
<1>1. /\ Len(s) \in Nat \ {0} /\ Len(t) = Len(s) - 1 /\ \A i \in 1 .. Len(t) : t[i] = s[i + 1]
      /\ Head(s) = s[1]
  BY TailHolds
<1> HIDE DEF t
<1>2. \A i \in 1 .. Len(t) : i + 1 \in 1 .. Len(s) /\ 1 < i + 1
  BY <1>1
<1>3. \A i, j \in 1 .. Len(t) : i < j => i + 1 < j + 1
  BY <1>1
<1>4. Rising(t)
  BY <1>1, <1>2, <1>3 DEF Rising
<1>5. ASSUME NEW f \in Spoken, In(f, t), Head(s) \in Spoken
      PROVE  Rank(Head(s)) < Rank(f)
  <2>1. PICK i \in 1 .. Len(t) : t[i] = f
    BY <1>5 DEF In
  <2>2. 1 \in 1 .. Len(s) /\ i + 1 \in 1 .. Len(s) /\ 1 < i + 1
    BY <1>1, <1>2
  <2> QED
    BY <1>1, <1>5, <2>1, <2>2 DEF Rising
<1> QED
  BY <1>4, <1>5 DEF t

\* Ways in which the words of the CLI go on.
WordPlaces == <<cli, stdout, binding, inHand, log>>
Says(p, f) == /\ f \in Frames /\ stdout'[p] = Append(stdout[p], f)
              /\ UNCHANGED <<binding, inHand, log>>
Takes(p) == stdout[p] # <<>> /\ stdout'[p] = Tail(stdout[p]) /\ inHand[p] = Nothing
            /\ UNCHANGED <<cli, log>>
Logs(p, x) == x \in Msgs /\ log'[p] = Append(log[p], x) /\ UNCHANGED <<cli, stdout>>

\* What the CLI says now comes after all it said.
LEMMA SaysKeeps ==
  ASSUME TypeOK, NEW p \in Sends, NEW f, Says(p, f), InTurn(p), AllSaid(p),
         IF f \in Spoken THEN SaidBy(p)' = SaidBy(p) \cup {f} /\ \A g \in SaidBy(p) : Rank(g) < Rank(f)
         ELSE SaidBy(p)' = SaidBy(p)
  PROVE  InTurn(p)' /\ AllSaid(p)'
<1>1. stdout[p] \in Seq(Frames)
  BY DEF TypeOK
<1>2. \A g : In(g, stdout[p])' <=> In(g, stdout[p]) \/ g = f
  BY <1>1, AppendHolds DEF Says
<1>3. \A g \in Spoken : Somewhere(g, p) /\ f \in Spoken => Rank(g) < Rank(f)
  BY DEF AllSaid
<1>4. \A g \in Spoken : Somewhere(g, p)' <=> Somewhere(g, p) \/ g = f
  BY <1>2 DEF Says, Somewhere
<1>5. AllSaid(p)'
  BY <1>4 DEF AllSaid
<1>6. Rising(stdout[p])'
  <2>1. Rising(Append(stdout[p], f))
    BY <1>1, <1>3, RisingAppends DEF Says, InTurn, Somewhere
  <2> QED
    BY <2>1 DEF Says, Rising
<1>7. InTurn(p)'
  <2>1. Below(log[p], stdout[p])' /\ Below(binding[p].buffered, stdout[p])'
    BY <1>2, <1>3 DEF InTurn, Below, Somewhere, Says
  <2>2. (\A g \in Spoken : In(g, stdout[p]) /\ inHand[p] \in Spoken => Rank(inHand[p]) < Rank(g))'
    BY <1>2, <1>3 DEF InTurn, Somewhere, Says
  <2> QED
    BY <1>6, <2>1, <2>2 DEF InTurn, Says
<1> QED
  BY <1>5, <1>7

\* The event callback takes the next frame: it is in hand, or last in the buffer.
LEMMA TakesKeeps ==
  ASSUME TypeOK, NEW p \in Sends, Takes(p), InTurn(p), AllSaid(p), HandsOver(p),
         \/ Head(stdout[p]) = <<"id", 0>> /\ UNCHANGED <<binding, inHand>>
         \/ Head(stdout[p]) \in Spoken /\ inHand'[p] = Head(stdout[p]) /\ binding[p].buffered = <<>> /\ UNCHANGED binding
         \/ /\ Head(stdout[p]) \in Spoken /\ UNCHANGED inHand
            /\ binding'[p].buffered = Append(binding[p].buffered, Head(stdout[p]))
  PROVE  InTurn(p)' /\ AllSaid(p)'
<1> DEFINE x == Head(stdout[p])
<1>1. stdout[p] \in Seq(Frames) /\ stdout[p] # <<>> /\ binding[p].buffered \in Seq(Spoken)
  BY DEF TypeOK, Takes
<1>2. \A g : In(g, stdout[p]) <=> In(g, stdout'[p]) \/ g = x
  BY <1>1, TailHolds DEF Takes
<1>3. /\ Rising(stdout'[p])
      /\ \A g \in Spoken : In(g, stdout'[p]) /\ x \in Spoken => Rank(x) < Rank(g)
  BY <1>1, RisingTails DEF Takes, InTurn
<1>4. SaidBy(p)' = SaidBy(p) /\ log' = log
  BY DEF SaidBy, Takes
<1>5. Nothing \notin Spoken /\ <<"id", 0>> \notin Spoken /\ \A g : ~ In(g, <<>>)
  BY DEF Nothing, Spoken, In
<1> HIDE DEF x
<1>6. CASE x = <<"id", 0>> /\ UNCHANGED <<binding, inHand>>
  <2>1. \A g \in Spoken : Somewhere(g, p)' <=> Somewhere(g, p)
    BY <1>2, <1>4, <1>5, <1>6 DEF Somewhere
  <2>2. AllSaid(p)'
    BY <1>4, <2>1 DEF AllSaid
  <2>3. InTurn(p)'
    BY <1>2, <1>3, <1>4, <1>6 DEF InTurn, Below
  <2> QED
    BY <2>2, <2>3
<1>7. CASE x \in Spoken /\ inHand'[p] = x /\ binding[p].buffered = <<>> /\ UNCHANGED binding
  <2>1. \A g \in Spoken : Somewhere(g, p)' <=> Somewhere(g, p)
    BY <1>2, <1>4, <1>5, <1>7 DEF Somewhere, Takes
  <2>2. AllSaid(p)'
    BY <1>4, <2>1 DEF AllSaid
  <2>3. InTurn(p)'
    BY <1>2, <1>3, <1>4, <1>7 DEF InTurn, Below
  <2> QED
    BY <2>2, <2>3
<1>8. CASE x \in Spoken /\ UNCHANGED inHand /\ binding'[p].buffered = Append(binding[p].buffered, x)
  <2>1. \A g : In(g, binding'[p].buffered) <=> In(g, binding[p].buffered) \/ g = x
    BY <1>1, <1>8, AppendHolds
  <2>2. \A g \in Spoken : Somewhere(g, p)' <=> Somewhere(g, p)
    BY <1>2, <1>4, <1>5, <1>8, <2>1 DEF Somewhere
  <2>3. AllSaid(p)'
    BY <1>4, <2>2 DEF AllSaid
  <2>4. Rising(binding'[p].buffered)
    BY <1>1, <1>2, <1>8, RisingAppends DEF InTurn, Below
  <2>5. inHand'[p] \notin Spoken
    BY <1>5, <1>8 DEF Takes
  <2>6. InTurn(p)'
    BY <1>2, <1>3, <1>4, <1>8, <2>1, <2>4, <2>5 DEF InTurn, Below
  <2> QED
    BY <2>3, <2>6
<1> QED
  BY <1>6, <1>7, <1>8 DEF x

\* What is broadcast comes after the rest of the log, and before all that waits.
LEMMA LogsKeeps ==
  ASSUME TypeOK, NEW p \in Sends, NEW x, Logs(p, x), InTurn(p), AllSaid(p),
         \/ x \notin Spoken /\ UNCHANGED <<binding, inHand>>
         \/ x \in Spoken /\ x = inHand[p] /\ inHand'[p] = Nothing /\ binding[p].buffered = <<>> /\ UNCHANGED binding
         \/ /\ inHand[p] = Nothing /\ UNCHANGED inHand
            /\ binding[p].buffered # <<>> /\ x = Head(binding[p].buffered)
            /\ binding'[p].buffered = Tail(binding[p].buffered)
  PROVE  InTurn(p)' /\ AllSaid(p)'
<1>1. log[p] \in Seq(Msgs) /\ x \in Msgs /\ binding[p].buffered \in Seq(Spoken)
  BY DEF TypeOK, Logs
<1>2. \A g : In(g, log'[p]) <=> In(g, log[p]) \/ g = x
  BY <1>1, AppendHolds DEF Logs
<1>3. Nothing \notin Spoken /\ \A g : ~ In(g, <<>>)
  BY DEF Nothing, Spoken, In
<1>4. SaidBy(p)' = SaidBy(p) /\ stdout' = stdout
  BY DEF SaidBy, Logs
<1>5. CASE x \notin Spoken /\ UNCHANGED <<binding, inHand>>
  <2>1. \A g \in Spoken : Somewhere(g, p)' <=> Somewhere(g, p)
    BY <1>2, <1>4, <1>5 DEF Somewhere
  <2>2. AllSaid(p)'
    BY <1>4, <2>1 DEF AllSaid
  <2>3. Rising(log'[p])
    BY <1>1, <1>5, RisingAppends DEF InTurn, Logs
  <2>4. InTurn(p)'
    BY <1>2, <1>4, <1>5, <2>3 DEF InTurn, Below
  <2> QED
    BY <2>2, <2>4
<1>6. CASE x \in Spoken /\ x = inHand[p] /\ inHand'[p] = Nothing /\ binding[p].buffered = <<>> /\ UNCHANGED binding
  <2>1. \A g \in Spoken : Somewhere(g, p)' <=> Somewhere(g, p)
    BY <1>2, <1>3, <1>4, <1>6 DEF Somewhere
  <2>2. AllSaid(p)'
    BY <1>4, <2>1 DEF AllSaid
  <2>3. Rising(log'[p])
    BY <1>1, <1>6, RisingAppends DEF InTurn, Logs
  <2>4. InTurn(p)'
    BY <1>2, <1>3, <1>4, <1>6, <2>3 DEF InTurn, Below
  <2> QED
    BY <2>2, <2>4
<1>7. CASE /\ inHand[p] = Nothing /\ UNCHANGED inHand
           /\ binding[p].buffered # <<>> /\ x = Head(binding[p].buffered)
           /\ binding'[p].buffered = Tail(binding[p].buffered)
  <2>1. /\ \A g : In(g, binding[p].buffered) <=> In(g, binding'[p].buffered) \/ g = x
        /\ x \in Spoken
    BY <1>1, <1>7, TailHolds
  <2>2. \A g \in Spoken : Somewhere(g, p)' <=> Somewhere(g, p)
    BY <1>2, <1>3, <1>4, <1>7, <2>1 DEF Somewhere
  <2>3. AllSaid(p)'
    BY <1>4, <2>2 DEF AllSaid
  <2>4. Rising(log'[p])
    BY <1>1, <2>1, RisingAppends DEF InTurn, Logs, Below
  <2>5. /\ Rising(binding'[p].buffered)
        /\ \A g \in Spoken : In(g, binding'[p].buffered) => Rank(x) < Rank(g)
    BY <1>1, <1>7, <2>1, RisingTails DEF InTurn
  <2>6. InTurn(p)'
    BY <1>2, <1>3, <1>4, <1>7, <2>1, <2>4, <2>5 DEF InTurn, Below
  <2> QED
    BY <2>3, <2>6
<1> QED
  BY <1>5, <1>6, <1>7

\* A message that is not in the log yet is in it once after the broadcast.
LEMMA OnceStays ==
  ASSUME TypeOK, NEW p \in Sends, NEW x, x \in Msgs, log'[p] = Append(log[p], x), Once(p),
         ~ In(x, log[p]), log[p] = <<>> => x = <<"user", 0>>
  PROVE  Once(p)'
<1>1. /\ Len(log[p]) \in Nat /\ Len(log'[p]) = Len(log[p]) + 1
      /\ \A i \in 1 .. Len(log[p]) : log'[p][i] = log[p][i]
      /\ log'[p][Len(log[p]) + 1] = x
      /\ log[p] # <<>> => Len(log[p]) # 0
  <2>1. log[p] \in Seq(Msgs)
    BY DEF TypeOK
  <2> QED
    BY <2>1, AppendHolds, LenProperties, EmptySeq
<1>2. ASSUME NEW i \in 1 .. Len(log'[p]), NEW j \in 1 .. Len(log'[p]), log'[p][i] = log'[p][j]
      PROVE  i = j
  <2>1. /\ i \in 1 .. Len(log[p]) \/ i = Len(log[p]) + 1
        /\ j \in 1 .. Len(log[p]) \/ j = Len(log[p]) + 1
    BY <1>1
  <2> QED
    BY <1>1, <1>2, <2>1 DEF Once, In
<1>3. log'[p][1] = <<"user", 0>>
  <2>1. CASE log[p] = <<>>
    BY <1>1, <2>1
  <2>2. CASE log[p] # <<>>
    <3>1. 1 \in 1 .. Len(log[p])
      BY <1>1, <2>2
    <3> QED
      BY <1>1, <2>2, <3>1 DEF Once
  <2> QED
    BY <2>1, <2>2
<1> QED
  BY <1>2, <1>3 DEF Once

\* What the server broadcasts is not in the log yet; nor is what it passes on.
LEMMA FlowLogs ==
  ASSUME TypeOK, NEW p \in Sends, Flow(p), Step(p), NEW x, Logs(p, x),
         \/ x \notin Spoken /\ UNCHANGED <<binding, inHand>>
         \/ x \in Spoken /\ x = inHand[p] /\ inHand'[p] = Nothing /\ binding[p].buffered = <<>> /\ UNCHANGED binding
         \/ /\ inHand[p] = Nothing /\ UNCHANGED inHand
            /\ binding[p].buffered # <<>> /\ x = Head(binding[p].buffered)
            /\ binding'[p].buffered = Tail(binding[p].buffered),
         x \notin Spoken => ~ In(x, log[p]),
         x = <<"user", 0>> \/ pc[p] \in Announced,
         Broadcasts(p)'
  PROVE  Flow(p)'
<1>1. HandsOver(p)'
  BY HandsOverStays DEF Flow
<1>2. InTurn(p)' /\ AllSaid(p)'
  BY LogsKeeps DEF Flow
<1>3. x \in Spoken => ~ In(x, log[p])
  <2>1. CASE x \in Spoken /\ x = inHand[p]
    <3>1. In(x, log[p]) => Rank(x) < Rank(x)
      BY <2>1 DEF Flow, InTurn
    <3> QED
      BY <2>1, <3>1, RankNat
  <2>2. CASE binding[p].buffered # <<>> /\ x = Head(binding[p].buffered)
    <3>1. binding[p].buffered \in Seq(Spoken)
      BY DEF TypeOK
    <3>2. In(x, binding[p].buffered) /\ x \in Spoken
      BY <2>2, <3>1, TailHolds
    <3>3. In(x, log[p]) => Rank(x) < Rank(x)
      BY <3>2 DEF Flow, InTurn, Below
    <3> QED
      BY <3>2, <3>3, RankNat
  <2> QED
    BY <2>1, <2>2
<1>4. log[p] = <<>> => x = <<"user", 0>>
  <2>1. pc[p] \in Announced => In(<<"user", 0>>, log[p])
    BY DEF Flow, Broadcasts
  <2>2. In(<<"user", 0>>, log[p]) => log[p] # <<>>
    BY DEF In
  <2> QED
    BY <2>1, <2>2
<1>5. Once(p)'
  BY <1>3, <1>4, OnceStays DEF Flow, Logs
<1> QED
  BY <1>1, <1>2, <1>5 DEF Flow

\* A step without a word: the log and what the CLI said stay.
LEMMA FlowStill ==
  ASSUME TypeOK, NEW p \in Sends, Flow(p), Step(p),
         UNCHANGED <<stdout, inHand, log>>, binding'[p].buffered = binding[p].buffered,
         cli'[p].replies = cli[p].replies, cli'[p].ended = cli[p].ended,
         Broadcasts(p)'
  PROVE  Flow(p)'
<1>1. HandsOver(p)'
  BY HandsOverStays DEF Flow
<1>2. InTurn(p)'
  BY DEF Flow, InTurn
<1>3. AllSaid(p)'
  <2>1. SaidBy(p)' = SaidBy(p) /\ \A f : Somewhere(f, p)' <=> Somewhere(f, p)
    BY DEF SaidBy, Somewhere
  <2> QED
    BY <2>1 DEF Flow, AllSaid
<1>4. Once(p)'
  BY DEF Flow, Once
<1> QED
  BY <1>1, <1>2, <1>3, <1>4 DEF Flow

\* The way from the CLI to the log stays right in every step,
LEMMA FlowStays ==
  ASSUME TypeOK, NEW p \in Sends, Flow(p), Step(p)
  PROVE  Flow(p)'
<1> DEFINE Logged == {<<"user", 0>>, <<"started", 0>>, <<"running", 0>>, <<"ended", 0>>, <<"ask", 0>>}
<1>1. \A x \in Logged : x \in Msgs /\ x \notin Spoken
  BY DEF Msgs, Spoken
<1>2. \A x \in Msgs : log'[p] = Append(log[p], x) => \A g : In(g, log'[p]) <=> In(g, log[p]) \/ g = x
  <2>1. log[p] \in Seq(Msgs)
    BY DEF TypeOK
  <2> QED
    BY <2>1, AppendHolds
<1> USE DEF Announced, Created, Synced, Handing, BoundPcs
<1>3. CASE Start(p) \/ Send(p) \/ Fails(p)
  <2>1. cli'[p].replies = cli[p].replies /\ cli'[p].ended = cli[p].ended
    BY <1>3, CliForms DEF TypeOK, CliNow
  <2>2. UNCHANGED <<stdout, inHand, log, binding, ask>>
    BY <1>3 DEF Start, Send, Fails, FailsIf, scan
  <2>3. Broadcasts(p)'
    BY <1>3, <2>2 DEF TypeOK, Flow, Broadcasts, Start, Send, Fails, FailsIf, Goto
  <2> QED
    BY <2>1, <2>2, <2>3, FlowStill
<1>4. CASE Create(p) \/ Bind(p) \/ Replayed(p)
  <2>1. binding'[p].buffered = binding[p].buffered
    <3>1. \/ BindingNow(p, FALSE, binding[p].buffered, binding[p].locked)
          \/ BindingNow(p, TRUE, binding[p].buffered, TRUE)
          \/ BindingNow(p, binding[p].bound, binding[p].buffered, FALSE)
      BY <1>4, BindingForms
    <3> QED
      BY <3>1 DEF TypeOK, BindingNow
  <2>2. UNCHANGED <<stdout, inHand, log, cli, ask>>
    BY <1>4 DEF Create, Bind, BindAs, Replayed, scan, process
  <2>3. Broadcasts(p)'
    BY <1>4, <2>2 DEF TypeOK, Flow, Broadcasts, Create, Bind, BindAs, Replayed, Goto
  <2> QED
    BY <2>1, <2>2, <2>3, FlowStill
<1>5. CASE Sync(p) \/ BindClients(p) \/ Render(p) \/ Show(p) \/ Model(p)
  <2>1. UNCHANGED <<stdout, inHand, log, cli, ask, binding>>
    BY <1>5 DEF Sync, BindClients, Render, Show, Model, ModelApplies, ModelPushes, ModelSyncs, scan, process
  <2>2. Broadcasts(p)'
    BY <1>5, <2>1 DEF TypeOK, Flow, Broadcasts, Sync, BindClients, Render, Show, Model, ModelApplies, ModelPushes, ModelSyncs, Goto
  <2> QED
    BY <2>1, <2>2, FlowStill
<1>6. CASE CliAsks(p) \/ CliExits(p) \/ PermHandler(p)
  <2>1. cli'[p].replies = cli[p].replies /\ cli'[p].ended = cli[p].ended
    BY <1>6, CliForms DEF TypeOK, CliNow, CliAsks, PermHandler
  <2>2. UNCHANGED <<stdout, inHand, log, binding, pc>>
    BY <1>6 DEF CliAsks, CliExits, PermHandler, scan
  <2>3. Broadcasts(p)'
    BY <1>6, <2>2 DEF TypeOK, Flow, Broadcasts, CliAsks, CliExits, PermHandler
  <2> QED
    BY <2>1, <2>2, <2>3, FlowStill
<1>7. CASE CliSays(p)
  <2>1. UNCHANGED <<binding, inHand, log, pc, ask>> /\ ~ cli[p].ended
    BY <1>7 DEF CliSays
  <2>2. cli[p].replies \in Nat
    BY FieldTypes, NewSessionAssumption
  <2>3. \E f \in Frames :
          /\ stdout'[p] = Append(stdout[p], f)
          /\ IF f \in Spoken THEN SaidBy(p)' = SaidBy(p) \cup {f} /\ \A g \in SaidBy(p) : Rank(g) < Rank(f)
             ELSE SaidBy(p)' = SaidBy(p)
    <3>1. CASE /\ CliNow(p, cli[p].up, cli[p].got, TRUE, cli[p].replies, cli[p].ended)
               /\ stdout' = [stdout EXCEPT ![p] = Append(@, <<"id", 0>>)]
      <4>1. cli'[p].replies = cli[p].replies /\ cli'[p].ended = cli[p].ended
        BY <3>1 DEF CliNow, TypeOK
      <4>2. <<"id", 0>> \in Frames \ Spoken
        BY DEF Frames, Spoken
      <4> QED
        BY <3>1, <4>1, <4>2 DEF TypeOK, SaidBy
    <3>2. CASE /\ cli[p].replies < MaxReplies
               /\ CliNow(p, cli[p].up, cli[p].got, cli[p].named, cli[p].replies + 1, cli[p].ended)
               /\ stdout' = [stdout EXCEPT ![p] = Append(@, Reply(cli[p].replies + 1))]
      <4> DEFINE n == cli[p].replies
      <4>1. cli'[p].replies = n + 1 /\ cli'[p].ended = cli[p].ended
        BY <3>2 DEF CliNow, TypeOK
      <4>2. Reply(n + 1) \in Spoken /\ Reply(n + 1) \in Frames
        BY <2>2, <3>2, NewSessionAssumption DEF Frames, Spoken, Reply
      <4>3. 1 .. n + 1 = (1 .. n) \cup {n + 1}
        BY <2>2
      <4>4. SaidBy(p) = {Reply(k) : k \in 1 .. n} /\ SaidBy(p)' = {Reply(k) : k \in 1 .. n + 1}
        BY <2>1, <4>1 DEF SaidBy
      <4>5. SaidBy(p)' = SaidBy(p) \cup {Reply(n + 1)}
        BY <4>3, <4>4
      <4>6. \A g \in SaidBy(p) : Rank(g) < Rank(Reply(n + 1))
        BY <2>2, <4>4 DEF Rank, Reply
      <4> QED
        BY <3>2, <4>2, <4>5, <4>6 DEF TypeOK
    <3>3. CASE /\ CliNow(p, cli[p].up, cli[p].got, cli[p].named, cli[p].replies, TRUE)
               /\ stdout' = [stdout EXCEPT ![p] = Append(@, <<"result", 0>>)]
      <4>1. cli'[p].replies = cli[p].replies /\ cli'[p].ended = TRUE
        BY <3>3 DEF CliNow, TypeOK
      <4>2. <<"result", 0>> \in Frames /\ <<"result", 0>> \in Spoken
        BY DEF Frames, Spoken
      <4>3. SaidBy(p)' = SaidBy(p) \cup {<<"result", 0>>} /\ SaidBy(p) = {Reply(k) : k \in 1 .. cli[p].replies}
        BY <2>1, <4>1 DEF SaidBy
      <4>4. cli[p].replies < MaxReplies + 1
        BY FieldTypes, NewSessionAssumption
      <4>5. \A g \in SaidBy(p) : Rank(g) < Rank(<<"result", 0>>)
        BY <2>2, <4>3, <4>4, NewSessionAssumption DEF Rank, Reply
      <4> QED
        BY <3>3, <4>2, <4>3, <4>5 DEF TypeOK
    <3> QED
      BY <1>7, <3>1, <3>2, <3>3, SaysForms
  <2>4. InTurn(p)' /\ AllSaid(p)'
    BY <2>1, <2>3, SaysKeeps DEF Says, Flow
  <2>5. Broadcasts(p)' /\ Once(p)'
    BY <2>1 DEF Flow, Broadcasts, Once
  <2> QED
    BY <2>4, <2>5, HandsOverStays DEF Flow
<1>8. CASE OnEvent(p)
  <2>1. UNCHANGED <<pc, cli, ask, log>>
    BY <1>8 DEF OnEvent, process
  <2>2. Takes(p)
    BY <1>8, <2>1, EventForms DEF Takes, TypeOK
  <2>3. InTurn(p)' /\ AllSaid(p)'
    <3>1. CASE Head(stdout[p]) = <<"id", 0>> /\ UNCHANGED <<binding, inHand>>
      BY <2>2, <3>1, TakesKeeps DEF Flow
    <3>2. CASE /\ Head(stdout[p]) \in Spoken /\ binding[p].bound /\ ~ binding[p].locked
               /\ inHand' = [inHand EXCEPT ![p] = Head(stdout[p])] /\ UNCHANGED binding
      <4>1. binding[p].buffered = <<>>
        BY <3>2 DEF Flow, HandsOver
      <4>2. inHand'[p] = Head(stdout[p])
        BY <3>2 DEF TypeOK
      <4> QED
        BY <2>2, <3>2, <4>1, <4>2, TakesKeeps DEF Flow
    <3>3. CASE /\ Head(stdout[p]) \in Spoken /\ UNCHANGED inHand
               /\ BindingNow(p, FALSE, Append(binding[p].buffered, Head(stdout[p])), FALSE)
      <4>1. binding'[p].buffered = Append(binding[p].buffered, Head(stdout[p]))
        BY <3>3 DEF BindingNow, TypeOK
      <4> QED
        BY <2>2, <3>3, <4>1, TakesKeeps DEF Flow
    <3> QED
      BY <1>8, <3>1, <3>2, <3>3, EventForms
  <2>4. Broadcasts(p)' /\ Once(p)'
    BY <2>1 DEF Flow, Broadcasts, Once
  <2> QED
    BY <2>3, <2>4, HandsOverStays DEF Flow
<1>9. CASE HandleStreamEvent(p)
  <2>1. inHand[p] \in Spoken /\ inHand[p] \in Msgs
    BY <1>9 DEF HandleStreamEvent, TypeOK, Msgs
  <2>2. /\ log'[p] = Append(log[p], inHand[p]) /\ inHand'[p] = Nothing
        /\ UNCHANGED <<pc, ask, cli, stdout, binding>>
    BY <1>9 DEF HandleStreamEvent, Broadcast, TypeOK, process
  <2>3. binding[p].buffered = <<>> /\ pc[p] \in Announced
    BY <1>9 DEF HandleStreamEvent, Flow, HandsOver
  <2>4. Broadcasts(p)'
    BY <1>1, <1>2, <2>1, <2>2 DEF Flow, Broadcasts
  <2> QED
    BY <2>1, <2>2, <2>3, <2>4, FlowLogs DEF Logs
<1>10. CASE Replay(p)
  <2>1. binding'[p].buffered = Tail(binding[p].buffered)
    <3>1. BindingNow(p, binding[p].bound, Tail(binding[p].buffered), binding[p].locked)
      BY <1>10, BindingForms
    <3> QED
      BY <3>1 DEF TypeOK, BindingNow
  <2> DEFINE x == Head(binding[p].buffered)
  <2>2. x \in Spoken /\ x \in Msgs
    BY <1>10, TailHolds DEF Replay, TypeOK, Msgs
  <2>3. /\ binding[p].buffered # <<>> /\ log'[p] = Append(log[p], x)
        /\ UNCHANGED <<pc, ask, cli, stdout, inHand>>
    BY <1>10 DEF Replay, Broadcast, TypeOK, process, scan
  <2>4. pc[p] \in Announced /\ inHand[p] = Nothing
    BY <1>10 DEF Replay, Flow, HandsOver
  <2> HIDE DEF x
  <2>5. Broadcasts(p)'
    BY <1>1, <1>2, <2>2, <2>3 DEF Flow, Broadcasts
  <2> QED
    BY <2>1, <2>2, <2>3, <2>4, <2>5, FlowLogs DEF Logs, x
<1>11. ASSUME NEW x \in Logged, log'[p] = Append(log[p], x), UNCHANGED <<cli, stdout, binding, inHand>>,
              ~ In(x, log[p]), x = <<"user", 0>> \/ pc[p] \in Announced, Broadcasts(p)'
       PROVE  Flow(p)'
  BY <1>1, <1>11, FlowLogs DEF Logs
<1>12. CASE BroadcastUserMessage(p)
  <2>1. /\ log'[p] = Append(log[p], <<"user", 0>>) /\ pc[p] = "announce" /\ pc'[p] = "replay"
        /\ UNCHANGED <<cli, stdout, binding, inHand, ask>>
    BY <1>12 DEF BroadcastUserMessage, Broadcast, Goto, TypeOK, process, scan
  <2>2. ~ In(<<"user", 0>>, log[p])
    BY <2>1 DEF Flow, Broadcasts
  <2>3. Broadcasts(p)'
    BY <1>1, <1>2, <2>1 DEF Flow, Broadcasts
  <2> QED
    BY <1>11, <2>1, <2>2, <2>3
<1>13. CASE BroadcastStarted(p)
  <2>1. /\ log'[p] = Append(log[p], <<"started", 0>>) /\ pc[p] = "started" /\ pc'[p] = "sync"
        /\ UNCHANGED <<cli, stdout, binding, inHand, ask>>
    BY <1>13 DEF BroadcastStarted, Broadcast, Goto, TypeOK, process, scan
  <2>2. ~ In(<<"started", 0>>, log[p])
    BY <2>1 DEF Flow, Broadcasts
  <2>3. Broadcasts(p)'
    BY <1>1, <1>2, <2>1 DEF Flow, Broadcasts
  <2> QED
    BY <1>11, <2>1, <2>2, <2>3
<1>14. CASE BroadcastRunning(p)
  <2>1. /\ log'[p] = Append(log[p], <<"running", 0>>) /\ pc[p] = "running" /\ pc'[p] = "done"
        /\ UNCHANGED <<cli, stdout, binding, inHand, ask>>
    BY <1>14 DEF BroadcastRunning, Broadcast, Goto, TypeOK, process, scan
  <2>2. ~ In(<<"running", 0>>, log[p])
    BY <2>1 DEF Flow, Broadcasts
  <2>3. Broadcasts(p)'
    BY <1>1, <1>2, <2>1 DEF Flow, Broadcasts
  <2> QED
    BY <1>11, <2>1, <2>2, <2>3
<1>15. CASE Watch(p)
  <2>1. /\ log'[p] = Append(log[p], <<"ended", 0>>) /\ pc[p] = "done" /\ pc'[p] = "ended"
        /\ UNCHANGED <<cli, stdout, binding, inHand, ask>>
    BY <1>15 DEF Watch, Broadcast, Goto, TypeOK, process, scan
  <2>2. ~ In(<<"ended", 0>>, log[p])
    BY <2>1 DEF Flow, Broadcasts
  <2>3. Broadcasts(p)'
    BY <1>1, <1>2, <2>1 DEF Flow, Broadcasts
  <2> QED
    BY <1>11, <2>1, <2>2, <2>3
<1>16. CASE HandlePermission(p)
  <2>1. /\ log'[p] = Append(log[p], <<"ask", 0>>) /\ ask[p] = "registered" /\ ask'[p] = "waiting"
        /\ UNCHANGED <<cli, stdout, binding, inHand, pc>>
    BY <1>16 DEF HandlePermission, Broadcast, TypeOK, scan
  <2>2. ~ In(<<"ask", 0>>, log[p]) /\ pc[p] \in Announced
    BY <2>1 DEF Flow, Broadcasts, HandsOver
  <2>3. Broadcasts(p)'
    BY <1>1, <1>2, <2>1 DEF Flow, Broadcasts
  <2> QED
    BY <1>11, <2>1, <2>2, <2>3
<1> QED
  BY <1>3, <1>4, <1>5, <1>6, <1>7, <1>8, <1>9, <1>10, <1>12, <1>13, <1>14, <1>15, <1>16
     DEF Step, Goes, Announces, Scan, Permission

-----------------------------------------------------------------------------
(* What a session begins with.                                             *)

\* it is right at first,
LEMMA FlowStarts ==
  ASSUME Init, NEW p \in Sends
  PROVE  Flow(p)
<1>1. /\ pc[p] = "start" /\ ask[p] = "none" /\ inHand[p] = Nothing /\ cli[p].replies = 0 /\ ~ cli[p].ended
      /\ ~ binding[p].bound /\ ~ binding[p].locked
      /\ log[p] = <<>> /\ binding[p].buffered = <<>> /\ stdout[p] = <<>>
  BY DEF Init
<1>2. \A f : ~ In(f, <<>>)
  BY DEF In
<1>3. HandsOver(p)
  BY <1>1 DEF HandsOver, BoundPcs, Announced, Created, Handing
<1>4. InTurn(p)
  BY <1>1, <1>2 DEF InTurn, Rising, Below, Nothing, Spoken
<1>5. AllSaid(p)
  <2>1. SaidBy(p) = {}
    BY <1>1 DEF SaidBy
  <2>2. Nothing \notin Spoken
    BY DEF Nothing, Spoken
  <2> QED
    BY <1>1, <1>2, <2>1, <2>2 DEF AllSaid, Somewhere
<1>6. Broadcasts(p)
  BY <1>1, <1>2 DEF Broadcasts, Announced, Created, Synced, Handing, BoundPcs
<1>7. Once(p)
  BY <1>1 DEF Once
<1> QED
  BY <1>3, <1>4, <1>5, <1>6, <1>7 DEF Flow

\* and so it is always.
LEMMA FlowAlways == Spec => [](TypeOK /\ \A p \in Sends : Flow(p))
<1> DEFINE I == TypeOK /\ \A p \in Sends : Flow(p)
<1>1. Init => I
  BY InitTypes, FlowStarts
<1>2. I /\ [Next]_vars => I'
  <2> SUFFICES ASSUME I, [Next]_vars PROVE I'
    OBVIOUS
  <2>1. TypeOK'
    BY TypesInvariant
  <2>2. ASSUME NEW q \in Sends PROVE Flow(q)'
    <3>1. CASE UNCHANGED vars
      <4>1. Untouched(q)
        BY <3>1 DEF vars, process, scan, model, display, Untouched
      <4> QED
        BY <4>1, OthersKeep
    <3>2. ASSUME NEW p \in Sends, Step(p)
          PROVE  Flow(q)'
      <4>1. CASE p = q
        BY <3>2, <4>1, FlowStays
      <4>2. CASE p # q
        <5>1. Untouched(q)
          BY <3>2, <4>2, OthersStay
        <5> QED
          BY <5>1, OthersKeep
      <4> QED
        BY <4>1, <4>2
    <3> QED
      BY <3>1, <3>2, NextSteps
  <2> QED
    BY <2>1, <2>2
<1> HIDE DEF I
<1>3. I => TypeOK /\ \A p \in Sends : Flow(p)
  BY DEF I
<1> QED
  BY <1>1, <1>2, <1>3, PTL DEF Spec

\* A sequence whose words rise, and then one with later words.
LEMMA RisingJoins ==
  ASSUME NEW S, NEW s \in Seq(S), NEW t \in Seq(S), Rising(s), Rising(t), Below(s, t)
  PROVE  /\ s \o t \in Seq(S) /\ Rising(s \o t)
         /\ \A f : In(f, s \o t) <=> In(f, s) \/ In(f, t)
<1>1. /\ Len(s) \in Nat /\ Len(t) \in Nat /\ s \o t \in Seq(S) /\ Len(s \o t) = Len(s) + Len(t)
      /\ \A i \in 1 .. Len(s) + Len(t) : (s \o t)[i] = IF i <= Len(s) THEN s[i] ELSE t[i - Len(s)]
  BY ConcatProperties, LenProperties
<1> DEFINE u == s \o t
<1>2. \A i \in 1 .. Len(u) : \/ i \in 1 .. Len(s) /\ u[i] = s[i]
                             \/ i \notin 1 .. Len(s) /\ i - Len(s) \in 1 .. Len(t) /\ u[i] = t[i - Len(s)]
  BY <1>1
<1>3. /\ \A i \in 1 .. Len(s) : i \in 1 .. Len(u) /\ u[i] = s[i]
      /\ \A i \in 1 .. Len(t) : i + Len(s) \in 1 .. Len(u) /\ u[i + Len(s)] = t[i]
  BY <1>1
<1> HIDE DEF u
<1>4. \A f : In(f, u) <=> In(f, s) \/ In(f, t)
  <2>1. ASSUME NEW f, In(f, u) PROVE In(f, s) \/ In(f, t)
    BY <1>2, <2>1 DEF In
  <2>2. ASSUME NEW f, In(f, s) PROVE In(f, u)
    BY <1>3, <2>2 DEF In
  <2>3. ASSUME NEW f, In(f, t) PROVE In(f, u)
    BY <1>3, <2>3 DEF In
  <2> QED
    BY <2>1, <2>2, <2>3
<1>5. Rising(u)
  <2> SUFFICES ASSUME NEW i \in 1 .. Len(u), NEW j \in 1 .. Len(u), u[i] \in Spoken, u[j] \in Spoken, i < j
               PROVE  Rank(u[i]) < Rank(u[j])
    BY DEF Rising
  <2>1. CASE j \in 1 .. Len(s)
    <3>1. i \in 1 .. Len(s)
      BY <1>1, <2>1
    <3> QED
      BY <1>2, <2>1, <3>1 DEF Rising
  <2>2. CASE i \in 1 .. Len(s) /\ j \notin 1 .. Len(s)
    <3>1. In(u[i], s) /\ In(u[j], t)
      BY <1>2, <2>2 DEF In
    <3> QED
      BY <3>1 DEF Below
  <2>3. CASE i \notin 1 .. Len(s) /\ j \notin 1 .. Len(s)
    <3>1. /\ i - Len(s) \in 1 .. Len(t) /\ u[i] = t[i - Len(s)]
          /\ j - Len(s) \in 1 .. Len(t) /\ u[j] = t[j - Len(s)]
      BY <1>2, <2>3
    <3>2. i - Len(s) < j - Len(s)
      BY <1>1
    <3> QED
      BY <3>1, <3>2 DEF Rising
  <2> QED
    BY <2>1, <2>2, <2>3
<1> QED
  BY <1>1, <1>4, <1>5 DEF u

\* What the CLI said, from the log to its output, in the order it was said.
LEMMA InOrder ==
  ASSUME TypeOK, NEW p \in Sends, Flow(p)
  PROVE  LET said == log[p] \o <<inHand[p]>> \o binding[p].buffered \o stdout[p] IN
         /\ Rising(said) /\ DOMAIN said = 1 .. Len(said)
         /\ \A f \in Spoken : f \in SaidBy(p) <=> In(f, said)
<1> DEFINE S == Msgs \cup Frames \cup {Nothing}
           h == <<inHand[p]>>
           a == log[p] \o h
           b == a \o binding[p].buffered
           c == b \o stdout[p]
<1>1. log[p] \in Seq(S) /\ h \in Seq(S) /\ binding[p].buffered \in Seq(S) /\ stdout[p] \in Seq(S)
  <2>1. Msgs \subseteq S /\ Frames \subseteq S /\ Spoken \subseteq S /\ inHand[p] \in S
    BY DEF TypeOK, Frames
  <2>2. log[p] \in Seq(Msgs) /\ binding[p].buffered \in Seq(Spoken) /\ stdout[p] \in Seq(Frames)
    BY DEF TypeOK
  <2> QED
    BY <2>1, <2>2
<1>2. Rising(h) /\ \A f : In(f, h) <=> f = inHand[p]
  BY DEF Rising, In
<1>3. InTurn(p) /\ AllSaid(p) /\ HandsOver(p)
  BY DEF Flow
<1> HIDE DEF S, h
<1>4. Rising(a) /\ a \in Seq(S) /\ \A f : In(f, a) <=> In(f, log[p]) \/ f = inHand[p]
  <2>1. Below(log[p], h)
    BY <1>2, <1>3 DEF Below, InTurn
  <2> QED
    BY <1>1, <1>2, <1>3, <2>1, RisingJoins DEF InTurn
<1> HIDE DEF a
<1>5. Rising(b) /\ b \in Seq(S) /\ \A f : In(f, b) <=> In(f, a) \/ In(f, binding[p].buffered)
  <2>1. inHand[p] \in Spoken => \A f : ~ In(f, binding[p].buffered)
    <3>1. inHand[p] \in Spoken => binding[p].buffered = <<>>
      BY <1>3 DEF HandsOver, Nothing, Spoken
    <3> QED
      BY <3>1 DEF In
  <2>2. Below(a, binding[p].buffered)
    BY <1>3, <1>4, <2>1 DEF Below, InTurn
  <2> QED
    BY <1>1, <1>3, <1>4, <2>2, RisingJoins DEF InTurn
<1> HIDE DEF b
<1>6. Rising(c) /\ c \in Seq(S) /\ \A f : In(f, c) <=> In(f, b) \/ In(f, stdout[p])
  <2>1. Below(b, stdout[p])
    BY <1>3, <1>4, <1>5 DEF Below, InTurn
  <2> QED
    BY <1>1, <1>3, <1>5, <2>1, RisingJoins DEF InTurn
<1>7. \A f \in Spoken : f \in SaidBy(p) <=> In(f, c)
  BY <1>3, <1>4, <1>5, <1>6 DEF AllSaid, Somewhere
<1>8. DOMAIN c = 1 .. Len(c)
  BY <1>6, LenProperties
<1> QED
  BY <1>6, <1>7, <1>8 DEF c, b, a, h

\* A session begins with the user's message and has all that the CLI said, in
\* the order it was said, whether it was buffered and replayed or handled; a
\* send that failed has no CLI and no session.
THEOREM SessionBegins == Spec => []SessionBeginsRight
<1>1. ASSUME TypeOK, \A p \in Sends : Flow(p)
      PROVE  SessionBeginsRight
  <2>1. RepliesInOrder
    <3> SUFFICES ASSUME NEW p \in Sends
                 PROVE  LET said == log[p] \o <<inHand[p]>> \o binding[p].buffered \o stdout[p]
                            spoken == {i \in DOMAIN said : said[i] \in Spoken}
                        IN /\ \A i, j \in spoken : i < j => Rank(said[i]) < Rank(said[j])
                           /\ {said[i] : i \in spoken} = SaidBy(p)
      BY DEF RepliesInOrder, SaidBy
    <3> DEFINE said == log[p] \o <<inHand[p]>> \o binding[p].buffered \o stdout[p]
    <3>1. /\ Rising(said) /\ DOMAIN said = 1 .. Len(said)
          /\ \A f \in Spoken : f \in SaidBy(p) <=> In(f, said)
      BY <1>1, InOrder
    <3>2. SaidBy(p) \subseteq Spoken
      <4>1. cli[p].replies \in 0 .. MaxReplies
        BY <1>1, FieldTypes
      <4> QED
        BY <4>1, NewSessionAssumption DEF SaidBy, Spoken, Reply
    <3> HIDE DEF said
    <3> DEFINE spoken == {i \in DOMAIN said : said[i] \in Spoken}
    <3>3. \A i, j \in spoken : i < j => Rank(said[i]) < Rank(said[j])
      BY <3>1 DEF Rising
    <3>4. {said[i] : i \in spoken} = SaidBy(p)
      <4>1. ASSUME NEW i \in spoken PROVE said[i] \in SaidBy(p)
        BY <3>1 DEF In
      <4>2. ASSUME NEW f \in SaidBy(p) PROVE \E i \in spoken : said[i] = f
        BY <3>1, <3>2 DEF In
      <4> QED
        BY <4>1, <4>2
    <3> QED
      BY <3>3, <3>4 DEF said
  <2>2. UserMessageFirst
    BY <1>1 DEF UserMessageFirst, Flow, Once
  <2>3. FailureLeavesNothing
    BY <1>1 DEF FailureLeavesNothing, Flow, HandsOver, Announced, Created
  <2> QED
    BY <1>1, <2>1, <2>2, <2>3 DEF SessionBeginsRight
<1> QED
  BY <1>1, FlowAlways, PTL

-----------------------------------------------------------------------------
(* From the log to the model.                                              *)

\* What Apply does to each part of the model.
LEMMA ApplyFields ==
  ASSUME NEW before \in States, NEW x \in Msgs
  PROVE  LET after == ApplyMsg(before, x) IN
         /\ after.seen = before.seen \cup {x}
         /\ after.chips = before.chips \o Chips(x)
         /\ after.turn <=> \/ x = <<"running", 0>>
                           \/ before.turn /\ x # <<"result", 0>> /\ x # <<"started", 0>>
         /\ after.perm <=> x = <<"ask", 0>> \/ (before.perm /\ x # <<"started", 0>>)
<1>1. /\ x[1] = "running" <=> x = <<"running", 0>>
      /\ x[1] = "result" <=> x = <<"result", 0>>
      /\ x[1] = "started" <=> x = <<"started", 0>>
      /\ x[1] = "ask" <=> x = <<"ask", 0>>
  BY DEF Msgs, Spoken
<1> QED
  BY <1>1 DEF ApplyMsg

\* The types of the log, the queue and the model.
LEMMA Lengths ==
  ASSUME TypeOK, NEW p \in Sends
  PROVE  /\ Len(log[p]) \in Nat /\ Len(queue[p]) \in Nat
         /\ \A i \in 1 .. Len(log[p]) : log[p][i] \in Msgs
         /\ log[p] \in Seq(Msgs) /\ queue[p] \in Seq(Msgs \cup {<<"sync", 0>>})
         /\ m[p] \in States /\ applied[p].msg \in Msgs \cup {Nothing} /\ Nothing \notin Msgs
         /\ <<"sync", 0>> \notin Msgs
<1>1. log[p] \in Seq(Msgs) /\ queue[p] \in Seq(Msgs \cup {<<"sync", 0>>})
  BY DEF TypeOK
<1>2. Nothing \notin Msgs /\ <<"sync", 0>> \notin Msgs
  BY DEF Nothing, Msgs, Spoken
<1>3. m[p] \in States /\ applied[p].msg \in Msgs \cup {Nothing}
  BY DEF TypeOK
<1> QED
  BY <1>1, <1>2, <1>3, LenProperties, ElementOfSeq

\* The model has applied so many messages of the log as the queue does not have.
LEMMA DoneNat ==
  ASSUME TypeOK, NEW p \in Sends, Folds(p)
  PROVE  /\ Len(log[p]) \in Nat /\ Len(queue[p]) \in Nat
         /\ Done(p) \in Nat /\ Done(p) \in 0 .. Len(log[p])
         /\ \A i \in 1 .. Done(p) : i \in 1 .. Len(log[p])
         /\ Len(log[p]) = Done(p) + Len(queue[p]) - (IF pc[p] = "syncing" THEN 1 ELSE 0)
<1> DEFINE b == IF pc[p] = "syncing" THEN 1 ELSE 0
           l == Len(log[p])
           q == Len(queue[p])
<1>1. l \in Nat /\ q \in Nat /\ b \in 0 .. 1
  BY Lengths
<1>2. Done(p) = l - (q - b) /\ Done(p) \in 0 .. l
  BY DEF Folds, Queued, Done
<1> HIDE DEF b, l, q
<1>3. Done(p) \in Nat /\ l = Done(p) + q - b /\ \A i \in 1 .. Done(p) : i \in 1 .. l
  BY <1>1, <1>2
<1> QED
  BY <1>1, <1>2, <1>3 DEF l, q, b

\* A step that neither broadcasts nor concerns the model.
LEMMA FoldsStill ==
  ASSUME NEW p \in Sends, Folds(p),
         log'[p] = log[p], queue'[p] = queue[p], m'[p] = m[p],
         applied'[p] = applied[p] \/ (applied'[p].msg = Nothing /\ ~ applied'[p].changed),
         pc'[p] = "syncing" <=> pc[p] = "syncing", pc'[p] \in Synced => pc[p] \in Synced
  PROVE  Folds(p)'
<1>1. Done(p)' = Done(p)
  BY DEF Done
<1>2. Queued(p)'
  BY <1>1 DEF Folds, Queued
<1>3. Applied(p)'
  BY <1>1 DEF Folds, Applied
<1>4. StateFolds(p)'
  BY <1>1, Zenon DEF Folds, StateFolds
<1>5. SyncedUp(p)'
  BY <1>1 DEF Folds, SyncedUp
<1> QED
  BY <1>2, <1>3, <1>4, <1>5 DEF Folds

\* A broadcast puts a message into the log and the queue.
Adds(p, x) ==
  /\ log'[p] = Append(log[p], x) /\ queue'[p] = Append(queue[p], x) /\ m'[p] = m[p] /\ applied'[p] = applied[p]
  /\ pc'[p] = "syncing" <=> pc[p] = "syncing"
  /\ pc'[p] \in Synced => pc[p] \in Synced
  /\ x = <<"started", 0>> => pc[p] \notin Synced \cup {"syncing"}

\* A broadcast leaves what the model has folded so far.
LEMMA FoldsBroadcast ==
  ASSUME TypeOK, NEW p \in Sends, Folds(p), NEW x \in Msgs, Adds(p, x)
  PROVE  Folds(p)'
<1> DEFINE l == Len(log[p])
           q == Len(queue[p])
           d == Done(p)
           b == IF pc[p] = "syncing" THEN 1 ELSE 0
<1>1. /\ m'[p] = m[p] /\ applied'[p] = applied[p]
      /\ pc'[p] = "syncing" <=> pc[p] = "syncing"
      /\ pc'[p] \in Synced => pc[p] \in Synced
      /\ x = <<"started", 0>> => pc[p] \notin Synced \cup {"syncing"}
  BY DEF Adds
<1>2. Len(log'[p]) = l + 1 /\ Len(queue'[p]) = q + 1
  BY Lengths, AppendHolds DEF Adds
<1>3. log'[p][l + 1] = x /\ \A i \in 1 .. l : log'[p][i] = log[p][i]
  BY Lengths, AppendHolds DEF Adds
<1>4. queue'[p][q + 1] = x /\ \A i \in 1 .. q : queue'[p][i] = queue[p][i]
  BY Lengths, AppendHolds DEF Adds
<1>5. /\ l \in Nat /\ q \in Nat /\ d \in Nat /\ d <= l /\ l + b = d + q
  <2>1. l \in Nat /\ q \in Nat /\ d \in Nat /\ d \in 0 .. l /\ l = d + q - b
    BY DoneNat
  <2>2. b \in 0 .. 1
    OBVIOUS
  <2> HIDE DEF l, q, d, b
  <2> QED
    BY <2>1, <2>2
<1>6. /\ b \in 0 .. 1
      /\ pc[p] = "syncing" => b = 1
      /\ pc[p] # "syncing" => b = 0
  OBVIOUS
<1>7. Done(p)' = (l + 1) - ((q + 1) - b)
  BY <1>1, <1>2 DEF Done
<1>8. /\ pc[p] # "syncing" => \A i \in 1 .. q : queue[p][i] = log[p][d + i]
      /\ pc[p] = "syncing" => \E s \in 1 .. q :
           /\ queue[p][s] = <<"sync", 0>>
           /\ \A i \in 1 .. s - 1 : queue[p][i] = log[p][d + i]
           /\ \A i \in s + 1 .. q : queue[p][i] = log[p][d + i - 1]
           /\ \A i \in 1 .. l : log[p][i] = <<"started", 0>> => i < d + s
  BY DEF Folds, Queued
<1>9. /\ m[p].seen = {log[p][i] : i \in 1 .. d}
      /\ \A i \in 1 .. Len(m[p].chips) : m[p].chips[i] = Word(i)
      /\ \A i \in 1 .. MaxReplies + 1 : Word(i) \in m[p].seen <=> i <= Len(m[p].chips)
      /\ applied[p].msg # Nothing => d # 0 /\ applied[p].msg = log[p][d]
      /\ applied[p].msg = Nothing => ~ applied[p].changed
  BY DEF Folds, Applied
<1>10. /\ m[p].turn => \E i \in 1 .. d :
            /\ log[p][i] = <<"running", 0>>
            /\ \A j \in i .. d : log[p][j] # <<"result", 0>>
       /\ m[p].perm => <<"ask", 0>> \in m[p].seen
       /\ <<"ask", 0>> \in m[p].seen =>
            \/ m[p].perm
            \/ \E i, j \in 1 .. d : i < j /\ log[p][i] = <<"ask", 0>> /\ log[p][j] = <<"started", 0>>
  BY DEF Folds, StateFolds
<1>11. pc[p] \in Synced => \A i \in 1 .. l : log[p][i] = <<"started", 0>> =>
         i <= d /\ (applied[p].msg # Nothing => i < d)
  BY DEF Folds, SyncedUp
<1> HIDE DEF l, q, d, b
<1>12. Done(p)' = d
  <2>1. (l + 1) - ((q + 1) - b) = d
    BY <1>5, <1>6
  <2> QED
    BY <1>7, <2>1
<1>13. \A i \in 1 .. l + 1 : i \in 1 .. l \/ i = l + 1
  BY <1>5
<1>14. \A i \in 1 .. q + 1 : i \in 1 .. q \/ i = q + 1
  BY <1>5
<1>15. \A i \in 1 .. d : i \in 1 .. l
  BY <1>5
<1>16. Queued(p)'
  <2>1. d \in 0 .. l + 1
    BY <1>5
  <2>2. ASSUME pc[p] # "syncing", NEW i \in 1 .. q + 1
        PROVE  queue'[p][i] = log'[p][d + i]
    <3>1. CASE i \in 1 .. q
      <4>1. d + i \in 1 .. l
        BY <1>5, <1>6, <2>2, <3>1
      <4> QED
        BY <1>3, <1>4, <1>8, <2>2, <3>1, <4>1
    <3>2. CASE i = q + 1
      <4>1. d + i = l + 1
        BY <1>5, <1>6, <2>2, <3>2
      <4> QED
        BY <1>3, <1>4, <3>2, <4>1
    <3> QED
      BY <1>14, <3>1, <3>2
  <2>3. ASSUME pc[p] = "syncing"
        PROVE  \E s \in 1 .. q + 1 :
                 /\ queue'[p][s] = <<"sync", 0>>
                 /\ \A i \in 1 .. s - 1 : queue'[p][i] = log'[p][d + i]
                 /\ \A i \in s + 1 .. q + 1 : queue'[p][i] = log'[p][d + i - 1]
                 /\ \A i \in 1 .. l + 1 : log'[p][i] = <<"started", 0>> => i < d + s
    <3>1. PICK s \in 1 .. q :
             /\ queue[p][s] = <<"sync", 0>>
             /\ \A i \in 1 .. s - 1 : queue[p][i] = log[p][d + i]
             /\ \A i \in s + 1 .. q : queue[p][i] = log[p][d + i - 1]
             /\ \A i \in 1 .. l : log[p][i] = <<"started", 0>> => i < d + s
      BY <1>8, <2>3
    <3>2. s \in 1 .. q + 1 /\ queue'[p][s] = <<"sync", 0>>
      BY <1>4, <1>5, <3>1
    <3>3. ASSUME NEW i \in 1 .. s - 1
          PROVE  queue'[p][i] = log'[p][d + i]
      <4>1. i \in 1 .. q /\ d + i \in 1 .. l
        BY <1>5, <1>6
      <4> QED
        BY <1>3, <1>4, <3>1, <4>1
    <3>4. ASSUME NEW i \in s + 1 .. q + 1
          PROVE  queue'[p][i] = log'[p][d + i - 1]
      <4>1. CASE i \in s + 1 .. q
        <5>1. i \in 1 .. q /\ d + i - 1 \in 1 .. l
          BY <1>5, <1>6, <2>3, <4>1
        <5> QED
          BY <1>3, <1>4, <3>1, <4>1, <5>1
      <4>2. CASE i = q + 1
        <5>1. d + i - 1 = l + 1
          BY <1>5, <1>6, <2>3, <4>2
        <5> QED
          BY <1>3, <1>4, <4>2, <5>1
      <4>3. i \in s + 1 .. q \/ i = q + 1
        BY <1>5
      <4> QED
        BY <4>1, <4>2, <4>3
    <3>5. ASSUME NEW i \in 1 .. l + 1, log'[p][i] = <<"started", 0>>
          PROVE  i < d + s
      <4>1. i \in 1 .. l
        BY <1>1, <1>3, <1>13, <2>3, <3>5
      <4> QED
        BY <1>3, <3>1, <3>5, <4>1
    <3> QED
      BY <3>2, <3>3, <3>4, <3>5
  <2> QED
    BY <1>1, <1>2, <1>12, <2>1, <2>2, <2>3 DEF Queued
<1>17. Applied(p)'
  <2>1. {log'[p][i] : i \in 1 .. d} = {log[p][i] : i \in 1 .. d}
    BY <1>3, <1>15
  <2>2. d # 0 => log'[p][d] = log[p][d]
    <3>1. d # 0 => d \in 1 .. l
      BY <1>5
    <3> QED
      BY <1>3, <3>1
  <2>3. /\ m'[p].seen = {log'[p][i] : i \in 1 .. d}
        /\ \A i \in 1 .. Len(m'[p].chips) : m'[p].chips[i] = Word(i)
        /\ \A i \in 1 .. MaxReplies + 1 : Word(i) \in m'[p].seen <=> i <= Len(m'[p].chips)
    BY <1>1, <1>9, <2>1
  <2>4. /\ applied'[p].msg # Nothing => d # 0 /\ applied'[p].msg = log'[p][d]
        /\ applied'[p].msg = Nothing => ~ applied'[p].changed
    BY <1>1, <1>9, <2>2
  <2> QED
    BY <1>12, <2>3, <2>4 DEF Applied
<1>18. StateFolds(p)'
  <2>1. \A i \in 1 .. d : log'[p][i] = log[p][i]
    BY <1>3, <1>15
  <2>2. \A i \in 1 .. d : \A j \in i .. d : j \in 1 .. d
    BY <1>5
  <2>3. m'[p].turn => \E i \in 1 .. d :
          /\ log'[p][i] = <<"running", 0>>
          /\ \A j \in i .. d : log'[p][j] # <<"result", 0>>
    BY <1>1, <1>10, <2>1, <2>2
  <2>4. <<"ask", 0>> \in m'[p].seen =>
          \/ m'[p].perm
          \/ \E i, j \in 1 .. d : i < j /\ log'[p][i] = <<"ask", 0>> /\ log'[p][j] = <<"started", 0>>
    BY <1>1, <1>10, <2>1
  <2>5. m'[p].perm => <<"ask", 0>> \in m'[p].seen
    BY <1>1, <1>10
  <2> QED
    BY <1>12, <2>3, <2>4, <2>5, Zenon DEF StateFolds
<1>19. SyncedUp(p)'
  <2>1. ASSUME pc'[p] \in Synced, NEW i \in 1 .. l + 1, log'[p][i] = <<"started", 0>>
        PROVE  i <= d /\ (applied'[p].msg # Nothing => i < d)
    <3>1. i \in 1 .. l
      BY <1>1, <1>3, <1>13, <2>1
    <3> QED
      BY <1>1, <1>3, <1>11, <2>1, <3>1
  <2> QED
    BY <1>2, <1>12, <2>1 DEF SyncedUp
<1> QED
  BY <1>16, <1>17, <1>18, <1>19 DEF Folds

\* The mark of Sync comes after all that was broadcast.
LEMMA FoldsSync ==
  ASSUME TypeOK, NEW p \in Sends, Folds(p), Sync(p)
  PROVE  Folds(p)'
<1> DEFINE l == Len(log[p])
           q == Len(queue[p])
           d == Done(p)
<1>1. /\ m'[p] = m[p] /\ applied'[p] = applied[p] /\ log'[p] = log[p]
      /\ pc[p] = "sync" /\ pc'[p] = "syncing" /\ queue'[p] = Append(queue[p], <<"sync", 0>>)
  BY DEF Sync, Goto, TypeOK, model
<1>2. Len(queue'[p]) = q + 1
  BY <1>1, Lengths, AppendHolds
<1>3. queue'[p][q + 1] = <<"sync", 0>> /\ \A i \in 1 .. q : queue'[p][i] = queue[p][i]
  BY <1>1, Lengths, AppendHolds
<1>4. /\ l \in Nat /\ q \in Nat /\ d \in Nat /\ d <= l /\ l = d + q
  <2>1. l \in Nat /\ q \in Nat /\ d \in Nat /\ d \in 0 .. l /\ l = d + q - 0
    BY <1>1, DoneNat
  <2> HIDE DEF l, q, d
  <2> QED
    BY <2>1
<1>5. Done(p)' = l - ((q + 1) - 1)
  BY <1>1, <1>2 DEF Done
<1>6. \A i \in 1 .. q : queue[p][i] = log[p][d + i]
  BY <1>1 DEF Folds, Queued
<1> HIDE DEF l, q, d
<1>7. Done(p)' = d
  <2>1. l - ((q + 1) - 1) = d
    BY <1>4
  <2> QED
    BY <1>5, <2>1
<1>8. Queued(p)'
  <2>1. q + 1 \in 1 .. q + 1 /\ d \in 0 .. l
    BY <1>4
  <2>2. \A i \in 1 .. (q + 1) - 1 : queue'[p][i] = log[p][d + i]
    <3>1. \A i \in 1 .. (q + 1) - 1 : i \in 1 .. q
      BY <1>4
    <3> QED
      BY <1>3, <1>6, <3>1
  <2>3. \A i \in (q + 1) + 1 .. q + 1 : FALSE
    BY <1>4
  <2>4. \A i \in 1 .. l : i < d + (q + 1)
    BY <1>4
  <2>5. \E s \in 1 .. q + 1 :
          /\ queue'[p][s] = <<"sync", 0>>
          /\ \A i \in 1 .. s - 1 : queue'[p][i] = log[p][d + i]
          /\ \A i \in s + 1 .. q + 1 : queue'[p][i] = log[p][d + i - 1]
          /\ \A i \in 1 .. l : log[p][i] = <<"started", 0>> => i < d + s
    BY <1>3, <2>1, <2>2, <2>3, <2>4
  <2> QED
    BY <1>1, <1>2, <1>7, <2>1, <2>5 DEF Queued, l
<1>9. Applied(p)'
  BY <1>1, <1>7 DEF Folds, Applied, d
<1>10. StateFolds(p)'
  BY <1>1, <1>7, Zenon DEF Folds, StateFolds, d
<1>11. SyncedUp(p)'
  BY <1>1 DEF SyncedUp, Synced, Handing, BoundPcs, Announced, Created
<1> QED
  BY <1>8, <1>9, <1>10, <1>11 DEF Folds

\* The mark is the next thing in the queue: the rest is as it was.
LEMMA FoldsSyncs ==
  ASSUME TypeOK, NEW p \in Sends, Folds(p), ModelSyncs(p)
  PROVE  Folds(p)'
<1> DEFINE l == Len(log[p])
           q == Len(queue[p])
           d == Done(p)
<1>1. /\ m'[p] = m[p] /\ applied'[p] = applied[p] /\ log'[p] = log[p] /\ applied[p].msg = Nothing
      /\ pc[p] = "syncing" /\ pc'[p] = "bind" /\ queue[p] # <<>> /\ queue'[p] = Tail(queue[p])
      /\ Head(queue[p])[1] = "sync"
  BY DEF ModelSyncs, Goto, TypeOK, model
<1>2. Len(queue'[p]) = q - 1 /\ q # 0
  BY <1>1, Lengths, TailHolds
<1>3. /\ \A i \in 1 .. q - 1 : queue'[p][i] = queue[p][i + 1]
      /\ queue[p][1][1] = "sync"
  BY <1>1, Lengths, TailHolds
<1>4. /\ l \in Nat /\ q \in Nat /\ d \in Nat /\ d <= l /\ l + 1 = d + q
  <2>1. l \in Nat /\ q \in Nat /\ d \in Nat /\ d \in 0 .. l /\ l = d + q - 1
    BY <1>1, DoneNat
  <2> HIDE DEF l, q, d
  <2> QED
    BY <2>1
<1>5. Done(p)' = l - ((q - 1) - 0)
  BY <1>1, <1>2 DEF Done
<1>6. \A i \in 1 .. l : log[p][i] \in Msgs
  BY Lengths
<1>7. PICK s \in 1 .. q :
           /\ queue[p][s] = <<"sync", 0>>
           /\ \A i \in 1 .. s - 1 : queue[p][i] = log[p][d + i]
           /\ \A i \in s + 1 .. q : queue[p][i] = log[p][d + i - 1]
           /\ \A i \in 1 .. l : log[p][i] = <<"started", 0>> => i < d + s
  BY <1>1 DEF Folds, Queued
<1> HIDE DEF l, q, d
<1>8. Done(p)' = d
  <2>1. l - ((q - 1) - 0) = d
    BY <1>4
  <2> QED
    BY <1>5, <2>1
<1>9. s = 1
  <2> SUFFICES ASSUME s # 1 PROVE FALSE
    OBVIOUS
  <2>1. 1 \in 1 .. s - 1 /\ d + 1 \in 1 .. l
    BY <1>4
  <2>2. queue[p][1] \in Msgs
    BY <1>6, <1>7, <2>1
  <2> QED
    BY <1>3, <2>2 DEF Msgs, Spoken
<1>10. Queued(p)'
  <2>1. ASSUME NEW i \in 1 .. q - 1 PROVE queue'[p][i] = log[p][d + i]
    <3>1. i + 1 \in s + 1 .. q /\ d + (i + 1) - 1 = d + i
      BY <1>4, <1>9
    <3> QED
      BY <1>3, <1>7, <3>1
  <2>2. d \in 0 .. l
    BY <1>4
  <2> QED
    BY <1>1, <1>2, <1>8, <2>1, <2>2 DEF Queued, l
<1>11. Applied(p)'
  BY <1>1, <1>8 DEF Folds, Applied, d
<1>12. StateFolds(p)'
  BY <1>1, <1>8, Zenon DEF Folds, StateFolds, d
<1>13. SyncedUp(p)'
  <2>1. \A i \in 1 .. l : log[p][i] = <<"started", 0>> => i <= d
    BY <1>4, <1>7, <1>9
  <2> QED
    BY <1>1, <1>8, <2>1 DEF SyncedUp, l
<1> QED
  BY <1>10, <1>11, <1>12, <1>13 DEF Folds

\* The words of the conversation, and which messages are some.
LEMMA ChipWords ==
  /\ \A k \in 1 .. MaxReplies + 1 : Word(k) \in Msgs /\ Chips(Word(k)) = <<Word(k)>>
  /\ \A k, j \in 1 .. MaxReplies + 1 : Word(k) = Word(j) => k = j
  /\ \A x \in Msgs : \/ Chips(x) = <<>> /\ \A k \in 1 .. MaxReplies + 1 : x # Word(k)
                     \/ \E k \in 1 .. MaxReplies + 1 : x = Word(k)
<1> USE NewSessionAssumption
<1>1. ASSUME NEW k \in 1 .. MaxReplies + 1
      PROVE  \/ k = 1 /\ Word(k) = <<"user", 0>>
             \/ k - 1 \in 1 .. MaxReplies /\ Word(k) = <<"reply", k - 1>>
  <2>1. CASE k = 1
    <3>1. Word(k) = <<"user", 0>>
      BY <2>1 DEF Word
    <3> QED
      BY <2>1, <3>1
  <2>2. CASE k # 1
    <3>1. k - 1 \in 1 .. MaxReplies
      BY <2>2
    <3> QED
      BY <2>2, <3>1 DEF Word, Reply
  <2> QED
    BY <2>1, <2>2
<1>2. ASSUME NEW k \in 1 .. MaxReplies + 1 PROVE Word(k) \in Msgs /\ Chips(Word(k)) = <<Word(k)>>
  BY <1>1 DEF Msgs, Spoken, Chips
<1>3. ASSUME NEW k \in 1 .. MaxReplies + 1, NEW j \in 1 .. MaxReplies + 1, Word(k) = Word(j) PROVE k = j
  BY <1>1, <1>3
<1>4. ASSUME NEW x \in Msgs
      PROVE  \/ Chips(x) = <<>> /\ \A k \in 1 .. MaxReplies + 1 : x # Word(k)
             \/ \E k \in 1 .. MaxReplies + 1 : x = Word(k)
  <2>1. CASE x = <<"user", 0>>
    <3>1. 1 \in 1 .. MaxReplies + 1 /\ Word(1) = x
      BY <2>1 DEF Word
    <3> QED
      BY <3>1
  <2>2. CASE \E n \in 1 .. MaxReplies : x = <<"reply", n>>
    <3>1. PICK n \in 1 .. MaxReplies : x = <<"reply", n>>
      BY <2>2
    <3>2. n + 1 \in 1 .. MaxReplies + 1 /\ Word(n + 1) = x
      BY <3>1 DEF Word, Reply
    <3> QED
      BY <3>2
  <2>3. CASE x[1] \notin {"user", "reply"}
    BY <1>1, <2>3 DEF Chips
  <2> QED
    BY <2>1, <2>2, <2>3 DEF Msgs, Spoken
<1> QED
  BY <1>2, <1>3, <1>4

\* The words come into the log in their order.
LEMMA WordsInOrder ==
  ASSUME TypeOK, NEW p \in Sends, Flow(p), NEW n \in 1 .. Len(log[p]), NEW k \in 1 .. MaxReplies + 1,
         log[p][n] = Word(k), NEW j \in 1 .. MaxReplies + 1, j < k
  PROVE  \E i \in 1 .. Len(log[p]) : i < n /\ log[p][i] = Word(j)
<1> USE NewSessionAssumption
<1> DEFINE l == Len(log[p])
<1>1. l \in Nat
  BY Lengths
<1>2. /\ \A i, h \in 1 .. l : log[p][i] = log[p][h] => i = h
      /\ l # 0 => log[p][1] = <<"user", 0>>
  BY Lengths, EmptySeq DEF Flow, Once
<1>3. /\ \A i, h \in 1 .. l : log[p][i] \in Spoken /\ log[p][h] \in Spoken /\ i < h => Rank(log[p][i]) < Rank(log[p][h])
      /\ AllSaid(p) /\ InTurn(p)
  BY DEF Flow, InTurn, Rising
<1>4. k # 1 /\ k - 1 \in 1 .. MaxReplies /\ Word(k) = Reply(k - 1)
  BY DEF Word
<1>5. Reply(k - 1) \in Spoken /\ Rank(Reply(k - 1)) = k - 1
  BY <1>4 DEF Spoken, Reply, Rank
<1>6. CASE j = 1
  <2>1. 1 \in 1 .. l /\ log[p][1] = Word(j)
    BY <1>1, <1>2, <1>6 DEF Word
  <2>2. n # 1
    BY <1>6, <2>1, ChipWords
  <2>3. 1 < n
    BY <1>1, <2>2
  <2> QED
    BY <2>1, <2>3
<1>7. CASE j # 1
  <2>1. j - 1 \in 1 .. MaxReplies /\ j - 1 < k - 1 /\ Word(j) = Reply(j - 1)
    BY <1>7 DEF Word
  <2>2. Reply(j - 1) \in Spoken /\ Rank(Reply(j - 1)) = j - 1
    BY <2>1 DEF Spoken, Reply, Rank
  <2>3. In(Reply(k - 1), log[p])
    BY <1>4 DEF In
  <2>4. Reply(k - 1) \in SaidBy(p)
    BY <1>3, <1>5, <2>3 DEF AllSaid, Somewhere
  <2>5. k - 1 \in 1 .. cli[p].replies /\ cli[p].replies \in Nat
    <3>1. cli[p].replies \in Nat
      BY FieldTypes
    <3> QED
      BY <2>4, <3>1 DEF SaidBy, Reply
  <2>6. Reply(j - 1) \in SaidBy(p)
    <3>1. j - 1 \in 1 .. cli[p].replies
      BY <1>4, <2>1, <2>5
    <3> QED
      BY <3>1 DEF SaidBy
  <2>7. Somewhere(Reply(j - 1), p)
    BY <1>3, <2>2, <2>6 DEF AllSaid
  <2>8. ~ (k - 1 < j - 1)
    BY <1>4, <2>1
  <2>9. In(Reply(j - 1), log[p])
    <3>1. ~ In(Reply(j - 1), binding[p].buffered) /\ ~ In(Reply(j - 1), stdout[p])
      BY <1>3, <1>5, <2>2, <2>3, <2>8 DEF InTurn, Below
    <3>2. inHand[p] # Reply(j - 1)
      BY <1>3, <1>5, <2>2, <2>3, <2>8 DEF InTurn
    <3> QED
      BY <2>7, <3>1, <3>2 DEF Somewhere
  <2>10. PICK i \in 1 .. l : log[p][i] = Reply(j - 1)
    BY <2>9 DEF In
  <2>11. ~ (n < i)
    BY <1>3, <1>4, <1>5, <2>2, <2>8, <2>10
  <2>12. n # i
    BY <1>5, <2>2, <2>1, <2>10, <1>4
  <2>13. i < n
    BY <1>1, <2>11, <2>12
  <2> QED
    BY <2>1, <2>10, <2>13
<1> QED
  BY <1>6, <1>7

\* The message the model applies is the next of the log.
LEMMA NextMessage ==
  ASSUME TypeOK, NEW p \in Sends, Folds(p), ModelApplies(p)
  PROVE  /\ Done(p) + 1 \in 1 .. Len(log[p]) /\ Head(queue[p]) = log[p][Done(p) + 1]
         /\ Head(queue[p]) \in Msgs /\ m'[p] = ApplyMsg(m[p], Head(queue[p]))
         /\ applied'[p].msg = Head(queue[p]) /\ applied'[p].changed = (Active(m'[p]) # Active(m[p]))
         /\ applied[p].msg = Nothing /\ Done(p)' = Done(p) + 1 /\ log'[p] = log[p] /\ pc'[p] = pc[p]
         /\ UNCHANGED <<snapshot, client, page, crossed>>
         /\ Queued(p)'
<1> DEFINE l == Len(log[p])
           q == Len(queue[p])
           d == Done(p)
           b == IF pc[p] = "syncing" THEN 1 ELSE 0
           x == Head(queue[p])
<1>1. /\ queue[p] # <<>> /\ x[1] # "sync" /\ queue'[p] = Tail(queue[p])
      /\ applied[p].msg = Nothing /\ log'[p] = log[p] /\ pc'[p] = pc[p]
      /\ UNCHANGED <<snapshot, client, page, crossed>>
  BY DEF ModelApplies, TypeOK, display
<1>2. m'[p] = ApplyMsg(m[p], x)
  BY DEF ModelApplies, TypeOK
<1>3. applied'[p].msg = x /\ applied'[p].changed = (Active(m'[p]) # Active(m[p]))
  BY DEF ModelApplies, TypeOK
<1>4. Len(queue'[p]) = q - 1 /\ q # 0
  BY <1>1, Lengths, TailHolds
<1>5. \A i \in 1 .. q - 1 : queue'[p][i] = queue[p][i + 1]
  BY <1>1, <1>4, Lengths, TailHolds
<1>6. x = queue[p][1] /\ x \in Msgs
  <2>1. x = queue[p][1] /\ x \in Msgs \cup {<<"sync", 0>>}
    BY <1>1, Lengths, TailHolds
  <2> QED
    BY <1>1, <2>1
<1>7. /\ l \in Nat /\ q \in Nat /\ d \in Nat /\ d <= l /\ l + b = d + q
  <2>1. l \in Nat /\ q \in Nat /\ d \in Nat /\ d \in 0 .. l /\ l = d + q - b
    BY DoneNat
  <2>2. b \in 0 .. 1
    OBVIOUS
  <2> HIDE DEF l, q, d, b
  <2> QED
    BY <2>1, <2>2
<1>8. /\ b \in 0 .. 1
      /\ pc[p] = "syncing" => b = 1
      /\ pc[p] # "syncing" => b = 0
  OBVIOUS
<1>9. Done(p)' = l - ((q - 1) - b)
  BY <1>1, <1>4 DEF Done
<1>10. /\ pc[p] # "syncing" => \A i \in 1 .. q : queue[p][i] = log[p][d + i]
       /\ pc[p] = "syncing" => \E s \in 1 .. q :
            /\ queue[p][s] = <<"sync", 0>>
            /\ \A i \in 1 .. s - 1 : queue[p][i] = log[p][d + i]
            /\ \A i \in s + 1 .. q : queue[p][i] = log[p][d + i - 1]
            /\ \A i \in 1 .. l : log[p][i] = <<"started", 0>> => i < d + s
  BY DEF Folds, Queued
<1> HIDE DEF l, q, d, b, x
<1>11. Done(p)' = d + 1
  <2>1. l - ((q - 1) - b) = d + 1
    BY <1>7, <1>8
  <2> QED
    BY <1>9, <2>1
<1>12. CASE pc[p] # "syncing"
  <2>1. d + 1 \in 1 .. l /\ 1 \in 1 .. q /\ d + 1 \in 0 .. l
    BY <1>4, <1>7, <1>8, <1>12
  <2>2. x = log[p][d + 1]
    BY <1>6, <1>10, <1>12, <2>1
  <2>3. ASSUME NEW i \in 1 .. q - 1 PROVE queue'[p][i] = log[p][d + 1 + i]
    <3>1. i + 1 \in 1 .. q /\ d + (i + 1) = d + 1 + i
      BY <1>7
    <3> QED
      BY <1>5, <1>10, <1>12, <3>1
  <2>4. Queued(p)'
    BY <1>1, <1>4, <1>11, <1>12, <2>1, <2>3 DEF Queued, l
  <2> QED
    BY <1>1, <1>2, <1>3, <1>6, <1>11, <2>1, <2>2, <2>4 DEF x, d, l
<1>13. CASE pc[p] = "syncing"
  <2>1. PICK s \in 1 .. q :
            /\ queue[p][s] = <<"sync", 0>>
            /\ \A i \in 1 .. s - 1 : queue[p][i] = log[p][d + i]
            /\ \A i \in s + 1 .. q : queue[p][i] = log[p][d + i - 1]
            /\ \A i \in 1 .. l : log[p][i] = <<"started", 0>> => i < d + s
    BY <1>10, <1>13
  <2>2. s # 1
    BY <1>1, <1>6, <2>1
  <2>3. d + 1 \in 1 .. l /\ 1 \in 1 .. s - 1 /\ d + 1 \in 0 .. l /\ s - 1 \in 1 .. q - 1
    BY <1>7, <1>8, <2>2, <1>13
  <2>4. x = log[p][d + 1]
    BY <1>6, <2>1, <2>3
  <2>5. queue'[p][s - 1] = <<"sync", 0>>
    <3>1. (s - 1) + 1 = s
      BY <1>7
    <3> QED
      BY <1>5, <2>1, <2>3, <3>1
  <2>6. ASSUME NEW i \in 1 .. (s - 1) - 1 PROVE queue'[p][i] = log[p][d + 1 + i]
    <3>1. i + 1 \in 1 .. s - 1 /\ d + (i + 1) = d + 1 + i /\ i \in 1 .. q - 1
      BY <1>7
    <3> QED
      BY <1>5, <2>1, <3>1
  <2>7. ASSUME NEW i \in (s - 1) + 1 .. q - 1 PROVE queue'[p][i] = log[p][d + 1 + i - 1]
    <3>1. i + 1 \in s + 1 .. q /\ d + (i + 1) - 1 = d + 1 + i - 1 /\ i \in 1 .. q - 1
      BY <1>7
    <3> QED
      BY <1>5, <2>1, <3>1
  <2>8. ASSUME NEW i \in 1 .. l, log[p][i] = <<"started", 0>> PROVE i < d + 1 + (s - 1)
    <3>1. i < d + s
      BY <2>1, <2>8
    <3> QED
      BY <1>7, <3>1
  <2>9. \E t \in 1 .. q - 1 :
            /\ queue'[p][t] = <<"sync", 0>>
            /\ \A i \in 1 .. t - 1 : queue'[p][i] = log[p][d + 1 + i]
            /\ \A i \in t + 1 .. q - 1 : queue'[p][i] = log[p][d + 1 + i - 1]
            /\ \A i \in 1 .. l : log[p][i] = <<"started", 0>> => i < d + 1 + t
    BY <2>3, <2>5, <2>6, <2>7, <2>8
  <2>10. Queued(p)'
    BY <1>1, <1>4, <1>11, <1>13, <2>3, <2>9 DEF Queued, l
  <2> QED
    BY <1>1, <1>2, <1>3, <1>6, <1>11, <2>3, <2>4, <2>10 DEF x, d, l
<1> QED
  BY <1>12, <1>13

\* The model folds one more message, and its chips are still in order.
LEMMA FoldsApplies ==
  ASSUME TypeOK, NEW p \in Sends, Flow(p), Folds(p), ModelApplies(p)
  PROVE  Folds(p)'
<1> USE NewSessionAssumption
<1> DEFINE l == Len(log[p])
           d == Done(p)
           x == Head(queue[p])
           c == m[p].chips
<1>1. /\ d + 1 \in 1 .. l /\ x = log[p][d + 1] /\ x \in Msgs /\ m'[p] = ApplyMsg(m[p], x)
      /\ applied'[p].msg = x /\ log'[p] = log[p] /\ pc'[p] = pc[p]
      /\ Done(p)' = d + 1 /\ Queued(p)' /\ applied[p].msg = Nothing
  BY NextMessage
<1>2. l \in Nat /\ d \in Nat /\ d <= l
  <2>1. l \in Nat /\ d \in Nat /\ d \in 0 .. l
    BY DoneNat
  <2> HIDE DEF l, d
  <2> QED
    BY <2>1
<1>3. /\ m[p].seen = {log[p][i] : i \in 1 .. d}
      /\ \A i \in 1 .. Len(c) : c[i] = Word(i)
      /\ \A i \in 1 .. MaxReplies + 1 : Word(i) \in m[p].seen <=> i <= Len(c)
  BY DEF Folds, Applied
<1>4. /\ m[p].turn => \E i \in 1 .. d :
           /\ log[p][i] = <<"running", 0>>
           /\ \A j \in i .. d : log[p][j] # <<"result", 0>>
      /\ m[p].perm => <<"ask", 0>> \in m[p].seen
      /\ <<"ask", 0>> \in m[p].seen =>
           \/ m[p].perm
           \/ \E i, j \in 1 .. d : i < j /\ log[p][i] = <<"ask", 0>> /\ log[p][j] = <<"started", 0>>
  BY DEF Folds, StateFolds
<1>5. pc[p] \in Synced => \A i \in 1 .. l : log[p][i] = <<"started", 0>> => i <= d
  BY DEF Folds, SyncedUp
<1>6. \A i, j \in 1 .. l : log[p][i] = log[p][j] => i = j
  BY DEF Flow, Once
<1>7. c \in Seq(Msgs) /\ Len(c) \in Nat /\ Nothing \notin Msgs
  <2>1. c \in Seq(Msgs) /\ Nothing \notin Msgs
    BY Lengths DEF States
  <2> QED
    BY <2>1, LenProperties
<1>8. /\ m'[p].seen = m[p].seen \cup {x}
      /\ m'[p].chips = c \o Chips(x)
      /\ m'[p].turn <=> x = <<"running", 0>> \/ (m[p].turn /\ x # <<"result", 0>> /\ x # <<"started", 0>>)
      /\ m'[p].perm <=> x = <<"ask", 0>> \/ (m[p].perm /\ x # <<"started", 0>>)
  <2>1. m[p] \in States
    BY Lengths
  <2> HIDE DEF x
  <2>2. /\ ApplyMsg(m[p], x).seen = m[p].seen \cup {x}
        /\ ApplyMsg(m[p], x).chips = m[p].chips \o Chips(x)
        /\ ApplyMsg(m[p], x).turn <=>
             x = <<"running", 0>> \/ (m[p].turn /\ x # <<"result", 0>> /\ x # <<"started", 0>>)
        /\ ApplyMsg(m[p], x).perm <=> x = <<"ask", 0>> \/ (m[p].perm /\ x # <<"started", 0>>)
    BY <1>1, <2>1, ApplyFields
  <2> QED
    BY <1>1, <2>2
<1>9. ASSUME NEW k \in 1 .. MaxReplies + 1, NEW j \in 1 .. MaxReplies + 1, x = Word(k), j < k
      PROVE  \E i \in 1 .. l : i < d + 1 /\ log[p][i] = Word(j)
  BY <1>1, <1>9, WordsInOrder
<1> HIDE DEF l, d, x, c
<1>10. \A i \in 1 .. d : i \in 1 .. l /\ i \in 1 .. d + 1
  BY <1>2
<1>11. \A i \in 1 .. d + 1 : i \in 1 .. d \/ i = d + 1
  BY <1>2
<1>12. m'[p].seen = {log[p][i] : i \in 1 .. d + 1}
  <2>1. ASSUME NEW y \in m'[p].seen PROVE \E i \in 1 .. d + 1 : y = log[p][i]
    <3>1. CASE y = x
      BY <1>1, <1>2, <3>1
    <3>2. CASE y \in m[p].seen
      BY <1>3, <1>10, <3>2
    <3> QED
      BY <1>8, <3>1, <3>2
  <2>2. ASSUME NEW i \in 1 .. d + 1 PROVE log[p][i] \in m'[p].seen
    BY <1>1, <1>3, <1>8, <1>11
  <2> QED
    BY <2>1, <2>2
<1>13. x \notin m[p].seen
  <2> SUFFICES ASSUME NEW i \in 1 .. d, log[p][i] = x PROVE FALSE
    BY <1>3
  <2>1. i \in 1 .. l /\ i # d + 1
    BY <1>2
  <2> QED
    BY <1>1, <1>6, <2>1
<1>14. /\ \A i \in 1 .. Len(m'[p].chips) : m'[p].chips[i] = Word(i)
       /\ \A i \in 1 .. MaxReplies + 1 : Word(i) \in m'[p].seen <=> i <= Len(m'[p].chips)
  <2>1. CASE Chips(x) = <<>> /\ \A k \in 1 .. MaxReplies + 1 : x # Word(k)
    <3>1. m'[p].chips = c
      BY <1>7, <1>8, <2>1, ConcatEmptySeq
    <3> QED
      BY <1>3, <1>8, <2>1, <3>1
  <2>2. ASSUME NEW k \in 1 .. MaxReplies + 1, x = Word(k)
        PROVE  /\ \A i \in 1 .. Len(m'[p].chips) : m'[p].chips[i] = Word(i)
               /\ \A i \in 1 .. MaxReplies + 1 : Word(i) \in m'[p].seen <=> i <= Len(m'[p].chips)
    <3>1. ~ (k <= Len(c))
      BY <1>3, <1>13, <2>2
    <3>2. \A j \in 1 .. MaxReplies + 1 : j < k => j <= Len(c)
      <4> SUFFICES ASSUME NEW j \in 1 .. MaxReplies + 1, j < k PROVE j <= Len(c)
        OBVIOUS
      <4>1. PICK i \in 1 .. l : i < d + 1 /\ log[p][i] = Word(j)
        BY <1>9, <2>2
      <4>2. i \in 1 .. d
        BY <1>2, <4>1
      <4> QED
        BY <1>3, <4>1, <4>2
    <3>3. k = Len(c) + 1
      <4>1. CASE k = 1
        BY <1>7, <3>1, <4>1
      <4>2. CASE k # 1
        <5>1. k - 1 \in 1 .. MaxReplies + 1 /\ k - 1 < k
          BY <4>2
        <5>2. k - 1 <= Len(c)
          BY <3>2, <5>1
        <5> QED
          BY <1>7, <3>1, <5>2
      <4> QED
        BY <4>1, <4>2
    <3>4. m'[p].chips = Append(c, x)
      <4>1. Chips(x) = <<x>>
        BY <2>2, ChipWords
      <4> QED
        BY <1>1, <1>7, <1>8, <4>1, AppendIsConcat
    <3>5. /\ Len(m'[p].chips) = Len(c) + 1 /\ m'[p].chips[Len(c) + 1] = x
          /\ \A i \in 1 .. Len(c) : m'[p].chips[i] = c[i]
      BY <1>1, <1>7, <3>4, AppendHolds
    <3>6. ASSUME NEW i \in 1 .. Len(m'[p].chips) PROVE m'[p].chips[i] = Word(i)
      <4>1. i \in 1 .. Len(c) \/ i = Len(c) + 1
        BY <1>7, <3>5
      <4> QED
        BY <1>3, <2>2, <3>3, <3>5, <4>1
    <3>7. ASSUME NEW i \in 1 .. MaxReplies + 1 PROVE Word(i) \in m'[p].seen <=> i <= Len(m'[p].chips)
      <4>1. Word(i) \in m'[p].seen <=> Word(i) \in m[p].seen \/ i = k
        BY <1>8, <2>2, ChipWords
      <4>2. i <= Len(c) + 1 <=> i <= Len(c) \/ i = k
        BY <1>7, <3>3
      <4> QED
        BY <1>3, <3>5, <4>1, <4>2
    <3> QED
      BY <3>6, <3>7
  <2> QED
    BY <1>1, <2>1, <2>2, ChipWords
<1>15. Applied(p)'
  <2>1. d + 1 # 0 /\ x # Nothing
    BY <1>1, <1>2, <1>7
  <2> QED
    BY <1>1, <1>12, <1>14, <2>1 DEF Applied
<1>16. StateFolds(p)'
  <2>1. m'[p].turn => \E i \in 1 .. d + 1 :
          /\ log[p][i] = <<"running", 0>>
          /\ \A j \in i .. d + 1 : log[p][j] # <<"result", 0>>
    <3> SUFFICES ASSUME m'[p].turn
                 PROVE  \E i \in 1 .. d + 1 :
                          /\ log[p][i] = <<"running", 0>>
                          /\ \A j \in i .. d + 1 : log[p][j] # <<"result", 0>>
      OBVIOUS
    <3>1. CASE x = <<"running", 0>>
      <4>1. d + 1 \in 1 .. d + 1 /\ \A j \in d + 1 .. d + 1 : j = d + 1
        BY <1>2
      <4>2. log[p][d + 1] = <<"running", 0>>
        BY <1>1, <3>1
      <4>3. \A j \in d + 1 .. d + 1 : log[p][j] # <<"result", 0>>
        BY <4>1, <4>2
      <4> QED
        BY <4>1, <4>2, <4>3
    <3>2. CASE m[p].turn /\ x # <<"result", 0>>
      <4>1. PICK i \in 1 .. d : log[p][i] = <<"running", 0>> /\ \A j \in i .. d : log[p][j] # <<"result", 0>>
        BY <1>4, <3>2
      <4>2. i \in 1 .. d + 1 /\ \A j \in i .. d + 1 : j \in i .. d \/ j = d + 1
        BY <1>2
      <4> QED
        BY <1>1, <3>2, <4>1, <4>2
    <3> QED
      BY <1>8, <3>1, <3>2
  <2>2. m'[p].perm => <<"ask", 0>> \in m'[p].seen
    BY <1>4, <1>8
  <2>3. <<"ask", 0>> \in m'[p].seen =>
          \/ m'[p].perm
          \/ \E i, j \in 1 .. d + 1 : i < j /\ log[p][i] = <<"ask", 0>> /\ log[p][j] = <<"started", 0>>
    <3> SUFFICES ASSUME <<"ask", 0>> \in m[p].seen, ~ m'[p].perm
                 PROVE  \E i, j \in 1 .. d + 1 : i < j /\ log[p][i] = <<"ask", 0>> /\ log[p][j] = <<"started", 0>>
      BY <1>8
    <3>1. CASE m[p].perm
      <4>1. x = <<"started", 0>>
        BY <1>8, <3>1
      <4>2. PICK i \in 1 .. d : log[p][i] = <<"ask", 0>>
        BY <1>3
      <4>3. i \in 1 .. d + 1 /\ d + 1 \in 1 .. d + 1 /\ i < d + 1
        BY <1>2
      <4> QED
        BY <1>1, <4>1, <4>2, <4>3
    <3>2. CASE ~ m[p].perm
      BY <1>4, <1>10, <3>2
    <3> QED
      BY <3>1, <3>2
  <2> QED
    BY <1>1, <2>1, <2>2, <2>3, Zenon DEF StateFolds
<1>17. SyncedUp(p)'
  <2>1. \A i \in 1 .. l : i <= d => i <= d + 1 /\ i < d + 1
    BY <1>2
  <2> QED
    BY <1>1, <1>5, <2>1 DEF SyncedUp, l
<1> QED
  BY <1>1, <1>15, <1>16, <1>17 DEF Folds

\* The model has folded the empty log at first.
LEMMA FoldsStarts ==
  ASSUME Init, NEW p \in Sends
  PROVE  Folds(p)
<1> USE NewSessionAssumption
<1>1. /\ log[p] = <<>> /\ queue[p] = <<>> /\ pc[p] = "start" /\ applied[p] = [msg |-> Nothing, changed |-> FALSE]
      /\ m[p].seen = {} /\ m[p].chips = <<>> /\ m[p].turn = FALSE /\ m[p].perm = FALSE
  BY DEF Init, NewModel
<1>2. Done(p) = 0
  BY <1>1 DEF Done
<1>3. \A i \in 1 .. 0 : FALSE
  OBVIOUS
<1>4. Queued(p)
  BY <1>1, <1>2 DEF Queued
<1>5. Applied(p)
  <2>1. m[p].seen = {log[p][i] : i \in 1 .. Done(p)}
    BY <1>1, <1>2, <1>3
  <2> QED
    BY <1>1, <1>2, <2>1 DEF Applied
<1>6. StateFolds(p) /\ SyncedUp(p)
  BY <1>1 DEF StateFolds, SyncedUp, Synced, Handing, BoundPcs, Announced, Created
<1> QED
  BY <1>4, <1>5, <1>6 DEF Folds

\* The model folds the log, in every step.
LEMMA FoldsStays ==
  ASSUME TypeOK, NEW p \in Sends, Flow(p), Folds(p), Step(p)
  PROVE  Folds(p)'
<1> USE DEF Synced, Handing, BoundPcs, Announced, Created
<1>1. CASE Start(p) \/ Send(p) \/ Fails(p)
  <2>1. /\ UNCHANGED <<log, queue, m, applied>>
        /\ pc[p] \in {"start", "send", "wait"} /\ pc'[p] \in {"send", "wait", "failed"}
    BY <1>1 DEF Start, Send, Fails, FailsIf, Goto, TypeOK, model
  <2> QED
    BY <2>1, FoldsStill
<1>2. CASE Create(p) \/ Bind(p) \/ Replayed(p)
  <2>1. /\ UNCHANGED <<log, queue, m, applied>>
        /\ pc[p] \in {"wait", "replay", "replaying"} /\ pc'[p] \in {"announce", "replaying", "started"}
    BY <1>2 DEF Create, Bind, BindAs, Replayed, Goto, TypeOK, model
  <2> QED
    BY <2>1, FoldsStill
<1>3. CASE BindClients(p) \/ Render(p) \/ Show(p)
  <2>1. /\ UNCHANGED <<log, queue, m, applied>>
        /\ pc[p] \in {"bind", "render", "show"} /\ pc'[p] \in {"render", "show", "running"}
    BY <1>3 DEF BindClients, Render, Show, Goto, TypeOK, model
  <2> QED
    BY <2>1, FoldsStill
<1>4. CASE OnEvent(p) \/ PermHandler(p) \/ CliSays(p) \/ CliAsks(p) \/ CliExits(p)
  <2>1. UNCHANGED <<log, queue, m, applied, pc>>
    BY <1>4 DEF OnEvent, PermHandler, CliSays, CliAsks, CliExits, model
  <2> QED
    BY <2>1, FoldsStill
<1>5. CASE ModelPushes(p)
  <2>1. /\ UNCHANGED <<log, queue, m, pc>>
        /\ applied'[p].msg = Nothing /\ applied'[p].changed = FALSE
    BY <1>5 DEF ModelPushes, TypeOK
  <2> QED
    BY <2>1, FoldsStill
<1>6. CASE Sync(p) \/ ModelSyncs(p) \/ ModelApplies(p)
  BY <1>6, FoldsSync, FoldsSyncs, FoldsApplies
<1>7. ASSUME NEW x \in Msgs, Broadcast(p, x), UNCHANGED <<m, applied>>,
             \/ pc' = pc /\ x # <<"started", 0>>
             \/ pc[p] = "announce" /\ pc'[p] = "replay" /\ x # <<"started", 0>>
             \/ pc[p] = "started" /\ pc'[p] = "sync"
             \/ pc[p] \in {"running", "done"} /\ pc'[p] \in {"done", "ended"} /\ x # <<"started", 0>>
      PROVE  Folds(p)'
  <2>1. log'[p] = Append(log[p], x) /\ queue'[p] = Append(queue[p], x)
    BY <1>7 DEF Broadcast, TypeOK
  <2>2. Adds(p, x)
    BY <1>7, <2>1 DEF Adds
  <2> QED
    BY <2>2, FoldsBroadcast
<1>8. CASE Announces(p)
  <2>1. CASE BroadcastUserMessage(p)
    <3>1. <<"user", 0>> \in Msgs
      BY DEF Msgs
    <3> QED
      BY <1>7, <2>1, <3>1 DEF BroadcastUserMessage, Goto, TypeOK, model
  <2>2. CASE BroadcastStarted(p)
    <3>1. <<"started", 0>> \in Msgs
      BY DEF Msgs
    <3> QED
      BY <1>7, <2>2, <3>1 DEF BroadcastStarted, Goto, TypeOK, model
  <2>3. CASE BroadcastRunning(p)
    <3>1. <<"running", 0>> \in Msgs
      BY DEF Msgs
    <3> QED
      BY <1>7, <2>3, <3>1 DEF BroadcastRunning, Goto, TypeOK, model
  <2>4. CASE Watch(p)
    <3>1. <<"ended", 0>> \in Msgs
      BY DEF Msgs
    <3> QED
      BY <1>7, <2>4, <3>1 DEF Watch, Goto, TypeOK, model
  <2> QED
    BY <1>8, <2>1, <2>2, <2>3, <2>4 DEF Announces
<1>9. CASE Replay(p)
  <2> DEFINE x == Head(binding[p].buffered)
  <2>1. x \in Spoken
    BY <1>9, TailHolds DEF Replay, TypeOK
  <2>2. x \in Msgs /\ x # <<"started", 0>>
    BY <2>1 DEF Msgs, Spoken
  <2>3. Broadcast(p, x) /\ UNCHANGED <<m, applied, pc>>
    BY <1>9 DEF Replay, model
  <2> HIDE DEF x
  <2> QED
    BY <1>7, <2>2, <2>3
<1>10. CASE HandleStreamEvent(p)
  <2>1. inHand[p] \in Spoken
    BY <1>10 DEF HandleStreamEvent, TypeOK
  <2>2. inHand[p] \in Msgs /\ inHand[p] # <<"started", 0>>
    BY <2>1 DEF Msgs, Spoken
  <2>3. Broadcast(p, inHand[p]) /\ UNCHANGED <<m, applied, pc>>
    BY <1>10 DEF HandleStreamEvent, model
  <2> QED
    BY <1>7, <2>2, <2>3
<1>11. CASE HandlePermission(p)
  <2>1. <<"ask", 0>> \in Msgs
    BY DEF Msgs
  <2> QED
    BY <1>7, <1>11, <2>1 DEF HandlePermission, model
<1> QED
  BY <1>1, <1>2, <1>3, <1>4, <1>5, <1>6, <1>8, <1>9, <1>10, <1>11
     DEF Step, Goes, Announces, Scan, Permission, Model

-----------------------------------------------------------------------------
(* From the model to the page.                                             *)

Shown == {"running", "done", "ended"}

\* Sync has waited for session_started, so that what comes now is late.
LEMMA AllLate ==
  ASSUME TypeOK, NEW p \in Sends, Flow(p), Folds(p), pc[p] \in Synced, applied[p].msg # Nothing
  PROVE  Late(p, applied[p].msg)
<1> DEFINE d == Done(p)
           l == Len(log[p])
<1>1. /\ d # 0 /\ applied[p].msg = log[p][d]
      /\ \A i \in 1 .. l : log[p][i] = <<"started", 0>> => i < d
  BY DEF Folds, Applied, SyncedUp
<1>2. \A i, j \in 1 .. l : log[p][i] = log[p][j] => i = j
  BY DEF Flow, Once
<1>3. l \in Nat /\ d \in Nat /\ d <= l
  <2>1. l \in Nat /\ d \in Nat /\ d \in 0 .. l
    BY DoneNat
  <2> HIDE DEF l, d
  <2> QED
    BY <2>1
<1>4. DOMAIN log[p] = 1 .. l /\ \A i \in 1 .. l : log[p][i] \in Msgs
  BY Lengths, LenProperties
<1> HIDE DEF d, l
<1>5. \A i, j \in 1 .. l : log[p][i] = log[p][d] /\ i <= j => log[p][j][1] # "started"
  <2> SUFFICES ASSUME NEW i \in 1 .. l, NEW j \in 1 .. l, log[p][i] = log[p][d], i <= j,
                      log[p][j][1] = "started"
               PROVE  FALSE
    OBVIOUS
  <2>1. d \in 1 .. l
    BY <1>1, <1>3
  <2>2. i = d
    BY <1>2, <2>1
  <2>3. log[p][j] = <<"started", 0>>
    BY <1>4 DEF Msgs, Spoken
  <2>4. j < d
    BY <1>1, <2>3
  <2> QED
    BY <1>3, <2>2, <2>4
<1> QED
  BY <1>1, <1>4, <1>5 DEF Late

\* The types of the model, the snapshot and the pages.
LEMMA PageTypes ==
  ASSUME TypeOK, NEW p \in Sends
  PROVE  /\ m[p] \in States /\ snapshot[p] \in States /\ Nothing \notin Msgs /\ Nothing \notin snapshot[p].seen
         /\ applied[p].msg \in Msgs \cup {Nothing} /\ applied[p].changed \in BOOLEAN
         /\ m[p].chips \in Seq(Msgs) /\ snapshot[p].chips \in Seq(Msgs)
         /\ m[p].perm \in BOOLEAN /\ snapshot[p].perm \in BOOLEAN
         /\ Active(m[p]) \in BOOLEAN /\ Active(snapshot[p]) \in BOOLEAN
         /\ \A c \in Clients : page[c].running \in BOOLEAN /\ page[c].prompt \in BOOLEAN /\ page[c].chips \in Seq(Msgs)
<1>1. /\ m[p] \in States /\ snapshot[p] \in States
      /\ applied[p].msg \in Msgs \cup {Nothing} /\ applied[p].changed \in BOOLEAN
      /\ \A c \in Clients : page[c].running \in BOOLEAN /\ page[c].prompt \in BOOLEAN /\ page[c].chips \in Seq(Msgs)
  BY DEF TypeOK
<1>2. Nothing \notin Msgs
  BY DEF Nothing, Msgs, Spoken
<1> QED
  BY <1>1, <1>2 DEF States, Active

\* A step that concerns neither the model nor the pages of the session.
LEMMA PageStill ==
  ASSUME NEW p \in Sends, SnapshotRight(p), PageRight(p),
         UNCHANGED <<m, applied, snapshot, client, page, crossed>>,
         \/ pc'[p] = pc[p]
         \/ pc[p] \in {"running", "done"} /\ pc'[p] \in Shown
         \/ pc[p] \notin {"render", "show", "running", "done", "ended"} /\ pc'[p] # "show"
  PROVE  SnapshotRight(p)' /\ PageRight(p)'
<1>1. SnapshotRight(p)'
  BY DEF SnapshotRight, Shown
<1>2. PageRight(p)'
  <2> SUFFICES ASSUME NEW c \in Clients, client[c] = p
               PROVE  /\ pc'[p] \in {"render", "show", "running", "done", "ended"}
                      /\ pc'[p] \in {"running", "done", "ended"} /\ ~ crossed[p] =>
                           /\ m[p].chips = page[c].chips \o (IF applied[p].msg = Nothing THEN <<>> ELSE Chips(applied[p].msg))
                           /\ page[c].running <=> (Active(m[p]) # applied[p].changed)
                           /\ m[p].perm => page[c].prompt \/ applied[p].msg = <<"ask", 0>>
    BY DEF PageRight
  <2>1. /\ pc[p] \in {"render", "show", "running", "done", "ended"}
        /\ pc[p] \in {"running", "done", "ended"} /\ ~ crossed[p] =>
             /\ m[p].chips = page[c].chips \o (IF applied[p].msg = Nothing THEN <<>> ELSE Chips(applied[p].msg))
             /\ page[c].running <=> (Active(m[p]) # applied[p].changed)
             /\ m[p].perm => page[c].prompt \/ applied[p].msg = <<"ask", 0>>
    BY DEF PageRight
  <2> QED
    BY <2>1 DEF Shown
<1> QED
  BY <1>1, <1>2

\* The full render reads the model, with the message that is to be pushed.
LEMMA RenderReads ==
  ASSUME TypeOK, NEW p \in Sends, Folds(p), PageRight(p), Render(p)
  PROVE  SnapshotRight(p)' /\ PageRight(p)'
<1>1. /\ pc[p] = "render" /\ pc'[p] = "show" /\ snapshot'[p] = m[p]
      /\ UNCHANGED <<m, applied, client, page, crossed>>
  BY DEF Render, Goto, TypeOK, model
<1>2. applied[p].msg = Nothing \/ applied[p].msg \in m[p].seen
  <2> DEFINE d == Done(p)
  <2>1. d \in Nat
    BY DoneNat
  <2>2. m[p].seen = {log[p][i] : i \in 1 .. d} /\ (applied[p].msg # Nothing => d # 0 /\ applied[p].msg = log[p][d])
    BY DEF Folds, Applied
  <2> HIDE DEF d
  <2>3. d # 0 => d \in 1 .. d
    BY <2>1
  <2> QED
    BY <2>2, <2>3
<1>3. SnapshotRight(p)'
  BY <1>1, <1>2 DEF SnapshotRight
<1>4. PageRight(p)'
  BY <1>1 DEF PageRight
<1> QED
  BY <1>3, <1>4

\* A page that has just been bound need not show anything yet.
LEMMA BindShows ==
  ASSUME TypeOK, NEW p \in Sends, PageRight(p), BindClients(p)
  PROVE  SnapshotRight(p)' /\ PageRight(p)'
<1>1. pc'[p] = "render"
  BY DEF BindClients, Goto, TypeOK
<1> QED
  BY <1>1 DEF SnapshotRight, PageRight

\* The pages show the snapshot: the model, but for a message to be pushed.
LEMMA ShowShows ==
  ASSUME TypeOK, NEW p \in Sends, Flow(p), Folds(p), SnapshotRight(p), PageRight(p), Show(p)
  PROVE  SnapshotRight(p)' /\ PageRight(p)'
<1>1. /\ pc[p] = "show" /\ pc'[p] = "running"
      /\ UNCHANGED <<m, applied, snapshot, client>>
      /\ \A c \in Clients : client[c] = p =>
           page'[c] = [chips |-> snapshot[p].chips, running |-> Active(snapshot[p]), prompt |-> snapshot[p].perm]
  BY DEF Show, Goto, TypeOK, model
<1>2. crossed'[p] = (crossed[p] \/ (applied[p].msg \in snapshot[p].seen /\ Late(p, applied[p].msg)))
  BY DEF Show, TypeOK
<1>3. SnapshotRight(p)'
  BY <1>1 DEF SnapshotRight
<1>4. applied[p].msg # Nothing => Late(p, applied[p].msg)
  BY <1>1, AllLate DEF Synced, Handing, BoundPcs, Announced, Created
<1>5. ~ crossed'[p] => ~ crossed[p] /\ applied[p].msg \notin snapshot[p].seen
  BY <1>2, <1>4, PageTypes
<1>6. /\ applied[p].msg = Nothing => ~ applied[p].changed
      /\ applied[p].changed \in BOOLEAN
  BY PageTypes DEF Folds, Applied
<1>7. ~ crossed'[p] =>
        /\ m[p].chips = snapshot[p].chips \o (IF applied[p].msg = Nothing THEN <<>> ELSE Chips(applied[p].msg))
        /\ Active(snapshot[p]) <=> (Active(m[p]) # applied[p].changed)
        /\ m[p].perm => snapshot[p].perm \/ applied[p].msg = <<"ask", 0>>
  <2> SUFFICES ASSUME ~ crossed'[p]
               PROVE  /\ m[p].chips = snapshot[p].chips \o (IF applied[p].msg = Nothing THEN <<>> ELSE Chips(applied[p].msg))
                      /\ Active(snapshot[p]) <=> (Active(m[p]) # applied[p].changed)
                      /\ m[p].perm => snapshot[p].perm \/ applied[p].msg = <<"ask", 0>>
    OBVIOUS
  <2>1. CASE applied[p].msg = Nothing
    <3>1. m[p] = snapshot[p]
      BY <1>1, <1>5, <2>1 DEF SnapshotRight
    <3>2. snapshot[p].chips = snapshot[p].chips \o <<>>
      BY PageTypes, ConcatEmptySeq
    <3> QED
      BY <1>6, <2>1, <3>1, <3>2, PageTypes
  <2>2. CASE applied[p].msg # Nothing
    <3>1. m[p] = ApplyMsg(snapshot[p], applied[p].msg) /\ (applied[p].changed <=> Active(m[p]) # Active(snapshot[p]))
      BY <1>1, <1>5, <2>2 DEF SnapshotRight
    <3>2. snapshot[p] \in States /\ applied[p].msg \in Msgs
      BY <2>2, PageTypes
    <3>3. m[p].chips = snapshot[p].chips \o Chips(applied[p].msg)
      <4>1. ApplyMsg(snapshot[p], applied[p].msg).chips = snapshot[p].chips \o Chips(applied[p].msg)
        BY <3>2, ApplyFields
      <4> QED
        BY <3>1, <4>1
    <3>4. m[p].perm => snapshot[p].perm \/ applied[p].msg = <<"ask", 0>>
      <4>1. ApplyMsg(snapshot[p], applied[p].msg).perm <=>
              applied[p].msg = <<"ask", 0>> \/ (snapshot[p].perm /\ applied[p].msg # <<"started", 0>>)
        BY <3>2, ApplyFields
      <4> QED
        BY <3>1, <4>1
    <3>5. Active(snapshot[p]) <=> (Active(m[p]) # applied[p].changed)
      BY <1>6, <3>1, PageTypes
    <3> QED
      BY <2>2, <3>3, <3>4, <3>5
  <2> QED
    BY <2>1, <2>2
<1>8. PageRight(p)'
  <2> SUFFICES ASSUME NEW c \in Clients, client[c] = p, ~ crossed'[p]
               PROVE  /\ m[p].chips = page'[c].chips \o (IF applied[p].msg = Nothing THEN <<>> ELSE Chips(applied[p].msg))
                      /\ page'[c].running <=> (Active(m[p]) # applied[p].changed)
                      /\ m[p].perm => page'[c].prompt \/ applied[p].msg = <<"ask", 0>>
    BY <1>1 DEF PageRight
  <2>1. page'[c].chips = snapshot[p].chips /\ page'[c].running = Active(snapshot[p]) /\ page'[c].prompt = snapshot[p].perm
    BY <1>1
  <2> QED
    BY <1>7, <2>1
<1> QED
  BY <1>3, <1>8

\* A message that is applied is not on the page before it is pushed.
LEMMA ApplyShows ==
  ASSUME TypeOK, NEW p \in Sends, Flow(p), Folds(p), SnapshotRight(p), PageRight(p), ModelApplies(p)
  PROVE  SnapshotRight(p)' /\ PageRight(p)'
<1> DEFINE x == Head(queue[p])
<1>1. /\ x \in Msgs /\ m'[p] = ApplyMsg(m[p], x) /\ applied'[p].msg = x /\ x # Nothing
      /\ applied'[p].changed = (Active(m'[p]) # Active(m[p]))
      /\ applied[p].msg = Nothing /\ ~ applied[p].changed /\ pc'[p] = pc[p]
      /\ UNCHANGED <<snapshot, client, page, crossed>>
  BY NextMessage, PageTypes DEF Folds, Applied
<1>2. x \notin m[p].seen
  <2> DEFINE d == Done(p)
             l == Len(log[p])
  <2>1. /\ d + 1 \in 1 .. l /\ x = log[p][d + 1] /\ m[p].seen = {log[p][i] : i \in 1 .. d}
        /\ \A i, j \in 1 .. l : log[p][i] = log[p][j] => i = j
    BY NextMessage DEF Folds, Applied, Flow, Once
  <2>2. d \in Nat /\ l \in Nat
    BY DoneNat
  <2> HIDE DEF d, l, x
  <2> SUFFICES ASSUME NEW i \in 1 .. d, log[p][i] = x PROVE FALSE
    BY <2>1
  <2>3. i \in 1 .. l /\ i # d + 1
    BY <2>1, <2>2
  <2> QED
    BY <2>1, <2>3
<1>3. m[p] \in States /\ Active(m[p]) \in BOOLEAN /\ m[p].chips \in Seq(Msgs) /\ m[p].perm \in BOOLEAN
  BY PageTypes
<1> HIDE DEF x
<1>4. m'[p].chips = m[p].chips \o Chips(x)
  <2>1. ApplyMsg(m[p], x).chips = m[p].chips \o Chips(x)
    BY <1>1, <1>3, ApplyFields
  <2> QED
    BY <1>1, <2>1
<1>5. m'[p].perm => x = <<"ask", 0>> \/ m[p].perm
  <2>1. ApplyMsg(m[p], x).perm <=> x = <<"ask", 0>> \/ (m[p].perm /\ x # <<"started", 0>>)
    BY <1>1, <1>3, ApplyFields
  <2> QED
    BY <1>1, <2>1
<1>6. SnapshotRight(p)'
  BY <1>1, <1>2 DEF SnapshotRight
<1>7. PageRight(p)'
  <2>1. ASSUME NEW c \in Clients, client[c] = p
        PROVE  pc[p] \in {"render", "show", "running", "done", "ended"}
    BY <2>1 DEF PageRight
  <2>2. ASSUME NEW c \in Clients, client[c] = p, pc[p] \in {"running", "done", "ended"}, ~ crossed[p]
        PROVE  /\ m'[p].chips = page[c].chips \o Chips(x)
               /\ page[c].running <=> (Active(m'[p]) # applied'[p].changed)
               /\ m'[p].perm => page[c].prompt \/ x = <<"ask", 0>>
    <3>1. /\ m[p].chips = page[c].chips \o <<>>
          /\ page[c].running <=> (Active(m[p]) # applied[p].changed)
          /\ m[p].perm => page[c].prompt \/ Nothing = <<"ask", 0>>
      BY <1>1, <2>2 DEF PageRight
    <3>2. m'[p].chips = page[c].chips \o Chips(x)
      BY <1>4, <3>1, PageTypes, ConcatEmptySeq
    <3>3. page[c].running <=> (Active(m'[p]) # applied'[p].changed)
      <4>1. Active(m'[p]) \in BOOLEAN
        BY <1>1, <1>3, ApplyTypes DEF Active, States
      <4>2. page[c].running <=> Active(m[p])
        <5>1. page[c].running \in BOOLEAN /\ applied[p].changed = FALSE
          BY <1>1, PageTypes
        <5> QED
          BY <1>3, <3>1, <5>1
      <4> QED
        BY <1>1, <1>3, <4>1, <4>2
    <3>4. m'[p].perm => page[c].prompt \/ x = <<"ask", 0>>
      BY <1>5, <3>1 DEF Nothing
    <3> QED
      BY <3>2, <3>3, <3>4
  <2> QED
    BY <1>1, <2>1, <2>2 DEF PageRight
<1> QED
  BY <1>6, <1>7

\* A page that gets the message shows the model.
LEMMA PushShows ==
  ASSUME TypeOK, NEW p \in Sends, Flow(p), Folds(p), SnapshotRight(p), PageRight(p), ModelPushes(p)
  PROVE  SnapshotRight(p)' /\ PageRight(p)'
<1> DEFINE x == applied[p].msg
<1>1. /\ x # Nothing /\ applied'[p].msg = Nothing /\ applied'[p].changed = FALSE
      /\ UNCHANGED <<m, snapshot, client, pc>>
      /\ \A c \in Clients : client[c] = p =>
           page'[c] = [chips |-> page[c].chips \o Chips(x),
                       running |-> IF applied[p].changed THEN Active(m[p]) ELSE page[c].running,
                       prompt |-> page[c].prompt \/ x[1] = "ask"]
  BY DEF ModelPushes, TypeOK
<1>2. crossed'[p] = (crossed[p] \/ (pc[p] = "show" /\ x \notin snapshot[p].seen /\ Late(p, x)))
  BY DEF ModelPushes, TypeOK
<1>3. pc[p] = "show" => Late(p, x)
  BY <1>1, AllLate DEF Synced, Handing, BoundPcs, Announced, Created
<1>4. x \in Msgs
  BY <1>1, PageTypes
<1> HIDE DEF x
<1>5. SnapshotRight(p)'
  <2> SUFFICES ASSUME pc[p] = "show", ~ crossed'[p] PROVE m[p] = snapshot[p]
    BY <1>1 DEF SnapshotRight
  <2>1. ~ crossed[p] /\ x \in snapshot[p].seen
    BY <1>2, <1>3
  <2> QED
    BY <2>1 DEF SnapshotRight, x
<1>6. PageRight(p)'
  <2>1. ASSUME NEW c \in Clients, client[c] = p
        PROVE  pc[p] \in {"render", "show", "running", "done", "ended"}
    BY <2>1 DEF PageRight
  <2>2. ASSUME NEW c \in Clients, client[c] = p, pc[p] \in {"running", "done", "ended"}, ~ crossed'[p]
        PROVE  /\ m[p].chips = page'[c].chips \o <<>>
               /\ page'[c].running <=> (Active(m[p]) # FALSE)
               /\ m[p].perm => page'[c].prompt \/ Nothing = <<"ask", 0>>
    <3>1. /\ m[p].chips = page[c].chips \o Chips(x)
          /\ page[c].running <=> (Active(m[p]) # applied[p].changed)
          /\ m[p].perm => page[c].prompt \/ x = <<"ask", 0>>
      BY <1>1, <1>2, <2>2 DEF PageRight, x
    <3>2. /\ page'[c].chips = page[c].chips \o Chips(x)
          /\ page'[c].running = IF applied[p].changed THEN Active(m[p]) ELSE page[c].running
          /\ page'[c].prompt = (page[c].prompt \/ x[1] = "ask")
      <4>1. page'[c] = [chips |-> page[c].chips \o Chips(x),
                        running |-> IF applied[p].changed THEN Active(m[p]) ELSE page[c].running,
                        prompt |-> page[c].prompt \/ x[1] = "ask"]
        BY <1>1, <2>2
      <4> DEFINE y == page[c].chips \o Chips(x)
                 z == IF applied[p].changed THEN Active(m[p]) ELSE page[c].running
                 w == page[c].prompt \/ x[1] = "ask"
      <4>2. page'[c] = [chips |-> y, running |-> z, prompt |-> w]
        BY <4>1
      <4> HIDE DEF y, z, w
      <4>3. page'[c].chips = y /\ page'[c].running = z /\ page'[c].prompt = w
        BY <4>2
      <4> QED
        BY <4>3 DEF y, z, w
    <3>3. m[p].chips = page'[c].chips \o <<>>
      BY <3>1, <3>2, PageTypes, ConcatEmptySeq
    <3>4. page'[c].running <=> (Active(m[p]) # FALSE)
      <4>1. Active(m[p]) \in BOOLEAN /\ page[c].running \in BOOLEAN /\ applied[p].changed \in BOOLEAN
        BY PageTypes
      <4>2. CASE applied[p].changed
        BY <3>2, <4>1, <4>2
      <4>3. CASE ~ applied[p].changed
        BY <3>1, <3>2, <4>1, <4>3
      <4> QED
        BY <4>2, <4>3
    <3>5. m[p].perm => page'[c].prompt
      <4>1. m[p].perm => page[c].prompt \/ x[1] = "ask"
        <5>1. x = <<"ask", 0>> => x[1] = "ask"
          OBVIOUS
        <5> QED
          BY <3>1, <5>1
      <4>2. page'[c].prompt = (page[c].prompt \/ x[1] = "ask")
        BY <3>2
      <4> QED
        BY <4>1, <4>2
    <3> QED
      BY <3>3, <3>4, <3>5
  <2> QED
    BY <1>1, <2>1, <2>2 DEF PageRight
<1> QED
  BY <1>5, <1>6

\* The snapshot and the pages stay right, in every step.
LEMMA PageStays ==
  ASSUME TypeOK, NEW p \in Sends, Flow(p), Folds(p), SnapshotRight(p), PageRight(p), Step(p)
  PROVE  SnapshotRight(p)' /\ PageRight(p)'
<1>1. CASE Start(p) \/ Send(p) \/ Fails(p)
  <2>1. /\ UNCHANGED <<m, applied, snapshot, client, page, crossed>>
        /\ pc[p] \in {"start", "send", "wait"} /\ pc'[p] \in {"send", "wait", "failed"}
    BY <1>1 DEF Start, Send, Fails, FailsIf, Goto, TypeOK, model, display
  <2> QED
    BY <2>1, PageStill
<1>2. CASE Create(p) \/ Bind(p) \/ Replayed(p) \/ Sync(p)
  <2>1. /\ UNCHANGED <<m, applied, snapshot, client, page, crossed>>
        /\ pc[p] \in {"wait", "replay", "replaying", "sync"} /\ pc'[p] \in {"announce", "replaying", "started", "syncing"}
    BY <1>2 DEF Create, Bind, BindAs, Replayed, Sync, Goto, TypeOK, model, display
  <2> QED
    BY <2>1, PageStill
<1>3. CASE BindClients(p) \/ Render(p) \/ Show(p)
  BY <1>3, BindShows, RenderReads, ShowShows
<1>4. CASE OnEvent(p) \/ PermHandler(p) \/ CliSays(p) \/ CliAsks(p) \/ CliExits(p)
  <2>1. UNCHANGED <<m, applied, snapshot, client, page, crossed, pc>>
    BY <1>4 DEF OnEvent, PermHandler, CliSays, CliAsks, CliExits, model, display
  <2> QED
    BY <2>1, PageStill
<1>5. CASE HandleStreamEvent(p) \/ HandlePermission(p) \/ Replay(p)
  <2>1. UNCHANGED <<m, applied, snapshot, client, page, crossed, pc>>
    BY <1>5 DEF HandleStreamEvent, HandlePermission, Replay, model, display
  <2> QED
    BY <2>1, PageStill
<1>6. CASE Announces(p)
  <2>1. /\ UNCHANGED <<m, applied, snapshot, client, page, crossed>>
        /\ \/ pc[p] \in {"announce", "started"} /\ pc'[p] \in {"replay", "sync"}
           \/ pc[p] \in {"running", "done"} /\ pc'[p] \in {"done", "ended"}
    BY <1>6 DEF Announces, BroadcastUserMessage, BroadcastStarted, BroadcastRunning, Watch, Goto, TypeOK, model, display
  <2> QED
    BY <2>1, PageStill DEF Shown
<1>7. CASE ModelSyncs(p)
  <2>1. /\ UNCHANGED <<m, applied, snapshot, client, page, crossed>>
        /\ pc[p] = "syncing" /\ pc'[p] = "bind"
    BY <1>7 DEF ModelSyncs, Goto, TypeOK, model, display
  <2> QED
    BY <2>1, PageStill
<1>8. CASE ModelApplies(p) \/ ModelPushes(p)
  BY <1>8, ApplyShows, PushShows
<1> QED
  BY <1>1, <1>2, <1>3, <1>4, <1>5, <1>6, <1>7, <1>8 DEF Step, Goes, Scan, Permission, Model

\* The invariant: from the CLI to the log, to the model and to the pages.
LEMMA SessionInvAlways == Spec => []SessionInv
<1>1. Init => SessionInv
  <2> SUFFICES ASSUME Init, NEW p \in Sends PROVE SnapshotRight(p) /\ PageRight(p)
    BY InitTypes, FlowStarts, FoldsStarts DEF SessionInv
  <2>1. pc[p] = "start" /\ \A c \in Clients : client[c] # p
    BY NewSessionAssumption DEF Init
  <2> QED
    BY <2>1 DEF SnapshotRight, PageRight
<1>2. SessionInv /\ [Next]_vars => SessionInv'
  <2> SUFFICES ASSUME SessionInv, [Next]_vars PROVE SessionInv'
    OBVIOUS
  <2>1. TypeOK /\ TypeOK'
    BY TypesInvariant DEF SessionInv
  <2>2. ASSUME NEW q \in Sends PROVE Flow(q)' /\ Folds(q)' /\ SnapshotRight(q)' /\ PageRight(q)'
    <3>1. Flow(q) /\ Folds(q) /\ SnapshotRight(q) /\ PageRight(q)
      BY DEF SessionInv
    <3>2. CASE UNCHANGED vars
      <4>1. Untouched(q)
        BY <3>2 DEF vars, process, scan, model, display, Untouched
      <4> QED
        BY <3>1, <4>1, OthersKeep
    <3>3. ASSUME NEW p \in Sends, Step(p)
          PROVE  Flow(q)' /\ Folds(q)' /\ SnapshotRight(q)' /\ PageRight(q)'
      <4>1. CASE p = q
        BY <2>1, <3>1, <3>3, <4>1, FlowStays, FoldsStays, PageStays
      <4>2. CASE p # q
        <5>1. Untouched(q)
          BY <2>1, <3>3, <4>2, OthersStay
        <5> QED
          BY <3>1, <5>1, OthersKeep
      <4> QED
        BY <4>1, <4>2
    <3> QED
      BY <3>2, <3>3, NextSteps
  <2> QED
    BY <2>1, <2>2 DEF SessionInv
<1> QED
  BY <1>1, <1>2, PTL DEF Spec

\* When all has settled the model has all of the log, and the page the model.
LEMMA AllShown ==
  ASSUME SessionInv, NEW p \in Sends, NEW c \in Clients, Settled(p), client[c] = p, ~ crossed[p]
  PROVE  /\ TypeOK /\ Flow(p) /\ pc[p] \in {"done", "ended"} /\ Done(p) = Len(log[p]) /\ Len(log[p]) \in Nat
         /\ m[p].seen = {log[p][i] : i \in 1 .. Len(log[p])}
         /\ \A f : f \in m[p].seen <=> In(f, log[p])
         /\ \A i \in 1 .. Len(m[p].chips) : m[p].chips[i] = Word(i)
         /\ \A i \in 1 .. MaxReplies + 1 : Word(i) \in m[p].seen <=> i <= Len(m[p].chips)
         /\ StateFolds(p)
         /\ page[c].chips = m[p].chips /\ page[c].running = Active(m[p]) /\ (m[p].perm => page[c].prompt)
         /\ \A f \in Spoken : f \in SaidBy(p) <=> In(f, log[p])
<1>1. /\ TypeOK /\ Flow(p) /\ Folds(p) /\ PageRight(p)
      /\ pc[p] \in {"done", "ended"} /\ stdout[p] = <<>> /\ inHand[p] = Nothing /\ queue[p] = <<>>
      /\ applied[p].msg = Nothing /\ Applied(p) /\ StateFolds(p)
  BY DEF SessionInv, Settled, Folds
<1>2. Done(p) = Len(log[p]) /\ Len(log[p]) \in Nat
  <2>1. Len(log[p]) \in Nat /\ Done(p) = Len(log[p]) - (0 - 0)
    BY <1>1, Lengths, EmptySeq DEF Done
  <2> DEFINE l == Len(log[p])
  <2> HIDE DEF l
  <2>2. l \in Nat => l - (0 - 0) = l
    OBVIOUS
  <2> QED
    BY <2>1, <2>2 DEF l
<1>3. /\ m[p].seen = {log[p][i] : i \in 1 .. Len(log[p])}
      /\ \A i \in 1 .. Len(m[p].chips) : m[p].chips[i] = Word(i)
      /\ \A i \in 1 .. MaxReplies + 1 : Word(i) \in m[p].seen <=> i <= Len(m[p].chips)
      /\ ~ applied[p].changed
  BY <1>1, <1>2 DEF Applied
<1>4. \A f : f \in m[p].seen <=> In(f, log[p])
  BY <1>3 DEF In
<1>5. /\ m[p].chips = page[c].chips \o <<>>
      /\ page[c].running <=> (Active(m[p]) # applied[p].changed)
      /\ m[p].perm => page[c].prompt \/ Nothing = <<"ask", 0>>
  BY <1>1 DEF PageRight
<1>6. page[c].chips = m[p].chips
  BY <1>1, <1>5, PageTypes, ConcatEmptySeq
<1>7. page[c].running = Active(m[p])
  <2>1. page[c].running \in BOOLEAN /\ applied[p].changed = FALSE /\ Active(m[p]) \in BOOLEAN
    BY <1>1, <1>3, PageTypes
  <2> QED
    BY <1>5, <2>1
<1>8. m[p].perm => page[c].prompt
  BY <1>5 DEF Nothing
<1>9. \A f \in Spoken : f \in SaidBy(p) <=> In(f, log[p])
  <2>1. binding[p].buffered = <<>>
    BY <1>1 DEF Flow, HandsOver, Handing, BoundPcs, Announced, Created
  <2>2. \A f : ~ In(f, <<>>)
    BY DEF In
  <2>3. Nothing \notin Spoken
    BY DEF Nothing, Spoken
  <2> QED
    BY <1>1, <2>1, <2>2, <2>3 DEF Flow, AllSaid, Somewhere
<1> QED
  BY <1>1, <1>2, <1>3, <1>4, <1>6, <1>7, <1>8, <1>9

\* The chips are the user's message and the replies.
LEMMA ChipsOnce ==
  ASSUME SessionInv, NEW p \in Sends, NEW c \in Clients, Settled(p), client[c] = p, ~ crossed[p]
  PROVE  page[c].chips = <<<<"user", 0>>>> \o [n \in 1 .. cli[p].replies |-> Reply(n)]
<1> USE NewSessionAssumption
<1> DEFINE s == m[p].chips
           r == cli[p].replies
           t == [n \in 1 .. r |-> Reply(n)]
           u == <<<<"user", 0>>>>
<1>1. TypeOK /\ Flow(p) /\ page[c].chips = s /\ pc[p] \in {"done", "ended"}
  BY AllShown
<1>2. /\ \A i \in 1 .. Len(s) : s[i] = Word(i)
      /\ \A i \in 1 .. MaxReplies + 1 : In(Word(i), log[p]) <=> i <= Len(s)
      /\ \A f \in Spoken : f \in SaidBy(p) <=> In(f, log[p])
  BY AllShown
<1>3. r \in 0 .. MaxReplies
  BY <1>1, FieldTypes
<1>4. s \in Seq(Msgs)
  BY <1>1, PageTypes
<1>5. Len(s) \in Nat /\ \A i \in 1 .. Len(s) : s[i] \in Msgs
  BY <1>4, LenProperties, ElementOfSeq
<1>6. Len(s) <= MaxReplies + 1
  <2> SUFFICES ASSUME ~ (Len(s) <= MaxReplies + 1) PROVE FALSE
    OBVIOUS
  <2> HIDE DEF s
  <2>1. MaxReplies + 2 \in 1 .. Len(s)
    BY <1>5
  <2>2. Word(MaxReplies + 2) = <<"reply", MaxReplies + 1>>
    BY DEF Word, Reply
  <2>3. <<"reply", MaxReplies + 1>> \in Msgs
    BY <1>2, <1>5, <2>1, <2>2
  <2>4. MaxReplies + 1 \in 1 .. MaxReplies
    BY <2>3 DEF Msgs, Spoken
  <2> QED
    BY <2>4
<1>7. \A i \in 1 .. MaxReplies + 1 : In(Word(i), log[p]) <=> i <= r + 1
  <2> SUFFICES ASSUME NEW i \in 1 .. MaxReplies + 1 PROVE In(Word(i), log[p]) <=> i <= r + 1
    OBVIOUS
  <2>1. CASE i = 1
    <3>1. In(<<"user", 0>>, log[p])
      BY <1>1 DEF Flow, Broadcasts, Announced, Created
    <3> QED
      BY <1>3, <2>1, <3>1 DEF Word
  <2>2. CASE i # 1
    <3>1. i - 1 \in 1 .. MaxReplies /\ Word(i) = Reply(i - 1)
      BY <2>2 DEF Word
    <3>2. Reply(i - 1) \in Spoken
      BY <3>1 DEF Spoken, Reply
    <3>3. Reply(i - 1) \in SaidBy(p) <=> i - 1 <= r
      <4>1. ASSUME i - 1 <= r PROVE Reply(i - 1) \in SaidBy(p)
        <5>1. i - 1 \in 1 .. r
          BY <1>3, <3>1, <4>1
        <5> QED
          BY <5>1 DEF SaidBy
      <4>2. ASSUME Reply(i - 1) \in SaidBy(p) PROVE i - 1 <= r
        BY <1>3, <3>1, <4>2 DEF SaidBy, Reply
      <4> QED
        BY <4>1, <4>2
    <3>4. i - 1 <= r <=> i <= r + 1
      BY <1>3
    <3> QED
      BY <1>2, <3>1, <3>2, <3>3, <3>4
  <2> QED
    BY <2>1, <2>2
<1>8. Len(s) = r + 1
  <2> HIDE DEF s, r
  <2>1. \A i \in 1 .. MaxReplies + 1 : i <= Len(s) <=> i <= r + 1
    BY <1>2, <1>7
  <2>2. r + 1 \in 1 .. MaxReplies + 1
    BY <1>3
  <2>3. r + 1 <= Len(s)
    BY <1>3, <2>1, <2>2
  <2>4. Len(s) \in 1 .. MaxReplies + 1
    BY <1>3, <1>5, <1>6, <2>3
  <2> QED
    BY <1>3, <1>5, <2>1, <2>3, <2>4
<1>9. /\ t \in Seq(Msgs) /\ Len(t) = r /\ u \in Seq(Msgs) /\ Len(u) = 1 /\ u[1] = <<"user", 0>>
      /\ \A i \in 1 .. r : t[i] = Reply(i)
  <2>1. \A i \in 1 .. r : Reply(i) \in Msgs
    BY <1>3 DEF Msgs, Spoken, Reply
  <2>2. t \in [1 .. r -> Msgs] /\ r \in Nat
    BY <1>3, <2>1
  <2>3. <<"user", 0>> \in Msgs
    BY DEF Msgs
  <2> QED
    BY <2>2, <2>3
<1>10. /\ u \o t \in Seq(Msgs) /\ Len(u \o t) = 1 + r
       /\ \A i \in 1 .. 1 + r : (u \o t)[i] = IF i <= 1 THEN u[i] ELSE t[i - 1]
  <2> HIDE DEF u, t, r
  <2>1. /\ u \o t \in Seq(Msgs) /\ Len(u \o t) = Len(u) + Len(t)
        /\ \A i \in 1 .. Len(u) + Len(t) : (u \o t)[i] = IF i <= Len(u) THEN u[i] ELSE t[i - Len(u)]
    <3>1. u \in Seq(Msgs) /\ t \in Seq(Msgs)
      BY <1>9
    <3> QED
      BY <3>1, ConcatProperties
  <2>2. Len(u) = 1 /\ Len(t) = r
    BY <1>9
  <2> QED
    BY <2>1, <2>2
<1> DEFINE v == u \o t
<1>11. \A i \in 1 .. r + 1 : v[i] = Word(i)
  <2> SUFFICES ASSUME NEW i \in 1 .. r + 1 PROVE v[i] = Word(i)
    OBVIOUS
  <2> HIDE DEF u, t, r, v
  <2>1. CASE i = 1
    <3>1. i \in 1 .. 1 + r /\ i <= 1
      BY <1>3, <2>1
    <3> QED
      BY <1>9, <1>10, <2>1, <3>1 DEF Word, v
  <2>2. CASE i # 1
    <3>1. i \in 1 .. 1 + r /\ ~ (i <= 1) /\ i - 1 \in 1 .. r
      BY <1>3, <2>2
    <3> QED
      BY <1>9, <1>10, <2>2, <3>1 DEF Word, v
  <2> QED
    BY <2>1, <2>2
<1>12. Len(v) = r + 1
  <2> HIDE DEF u, t, r
  <2>1. 1 + r = r + 1
    BY <1>3
  <2> QED
    BY <1>10, <2>1
<1> HIDE DEF s, r, v
<1>13. s = v
  <2>1. \A i \in 1 .. Len(s) : s[i] = v[i]
    BY <1>2, <1>8, <1>11
  <2> QED
    BY <1>4, <1>8, <1>10, <1>12, <2>1, SeqEqual DEF v
<1> QED
  BY <1>1, <1>13 DEF s, v, r

\* Why the page says that a turn is going on, and that nothing is asked.
LEMMA TurnAndPrompt ==
  ASSUME SessionInv, NEW p \in Sends, NEW c \in Clients, Settled(p), client[c] = p, ~ crossed[p]
  PROVE  /\ cli[p].ended /\ page[c].running => ask[p] = "waiting" \/ Before(log[p], "result", "running")
         /\ ask[p] = "waiting" => page[c].prompt \/ Before(log[p], "ask", "started")
<1> DEFINE l == Len(log[p])
<1>1. /\ TypeOK /\ Flow(p) /\ Done(p) = l /\ l \in Nat /\ StateFolds(p)
      /\ page[c].running = Active(m[p]) /\ (m[p].perm => page[c].prompt)
      /\ \A f : f \in m[p].seen <=> In(f, log[p])
      /\ \A f \in Spoken : f \in SaidBy(p) <=> In(f, log[p])
  BY AllShown
<1>2. DOMAIN log[p] = 1 .. l
  BY <1>1, Lengths, LenProperties
<1>3. In(<<"ask", 0>>, log[p]) <=> ask[p] = "waiting"
  BY <1>1 DEF Flow, Broadcasts
<1>4. /\ m[p].turn => \E i \in 1 .. l :
           /\ log[p][i] = <<"running", 0>>
           /\ \A j \in i .. l : log[p][j] # <<"result", 0>>
      /\ m[p].perm => <<"ask", 0>> \in m[p].seen
      /\ <<"ask", 0>> \in m[p].seen =>
           \/ m[p].perm
           \/ \E i, j \in 1 .. l : i < j /\ log[p][i] = <<"ask", 0>> /\ log[p][j] = <<"started", 0>>
  BY <1>1 DEF StateFolds
<1>5. ASSUME cli[p].ended, page[c].running
      PROVE  ask[p] = "waiting" \/ Before(log[p], "result", "running")
  <2>1. m[p].turn \/ m[p].perm
    BY <1>1, <1>5 DEF Active
  <2>2. CASE m[p].perm
    BY <1>1, <1>3, <1>4, <2>2
  <2>3. CASE m[p].turn
    <3>1. PICK i \in 1 .. l : log[p][i] = <<"running", 0>> /\ \A j \in i .. l : log[p][j] # <<"result", 0>>
      BY <1>4, <2>3
    <3>2. <<"result", 0>> \in SaidBy(p) /\ <<"result", 0>> \in Spoken
      BY <1>5 DEF SaidBy, Spoken
    <3>3. PICK k \in 1 .. l : log[p][k] = <<"result", 0>>
      BY <1>1, <3>2 DEF In
    <3> HIDE DEF l
    <3>4. k < i
      BY <1>1, <3>1, <3>3
    <3>5. k < i /\ log[p][k][1] = "result" /\ log[p][i][1] = "running"
      BY <3>1, <3>3, <3>4
    <3> QED
      BY <1>2, <3>5 DEF Before
  <2> QED
    BY <2>1, <2>2, <2>3
<1>6. ASSUME ask[p] = "waiting"
      PROVE  page[c].prompt \/ Before(log[p], "ask", "started")
  <2>1. <<"ask", 0>> \in m[p].seen
    BY <1>1, <1>3, <1>6
  <2>2. CASE m[p].perm
    BY <1>1, <2>2
  <2>3. CASE ~ m[p].perm
    <3>1. PICK i \in 1 .. l, j \in 1 .. l : i < j /\ log[p][i] = <<"ask", 0>> /\ log[p][j] = <<"started", 0>>
      BY <1>4, <2>1, <2>3
    <3>2. i < j /\ log[p][i][1] = "ask" /\ log[p][j][1] = "started"
      BY <3>1
    <3> QED
      BY <1>2, <3>2 DEF Before
  <2> QED
    BY <2>2, <2>3
<1> QED
  BY <1>5, <1>6

\* A page that waited for its session shows the user's message and every reply
\* once, a turn that is over as over and a pending permission, unless the model
\* was in the middle of a message when the page was rendered.
THEOREM SessionShown == Spec => []PageShowsSession
<1>1. SessionInv => PageShowsSession
  <2> SUFFICES ASSUME SessionInv PROVE PageShowsSession
    OBVIOUS
  <2>1. PageShowsOnce
    BY ChipsOnce DEF PageShowsOnce
  <2>2. TurnEndShown
    BY TurnAndPrompt DEF TurnEndShown
  <2>3. PromptShown
    BY TurnAndPrompt DEF PromptShown
  <2> QED
    BY <2>1, <2>2, <2>3 DEF PageShowsSession
<1> QED
  BY <1>1, SessionInvAlways, PTL
=============================================================================
