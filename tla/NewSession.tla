----------------------------- MODULE NewSession -----------------------------
(***************************************************************************)
(* The first message of a new session (handleSend without a session).  The *)
(* session's id comes from the CLI's own output, so the CLI is started and *)
(* given the message before the session exists.  Its events are buffered   *)
(* meanwhile, and replayed once the session is bound; the pages that wait  *)
(* on the directory are bound to the session after that.                   *)
(*                                                                         *)
(* Each send has a goroutine that handles it, one that scans the CLI's     *)
(* output, one for a permission request, the model's, and a watcher.  A    *)
(* broadcast is one step here; Timeline and PageLoad take it apart.        *)
(***************************************************************************)
EXTENDS Naturals, Sequences, FiniteSets, SequencesExt

CONSTANTS
  Sends,      \* first messages, each with a CLI of its own
  Clients,    \* pages open on the directory
  None,       \* no session
  MaxReplies  \* bound on the messages of a reply

ASSUME NewSessionAssumption == MaxReplies \in Nat /\ None \notin Sends

VARIABLES
  pc,       \* where handleSend is
  cli,      \* the CLI: up, got the message, named its session, replies, ended
  ask,      \* what became of its permission request
  stdout,   \* its output that is not scanned yet
  idKnown,  \* sessionIDCh holds the id
  binding,  \* sess # nil, the events kept for the replay, mu held by it
  inHand,   \* the frame the scan goroutine handles, after mu
  log,      \* Session.Log
  queue,    \* the model's event channel
  m,        \* the model: what it has seen, chips, turn, permission, liveness
  applied,  \* the message that is applied and not pushed yet
  snapshot, \* the model as the full render read it
  client,   \* the session a page is bound to
  page,     \* what it shows
  crossed   \* a later message was half way while the full render was

process == <<cli, ask>>
scan == <<stdout, idKnown, inHand>>
model == <<m, applied>>
display == <<snapshot, client, page, crossed>>
vars == <<pc, process, scan, binding, log, queue, model, display>>

Nothing == <<"none", 0>>
Reply(n) == <<"reply", n>>
Chips(msg) == IF msg[1] \in {"user", "reply"} THEN <<msg>> ELSE <<>>

EmptyPage == [chips |-> <<>>, running |-> FALSE, prompt |-> FALSE]
\* SessionModel.Messages: all of them, and in order those that make a chip.
NewModel == [seen |-> {}, chips |-> <<>>, turn |-> FALSE, perm |-> FALSE, alive |-> TRUE]
Active(state) == state.alive /\ (state.turn \/ state.perm)

Init ==
  /\ pc = [p \in Sends |-> "start"]
  /\ cli = [p \in Sends |-> [up |-> FALSE, got |-> FALSE, named |-> FALSE,
                             replies |-> 0, ended |-> FALSE]]
  /\ ask = [p \in Sends |-> "none"]
  /\ stdout = [p \in Sends |-> <<>>]
  /\ idKnown = [p \in Sends |-> FALSE]
  /\ binding = [p \in Sends |-> [bound |-> FALSE, buffered |-> <<>>, locked |-> FALSE]]
  /\ inHand = [p \in Sends |-> Nothing]
  /\ log = [p \in Sends |-> <<>>]
  /\ queue = [p \in Sends |-> <<>>]
  /\ m = [p \in Sends |-> NewModel]
  /\ applied = [p \in Sends |-> [msg |-> Nothing, changed |-> FALSE]]
  /\ snapshot = [p \in Sends |-> NewModel]
  /\ client = [c \in Clients |-> None]
  /\ page = [c \in Clients |-> EmptyPage]
  /\ crossed = [p \in Sends |-> FALSE]

\* Broadcast after session_started, so that Sync need not have waited for it.
Late(p, msg) ==
  \A i, j \in DOMAIN log[p] : log[p][i] = msg /\ i <= j => log[p][j][1] # "started"

Goto(p, from, to) == pc[p] = from /\ pc' = [pc EXCEPT ![p] = to]

Broadcast(p, msg) ==
  /\ log' = [log EXCEPT ![p] = Append(@, msg)]
  /\ queue' = [queue EXCEPT ![p] = Append(@, msg)]

-----------------------------------------------------------------------------
(* handleSend.                                                             *)

Start(p) ==
  /\ Goto(p, "start", "send")
  /\ cli' = [cli EXCEPT ![p].up = TRUE]
  /\ UNCHANGED <<ask, scan, binding, log, queue, model, display>>

Send(p) ==
  /\ cli[p].up /\ Goto(p, "send", "wait")
  /\ cli' = [cli EXCEPT ![p].got = TRUE]
  /\ UNCHANGED <<ask, scan, binding, log, queue, model, display>>

\* The CLI does not start, the message cannot be written, or no id is taken
\* before the 30 seconds or the CLI end: the CLI is killed.
FailsIf(p, gaveUp) ==
  /\ pc[p] \in {"start", "send", "wait"} /\ gaveUp
  /\ pc' = [pc EXCEPT ![p] = "failed"]
  /\ cli' = [cli EXCEPT ![p].up = FALSE]
  /\ UNCHANGED <<ask, scan, binding, log, queue, model, display>>
FailsNoTimeout(p) == FailsIf(p, pc[p] = "start" \/ ~ cli[p].up)
Fails(p) == FailsIf(p, pc[p] = "send" => ~ cli[p].up)

\* The session and its model are made.
Create(p) ==
  /\ idKnown[p] /\ Goto(p, "wait", "announce")
  /\ binding' = [binding EXCEPT ![p].bound = FALSE]
  /\ UNCHANGED <<process, scan, log, queue, model, display>>

BroadcastUserMessage(p) ==
  /\ Goto(p, "announce", "replay")
  /\ Broadcast(p, <<"user", 0>>)
  /\ UNCHANGED <<process, scan, binding, model, display>>

\* The replay holds mu from the binding to its last event.
BindAs(p, lock) ==
  /\ Goto(p, "replay", "replaying")
  /\ binding' = [binding EXCEPT ![p].bound = TRUE, ![p].locked = lock]
  /\ UNCHANGED <<process, scan, log, queue, model, display>>
BindUnlocked(p) == BindAs(p, FALSE)
Bind(p) == BindAs(p, TRUE)

Replay(p) ==
  /\ pc[p] = "replaying" /\ binding[p].buffered # <<>>
  /\ Broadcast(p, Head(binding[p].buffered))
  /\ binding' = [binding EXCEPT ![p].buffered = Tail(@)]
  /\ UNCHANGED <<pc, process, scan, model, display>>

Replayed(p) ==
  /\ binding[p].buffered = <<>> /\ Goto(p, "replaying", "started")
  /\ binding' = [binding EXCEPT ![p].locked = FALSE]
  /\ UNCHANGED <<process, scan, log, queue, model, display>>

BroadcastStarted(p) ==
  /\ Goto(p, "started", "sync")
  /\ Broadcast(p, <<"started", 0>>)
  /\ UNCHANGED <<process, scan, binding, model, display>>

\* Model.Sync queues a mark and waits for it.
SyncNot(p) ==
  /\ Goto(p, "sync", "bind")
  /\ UNCHANGED <<process, scan, binding, log, queue, model, display>>
Sync(p) ==
  /\ Goto(p, "sync", "syncing")
  /\ queue' = [queue EXCEPT ![p] = Append(@, <<"sync", 0>>)]
  /\ UNCHANGED <<process, scan, binding, log, model, display>>

\* Every page that waits on the directory joins.
BindClients(p) ==
  /\ Goto(p, "bind", "render")
  /\ client' = [c \in Clients |-> IF client[c] = None THEN p ELSE client[c]]
  /\ UNCHANGED <<process, scan, binding, log, queue, model, snapshot, page, crossed>>

Render(p) ==
  /\ Goto(p, "render", "show")
  /\ snapshot' = [snapshot EXCEPT ![p] = m[p]]
  /\ UNCHANGED <<process, scan, binding, log, queue, model, client, page, crossed>>

\* A message the snapshot has and the model's goroutine is still to push will
\* be shown a second time.
Show(p) ==
  /\ Goto(p, "show", "running")
  /\ page' = [c \in Clients |->
       IF client[c] # p THEN page[c]
       ELSE [chips |-> snapshot[p].chips, running |-> Active(snapshot[p]),
             prompt |-> snapshot[p].perm]]
  /\ crossed' = [crossed EXCEPT ![p] =
       @ \/ (applied[p].msg \in snapshot[p].seen /\ Late(p, applied[p].msg))]
  /\ UNCHANGED <<process, scan, binding, log, queue, model, snapshot, client>>

BroadcastRunning(p) ==
  /\ Goto(p, "running", "done")
  /\ Broadcast(p, <<"running", 0>>)
  /\ UNCHANGED <<process, scan, binding, model, display>>

\* watchProcessDeath, which begins with the end of handleSend.
Watch(p) ==
  /\ ~ cli[p].up /\ stdout[p] = <<>> /\ inHand[p] = Nothing /\ Goto(p, "done", "ended")
  /\ Broadcast(p, <<"ended", 0>>)
  /\ UNCHANGED <<process, scan, binding, model, display>>

-----------------------------------------------------------------------------
(* The CLI: it names its session, replies, may ask once, ends the turn.    *)

CliSays(p) ==
  /\ cli[p].up /\ cli[p].got /\ ~ cli[p].ended
  /\ \/ /\ ~ cli[p].named
        /\ cli' = [cli EXCEPT ![p].named = TRUE]
        /\ stdout' = [stdout EXCEPT ![p] = Append(@, <<"id", 0>>)]
     \/ /\ cli[p].named /\ cli[p].replies < MaxReplies
        /\ cli' = [cli EXCEPT ![p].replies = @ + 1]
        /\ stdout' = [stdout EXCEPT ![p] = Append(@, Reply(cli[p].replies + 1))]
     \/ /\ cli[p].named /\ ask[p] \in {"none", "denied"}
        /\ cli' = [cli EXCEPT ![p].ended = TRUE]
        /\ stdout' = [stdout EXCEPT ![p] = Append(@, <<"result", 0>>)]
  /\ UNCHANGED <<pc, ask, idKnown, binding, inHand, log, queue, model, display>>

CliAsks(p) ==
  /\ cli[p].up /\ cli[p].named /\ ~ cli[p].ended /\ ask[p] = "none"
  /\ ask' = [ask EXCEPT ![p] = "asked"]
  /\ UNCHANGED <<pc, cli, scan, binding, log, queue, model, display>>

CliExits(p) ==
  /\ cli[p].up
  /\ cli' = [cli EXCEPT ![p].up = FALSE]
  /\ UNCHANGED <<pc, ask, scan, binding, log, queue, model, display>>

-----------------------------------------------------------------------------
(* The scan goroutine.  onEvent decides under mu and handles after it.     *)

OnEvent(p) ==
  /\ inHand[p] = Nothing /\ stdout[p] # <<>> /\ ~ binding[p].locked
  /\ LET frame == Head(stdout[p]) IN
     /\ stdout' = [stdout EXCEPT ![p] = Tail(@)]
     /\ idKnown' = [idKnown EXCEPT ![p] = TRUE]
     /\ IF frame[1] = "id" THEN UNCHANGED <<binding, inHand>>
        ELSE IF binding[p].bound
          THEN inHand' = [inHand EXCEPT ![p] = frame] /\ UNCHANGED binding
          ELSE /\ binding' = [binding EXCEPT ![p].buffered = Append(@, frame)]
               /\ UNCHANGED inHand
  /\ UNCHANGED <<pc, process, log, queue, model, display>>

HandleStreamEvent(p) ==
  /\ inHand[p] # Nothing
  /\ Broadcast(p, inHand[p])
  /\ inHand' = [inHand EXCEPT ![p] = Nothing]
  /\ UNCHANGED <<pc, process, stdout, idKnown, binding, model, display>>

\* permHandler: denied before the session is bound.
PermHandler(p) ==
  /\ ask[p] = "asked" /\ ~ binding[p].locked
  /\ ask' = [ask EXCEPT ![p] = IF binding[p].bound THEN "registered" ELSE "denied"]
  /\ UNCHANGED <<pc, cli, scan, binding, log, queue, model, display>>
HandlePermission(p) ==
  /\ ask[p] = "registered"
  /\ ask' = [ask EXCEPT ![p] = "waiting"]
  /\ Broadcast(p, <<"ask", 0>>)
  /\ UNCHANGED <<pc, cli, scan, binding, model, display>>

-----------------------------------------------------------------------------
(* The model's goroutine: apply, then push to the pages bound by then.     *)

ApplyMsg(before, msg) ==
  [seen  |-> before.seen \cup {msg},
   chips |-> before.chips \o Chips(msg),
   turn  |-> msg[1] = "running" \/ (before.turn /\ msg[1] \notin {"result", "started"}),
   perm  |-> msg[1] = "ask" \/ (before.perm /\ msg[1] # "started"),
   alive |-> msg[1] = "started" \/ (before.alive /\ msg[1] # "ended")]

ModelApplies(p) ==
  /\ queue[p] # <<>> /\ applied[p].msg = Nothing /\ Head(queue[p])[1] # "sync"
  /\ m' = [m EXCEPT ![p] = ApplyMsg(@, Head(queue[p]))]
  /\ applied' = [applied EXCEPT ![p] =
       [msg |-> Head(queue[p]), changed |-> Active(m'[p]) # Active(m[p])]]
  /\ queue' = [queue EXCEPT ![p] = Tail(@)]
  /\ UNCHANGED <<pc, process, scan, binding, log, display>>

\* What is pushed between the full render and its way to the pages, and not
\* in it, is overwritten.
ModelPushes(p) ==
  LET msg == applied[p].msg IN
  /\ msg # Nothing
  /\ page' = [c \in Clients |->
       IF client[c] # p THEN page[c]
       ELSE [chips |-> page[c].chips \o Chips(msg),
             running |-> IF applied[p].changed THEN Active(m[p]) ELSE page[c].running,
             prompt |-> page[c].prompt \/ msg[1] = "ask"]]
  /\ applied' = [applied EXCEPT ![p] = [msg |-> Nothing, changed |-> FALSE]]
  /\ crossed' = [crossed EXCEPT ![p] =
       @ \/ (pc[p] = "show" /\ msg \notin snapshot[p].seen /\ Late(p, msg))]
  /\ UNCHANGED <<pc, process, scan, binding, log, queue, m, snapshot, client>>

ModelSyncs(p) ==
  /\ queue[p] # <<>> /\ applied[p].msg = Nothing /\ Head(queue[p])[1] = "sync"
  /\ queue' = [queue EXCEPT ![p] = Tail(@)]
  /\ Goto(p, "syncing", "bind")
  /\ UNCHANGED <<process, scan, binding, log, model, display>>

-----------------------------------------------------------------------------
Handler(p) ==
  \/ Start(p) \/ Send(p) \/ Fails(p) \/ Create(p) \/ BroadcastUserMessage(p)
  \/ Bind(p) \/ Replay(p) \/ Replayed(p) \/ BroadcastStarted(p) \/ Sync(p)
  \/ BindClients(p) \/ Render(p) \/ Show(p) \/ BroadcastRunning(p) \/ Watch(p)
Scan(p) == OnEvent(p) \/ HandleStreamEvent(p)
Permission(p) == PermHandler(p) \/ HandlePermission(p)
Model(p) == ModelApplies(p) \/ ModelPushes(p) \/ ModelSyncs(p)

Next ==
  \E p \in Sends :
    Handler(p) \/ Scan(p) \/ Permission(p) \/ Model(p) \/ CliSays(p) \/ CliAsks(p)
      \/ CliExits(p)

Spec == Init /\ [][Next]_vars

\* Goroutines that can go on do; the CLI promises nothing, its 30 seconds end.
Fairness ==
  \A p \in Sends : /\ WF_vars(Handler(p)) /\ WF_vars(Scan(p))
                   /\ WF_vars(Permission(p)) /\ WF_vars(Model(p))
FairSpec == Spec /\ Fairness

-----------------------------------------------------------------------------
(* Properties.                                                             *)

Before(s, a, b) ==
  \E i, j \in DOMAIN s : i < j /\ s[i][1] = a /\ s[j][1] = b

\* What a send broadcasts, and what a CLI can have said before and after it
\* named its session.
Spoken == ({"reply"} \X (1 .. MaxReplies)) \cup {<<"result", 0>>}
Msgs == Spoken \cup {<<kind, 0>> : kind \in {"user", "started", "running", "ended", "ask"}}
Frames == Spoken \cup {<<"id", 0>>}
States == [seen : SUBSET Msgs, chips : Seq(Msgs), turn : BOOLEAN, perm : BOOLEAN, alive : BOOLEAN]

TypeOK ==
  /\ pc \in [Sends -> {"start", "send", "wait", "failed", "announce", "replay", "replaying", "started",
                       "sync", "syncing", "bind", "render", "show", "running", "done", "ended"}]
  /\ cli \in [Sends -> [up : BOOLEAN, got : BOOLEAN, named : BOOLEAN, replies : 0 .. MaxReplies,
                        ended : BOOLEAN]]
  /\ ask \in [Sends -> {"none", "asked", "denied", "registered", "waiting"}]
  /\ stdout \in [Sends -> Seq(Frames)]
  /\ idKnown \in [Sends -> BOOLEAN]
  /\ binding \in [Sends -> [bound : BOOLEAN, buffered : Seq(Spoken), locked : BOOLEAN]]
  /\ inHand \in [Sends -> Spoken \cup {Nothing}]
  /\ log \in [Sends -> Seq(Msgs)]
  /\ queue \in [Sends -> Seq(Msgs \cup {<<"sync", 0>>})]
  /\ m \in [Sends -> States] /\ snapshot \in [Sends -> States]
  /\ applied \in [Sends -> [msg : Msgs \cup {Nothing}, changed : BOOLEAN]]
  /\ client \in [Clients -> Sends \cup {None}]
  /\ page \in [Clients -> [chips : Seq(Msgs), running : BOOLEAN, prompt : BOOLEAN]]
  /\ crossed \in [Sends -> BOOLEAN]

\* The CLI's replies by number, and the end of its turn after them.
Rank(f) == IF f[1] = "reply" THEN f[2] ELSE MaxReplies + 1

\* The log has what the CLI said in the order it was said, and what it does
\* not have yet is on its way: the change from buffering to handling loses,
\* repeats and reorders nothing.
RepliesInOrder ==
  \A p \in Sends :
    LET said == log[p] \o <<inHand[p]>> \o binding[p].buffered \o stdout[p]
        spoken == {i \in DOMAIN said : said[i] \in Spoken}
    IN /\ \A i, j \in spoken : i < j => Rank(said[i]) < Rank(said[j])
       /\ {said[i] : i \in spoken} =
            {Reply(n) : n \in 1 .. cli[p].replies}
              \cup (IF cli[p].ended THEN {<<"result", 0>>} ELSE {})

\* The conversation starts with the user's message, although the reply may be
\* there first.
UserMessageFirst ==
  \A p \in Sends : log[p] # <<>> => log[p][1] = <<"user", 0>>

\* handleSend is over and nothing is on its way.
Settled(p) ==
  /\ pc[p] \in {"done", "ended"} /\ (pc[p] = "done" => cli[p].up)
  /\ stdout[p] = <<>> /\ inHand[p] = Nothing
  /\ queue[p] = <<>> /\ applied[p].msg = Nothing
  /\ ask[p] \notin {"asked", "registered"}

\* A page that waited shows every message once and in order, unless the model
\* was in the middle of one when the page was rendered in full.
PageShowsOnce ==
  \A p \in Sends, c \in Clients :
    Settled(p) /\ client[c] = p /\ ~ crossed[p] =>
      page[c].chips = <<<<"user", 0>>>> \o [n \in 1 .. cli[p].replies |-> Reply(n)]

\* A turn that is over is shown as over, unless its end was replayed before
\* handleSend announced its beginning.
TurnEndShown ==
  \A p \in Sends, c \in Clients :
    Settled(p) /\ client[c] = p /\ ~ crossed[p] /\ cli[p].ended /\ page[c].running =>
      ask[p] = "waiting" \/ Before(log[p], "result", "running")

\* A permission claude waits for can be given on the page, unless it was
\* asked between the binding and session_started, which forgets it.
PromptShown ==
  \A p \in Sends, c \in Clients :
    Settled(p) /\ client[c] = p /\ ~ crossed[p] /\ ask[p] = "waiting" =>
      page[c].prompt \/ Before(log[p], "ask", "started")

\* A send that failed leaves no CLI behind and no session.
FailureLeavesNothing ==
  \A p \in Sends : pc[p] = "failed" => ~ cli[p].up /\ log[p] = <<>>

\* What a session begins with: the user's message and all that the CLI said,
\* or nothing at all.
SessionBeginsRight == TypeOK /\ RepliesInOrder /\ UserMessageFirst /\ FailureLeavesNothing

\* A page that waited for its session shows it.
PageShowsSession == PageShowsOnce /\ TurnEndShown /\ PromptShown

\* Every first message ends in a session or in an error.
SendEnds == \A p \in Sends : pc[p] = "start" ~> pc[p] \in {"done", "ended", "failed"}
=============================================================================
