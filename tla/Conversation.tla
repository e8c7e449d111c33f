---------------------------- MODULE Conversation ----------------------------
(***************************************************************************)
(* The conversation is a tree: editing a message makes a sibling of it.    *)
(* claude writes every line, with its parent, to a transcript it only ever *)
(* appends to.  The session follows the active branch with Tip and         *)
(* LineParents, the model with a chain of its own, and a page shows the    *)
(* messages of the log whose uuid is on the active branch.                 *)
(*                                                                         *)
(* An edit rewinds claude message by message, moves the tip, rebuilds the  *)
(* model and sends the new text; meanwhile the scan goroutine links lines, *)
(* messages are sent, pages are loaded, and the CLI may die.  A session    *)
(* that is dropped, or a restarted server, reads the transcript again.     *)
(*                                                                         *)
(* Broadcasting what one line makes (its blocks; a user message and        *)
(* running) is one step here, and so is applying and pushing it: PageLoad  *)
(* takes those apart.                                                      *)
(***************************************************************************)
EXTENDS Naturals, Sequences, FiniteSets, SequencesExt, TLC

CONSTANTS
  MaxSends,  \* bound on user messages, the edited ones among them
  MaxLines,  \* bound on the other lines claude writes
  MaxLoads,  \* bound on page loads
  MaxEvents  \* bound on edits, page loads and CLIs started, together

ASSUME ConversationAssumption ==
  {MaxSends, MaxLines, MaxLoads, MaxEvents} \subseteq Nat

VARIABLES
  cli,        \* claude: up, its tip, whether a turn runs, its queue
  transcript, \* the lines of the transcript, with their parents
  stdout,     \* frames that are not scanned yet
  inHand,     \* the line that is linked and not broadcast yet
  sess,       \* Session: Tip and LineParents, Log, queued messages
  modelQueue, \* the model's event channel
  model,      \* its messages, chain and turn
  page,       \* the messages the open page shows
  edit,       \* handleEditResend
  load,       \* handleEvents
  minted,     \* user messages sent, lines written, events
  excuse      \* (history) why claude and the session may disagree

vars == <<cli, transcript, stdout, inHand, sess, modelQueue, model, page, edit, load,
          minted, excuse>>
claude == <<cli, transcript, stdout>>
server == <<inHand, sess, modelQueue, model, page>>

None == <<"none", 0>>
User(n) == <<"user", n>>
IsMessage(u) == u[1] \in {"user", "assistant"}

-----------------------------------------------------------------------------
(* Chains.                                                                 *)

NewChain == [tip |-> None, parents |-> <<>>]

\* The uuids on the way from the leaf to the root; a chain that repeats ends.
activeSet(chain) ==
  LET reach[n \in 0 .. Cardinality(DOMAIN chain.parents)] ==
        IF n = 0 THEN {chain.tip}
        ELSE reach[n - 1]
               \cup {chain.parents[u] : u \in reach[n - 1] \cap DOMAIN chain.parents}
  IN reach[Cardinality(DOMAIN chain.parents)] \ {None}

Link(chain, u) ==
  IF u \in DOMAIN chain.parents THEN chain
  ELSE [tip |-> u, parents |-> (u :> chain.tip) @@ chain.parents]

\* renderMessages: what is on the active branch.
Rendered(log, active) == SelectSeq(log, LAMBDA u : u \in active)

Lines(lines) == [tip |-> None,
                 parents |-> [u \in {l.uuid : l \in ToSet(lines)} |->
                                (CHOOSE l \in ToSet(lines) : l.uuid = u).parent]]
\* claude's branch: user and assistant lines from the root to its tip.
Branch ==
  LET active == activeSet([Lines(transcript) EXCEPT !.tip = cli.tip])
  IN SelectSeq([i \in DOMAIN transcript |-> transcript[i].uuid],
               LAMBDA u : u \in active /\ IsMessage(u))

\* An assistant event has two blocks, each a message of its own.
Messages(u) == IF u[1] = "assistant" THEN <<u, u>> ELSE <<u>>

\* parseSessionMessages and loadSessionFromDisk: all lines are links, some
\* are messages, and the last of these is the tip.
LoadLines(lines, linked) ==
  LET said == SelectSeq([i \in DOMAIN lines |-> lines[i].uuid], IsMessage) IN
  [chain |-> [Lines(linked) EXCEPT !.tip = IF said = <<>> THEN None ELSE Last(said)],
   log |-> FlattenSeq([i \in DOMAIN said |-> Messages(said[i])]),
   turn |-> FALSE, queued |-> {}]
loadSessionMessagesOnly(lines) ==
  LoadLines(lines, SelectSeq(lines, LAMBDA l : IsMessage(l.uuid)))
loadSessionFromDisk(lines) == LoadLines(lines, lines)

BuildModel(log, chain, turn) == [msgs |-> log, chain |-> chain, turn |-> turn]
RenderFull(m) == Rendered(m.msgs, activeSet(m.chain))

NewSession == [chain |-> NewChain, log |-> <<>>, turn |-> FALSE, queued |-> {}]
NoEdit == [at |-> "idle", target |-> None, todo |-> <<>>, preceding |-> None]
NoLoad == [at |-> "idle", log |-> <<>>, turn |-> FALSE, tip |-> None]

Init ==
  /\ cli = [up |-> FALSE, tip |-> None, turn |-> FALSE, queue |-> <<>>]
  /\ transcript = <<>> /\ stdout = <<>> /\ inHand = None
  /\ sess = NewSession /\ modelQueue = <<>> /\ page = <<>>
  /\ model = BuildModel(<<>>, NewChain, FALSE)
  /\ edit = NoEdit /\ load = NoLoad
  /\ minted = [users |-> 0, lines |-> 0, loads |-> 0, events |-> 0]
  /\ excuse = {}

-----------------------------------------------------------------------------
(* claude.  A message it takes, and what it says, goes to the transcript   *)
(* and to stdout; a note (an attachment, a summary) to the transcript only.*)

LastLine == IF transcript = <<>> THEN None ELSE Last(transcript).uuid

Write(u) ==
  /\ transcript' = Append(transcript, [uuid |-> u, parent |-> cli.tip])
  /\ minted' = IF u[1] = "user" THEN minted ELSE [minted EXCEPT !.lines = @ + 1]

CliStarts ==
  /\ cli.up /\ cli.queue # <<>>
  /\ Write(Head(cli.queue))
  /\ cli' = [cli EXCEPT !.tip = Head(cli.queue), !.turn = TRUE, !.queue = Tail(@)]
  /\ stdout' = Append(stdout, <<"started", Head(cli.queue)>>)
  /\ excuse' = excuse \cup IF edit.at # "idle" THEN {"sent"} ELSE {}
  /\ UNCHANGED <<server, edit, load>>

CliSays(kind) ==
  /\ cli.up /\ cli.turn /\ minted.lines < MaxLines
  /\ LET u == <<kind, minted.lines + 1>> IN
     /\ Write(u)
     /\ cli' = [cli EXCEPT !.tip = u]
     /\ stdout' = IF kind = "note" THEN stdout ELSE Append(stdout, <<"line", u>>)
  /\ UNCHANGED <<server, edit, load, excuse>>

CliEndsTurn ==
  /\ cli.up /\ cli.turn
  /\ cli' = [cli EXCEPT !.turn = FALSE]
  /\ stdout' = Append(stdout, <<"result", None>>)
  /\ UNCHANGED <<transcript, server, edit, load, minted, excuse>>

\* What is in the pipe is still scanned; the process is dead after that.
CliExits ==
  /\ cli.up
  /\ cli' = [cli EXCEPT !.up = FALSE, !.turn = FALSE, !.queue = <<>>]
  /\ stdout' = Append(SelectSeq(stdout, LAMBDA f : f[1] # "rewound"), <<"ended", None>>)
  /\ excuse' = excuse \cup
       IF edit # NoEdit \/ cli.tip # LastLine THEN {"died"} ELSE {}
  /\ UNCHANGED <<transcript, server, edit, load, minted>>

\* The latest user message of the branch may be rewound, or refused.
CliRewinds ==
  /\ cli.up /\ edit.at = "asked"
  /\ LET target == Head(edit.todo)
         users == SelectSeq(Branch, LAMBDA u : u[1] = "user")
         parent == (CHOOSE l \in ToSet(transcript) : l.uuid = target).parent
         before == SelectSeq(SubSeq(Branch, 1, SelectInSeq(Branch, LAMBDA u : u = target) - 1),
                             LAMBDA u : u[1] = "assistant")
         preceding == Last(<<None>> \o before)
     IN
     \/ /\ users # <<>> /\ Last(users) = target /\ ~ cli.turn
        /\ cli' = [cli EXCEPT !.tip = parent]
        /\ stdout' = Append(stdout, <<"rewound", preceding>>)
        /\ excuse' = excuse \cup
             IF before # <<>> /\ Branch[SelectInSeq(Branch, LAMBDA u : u = target) - 1] = preceding
               THEN {} ELSE {"unanswered"}
     \/ stdout' = Append(stdout, <<"refused", None>>) /\ UNCHANGED <<cli, excuse>>
  /\ edit' = [edit EXCEPT !.at = "waits"]
  /\ UNCHANGED <<transcript, server, load, minted>>

-----------------------------------------------------------------------------
(* Sending.  SendMessage starts a CLI when there is none; it resumes from  *)
(* the last line of the transcript.                                        *)

SendMessage(u) ==
  /\ sess' = [sess EXCEPT !.queued = @ \cup {u}]
  /\ IF cli.up
       THEN /\ cli' = [cli EXCEPT !.queue = Append(@, u)]
            /\ minted' = [minted EXCEPT !.users = u[2]]
       ELSE /\ cli' = [up |-> TRUE, turn |-> FALSE, queue |-> <<u>>,
                       tip |-> LastLine]
            /\ minted' = [minted EXCEPT !.users = u[2], !.events = @ + 1]

Dead == ~ cli.up /\ stdout = <<>> /\ inHand = None
CanSend == minted.users < MaxSends /\ (cli.up \/ (Dead /\ minted.events < MaxEvents))

handleSend ==
  /\ CanSend
  /\ SendMessage(User(minted.users + 1))
  /\ UNCHANGED <<transcript, stdout, inHand, modelQueue, model, page, edit, load, excuse>>

-----------------------------------------------------------------------------
(* The scan goroutine and the model's.                                     *)

Frame == Head(stdout)
Scan(kinds) ==
  /\ stdout # <<>> /\ inHand = None /\ Frame[1] \in kinds
  /\ stdout' = Tail(stdout)

\* handleCommandLifecycle and handleStreamEvent link a line before they
\* broadcast it.
AdvanceTipOn(kinds) ==
  /\ Scan({"started", "line"})
  /\ IF Frame[1] = "started" /\ Frame[2] \notin sess.queued THEN UNCHANGED <<sess, inHand>>
     ELSE /\ sess' = [sess EXCEPT !.chain = IF Frame[1] \in kinds THEN Link(@, Frame[2]) ELSE @,
                                  !.queued = @ \ {Frame[2]}]
          /\ inHand' = Frame[2]
  /\ UNCHANGED <<cli, transcript, modelQueue, model, page, edit, load, minted, excuse>>

AdvanceTipOnReplies == AdvanceTipOn({"line"})
AdvanceTip == AdvanceTipOn({"started", "line"})

Broadcast ==
  /\ inHand # None
  /\ sess' = [sess EXCEPT !.log = @ \o Messages(inHand), !.turn = @ \/ inHand[1] = "user"]
  /\ modelQueue' = Append(modelQueue, inHand)
  /\ inHand' = None
  /\ UNCHANGED <<claude, model, page, edit, load, minted, excuse>>

\* The end of the process clears the queue, too.
TurnEnds ==
  /\ Scan({"result", "ended"})
  /\ modelQueue' = Append(modelQueue, <<"done", 0>>)
  /\ sess' = [sess EXCEPT !.turn = FALSE,
                          !.queued = IF Frame[1] = "ended" THEN {} ELSE @]
  /\ UNCHANGED <<cli, transcript, inHand, model, page, edit, load, minted, excuse>>

\* The answer to a rewind goes to the goroutine that waits for it.
Answer ==
  /\ Scan({"rewound", "refused"})
  /\ edit' = IF edit.at # "waits" THEN edit
             ELSE IF Frame[1] = "refused" THEN [edit EXCEPT !.at = "failed"]
             ELSE IF Len(edit.todo) > 1
               THEN [edit EXCEPT !.at = "asked", !.todo = Tail(@)]
               ELSE [edit EXCEPT !.at = "cancel", !.preceding = Frame[2]]
  /\ UNCHANGED <<cli, transcript, server, load, minted, excuse>>

Apply(m, u) ==
  [msgs |-> m.msgs \o Messages(u), chain |-> FoldLeft(Link, m.chain, Messages(u)),
   turn |-> m.turn \/ u[1] = "user"]

ModelApplies ==
  /\ modelQueue # <<>>
  /\ LET u == Head(modelQueue) IN
     IF IsMessage(u)
       THEN model' = Apply(model, u) /\ page' = page \o Messages(u)
       ELSE model' = [model EXCEPT !.turn = FALSE] /\ UNCHANGED page
  /\ modelQueue' = Tail(modelQueue)
  /\ UNCHANGED <<claude, inHand, sess, edit, load, minted, excuse>>

\* A model built from the log replaces the other, which keeps its queue.
Rebuild(log, chain, turn) ==
  /\ model' = BuildModel(log, chain, turn)
  /\ modelQueue' = <<>>
  /\ page' = RenderFull(model')
  /\ excuse' = excuse \cup (IF log # sess.log \/ turn # sess.turn THEN {"lost"} ELSE {})
                     \cup (IF chain # sess.chain THEN {"behind"} ELSE {})

-----------------------------------------------------------------------------
(* handleEvents: the log, then the tip, then the parents.                  *)

LoadLog ==
  /\ load.at = "idle" /\ minted.loads < MaxLoads /\ minted.events < MaxEvents
  /\ load' = [NoLoad EXCEPT !.at = "log", !.log = sess.log, !.turn = sess.turn]
  /\ minted' = [minted EXCEPT !.loads = @ + 1, !.events = @ + 1]
  /\ UNCHANGED <<claude, server, edit, excuse>>
LoadTip ==
  /\ load.at = "log"
  /\ load' = [load EXCEPT !.at = "tip", !.tip = sess.chain.tip]
  /\ UNCHANGED <<claude, server, edit, minted, excuse>>
LoadRest ==
  /\ load.at = "tip"
  /\ Rebuild(load.log, [tip |-> load.tip, parents |-> sess.chain.parents], load.turn)
  /\ load' = NoLoad
  /\ UNCHANGED <<claude, inHand, sess, edit, minted>>

-----------------------------------------------------------------------------
(* handleEditResend.                                                       *)

\* findUserMessage: a message of the active branch that follows a reply, and
\* the user messages after it, newest first.
RewindTargets(u) ==
  LET shown == Rendered(sess.log, activeSet(sess.chain))
      at == SelectInSeq(shown, LAMBDA v : v = u)
  IN IF u[1] # "user" \/ at = 0 \/ ~ \E i \in 1 .. at - 1 : shown[i][1] = "assistant" THEN <<>>
     ELSE SelectSeq(SubSeq(shown, at, Len(shown)), LAMBDA v : v[1] = "user")

UserUnderWay == inHand[1] = "user" \/ \E f \in ToSet(stdout) : f[1] = "started"

\* targets: the messages in the order they will be rewound.
EditBeginsAs(u, targets) ==
  /\ edit.at = "idle" /\ minted.events < MaxEvents
  /\ cli.up /\ ~ model.turn
  /\ targets # <<>>
  /\ edit' = [at |-> "asked", target |-> u, todo |-> targets, preceding |-> None]
  /\ minted' = [minted EXCEPT !.events = @ + 1]
  /\ excuse' = excuse \cup IF cli.turn \/ cli.queue # <<>> \/ UserUnderWay THEN {"sent"} ELSE {}
  /\ UNCHANGED <<claude, server, load>>
EditOldestFirst(u) == EditBeginsAs(u, RewindTargets(u))
EditBegins(u) == EditBeginsAs(u, Reverse(RewindTargets(u)))

\* The process died, or claude refused: the session is dropped, its CLI
\* killed, and the redirect loads it again.
Drop ==
  /\ cli' = [up |-> FALSE, tip |-> cli.tip, turn |-> FALSE, queue |-> <<>>]
  /\ sess' = loadSessionFromDisk(transcript)
  /\ stdout' = <<>> /\ inHand' = None /\ modelQueue' = <<>>
  /\ model' = BuildModel(sess'.log, sess'.chain, FALSE)
  /\ page' = RenderFull(model')
  /\ edit' = NoEdit /\ load' = NoLoad /\ excuse' = {}
  /\ UNCHANGED <<transcript, minted>>
EditAbandons ==
  /\ edit.at = "failed" \/ (edit.at \in {"asked", "waits"} /\ ~ cli.up)
  /\ Drop
Restart == transcript # <<>> /\ ~ cli.up /\ edit = NoEdit /\ sess # loadSessionFromDisk(transcript) /\ Drop

\* Queued messages claude has not taken are cancelled.
EditCancels ==
  /\ edit.at = "cancel"
  /\ edit' = [edit EXCEPT !.at = "settip"]
  /\ sess' = [sess EXCEPT !.queued = @ \ ToSet(cli.queue)]
  /\ cli' = [cli EXCEPT !.queue = <<>>]
  /\ UNCHANGED <<transcript, stdout, inHand, modelQueue, model, page, load, minted, excuse>>

EditSetsTip ==
  /\ edit.at = "settip"
  /\ edit' = [edit EXCEPT !.at = "rebuild"]
  /\ sess' = [sess EXCEPT !.chain.tip = edit.preceding]
  /\ excuse' = excuse \cup IF load # NoLoad THEN {"overtaken"} ELSE {}
  /\ UNCHANGED <<claude, inHand, modelQueue, model, page, load, minted>>

EditRebuilds ==
  /\ edit.at = "rebuild"
  /\ edit' = [edit EXCEPT !.at = "send"]
  /\ Rebuild(sess.log, sess.chain, sess.turn)
  /\ UNCHANGED <<claude, inHand, sess, load, minted>>

EditSends ==
  /\ edit.at = "send"
  /\ edit' = NoEdit
  /\ IF CanSend THEN SendMessage(User(minted.users + 1)) ELSE UNCHANGED <<sess, cli, minted>>
  /\ UNCHANGED <<transcript, stdout, inHand, modelQueue, model, page, load, excuse>>

-----------------------------------------------------------------------------
Claude == CliStarts \/ CliEndsTurn \/ CliExits \/ CliRewinds
            \/ \E kind \in {"assistant", "note"} : CliSays(kind)
Goroutines == AdvanceTip \/ Broadcast \/ TurnEnds \/ Answer \/ ModelApplies
Loads == LoadLog \/ LoadTip \/ LoadRest
Edits == EditAbandons \/ EditCancels \/ EditSetsTip \/ EditRebuilds \/ EditSends
           \/ \E u \in ToSet(sess.log) : EditBegins(u)

Next == handleSend \/ Restart \/ Claude \/ Goroutines \/ Loads \/ Edits

Spec == Init /\ [][Next]_vars

-----------------------------------------------------------------------------
(* Properties.                                                             *)

Settled ==
  /\ cli.up /\ cli.queue = <<>> /\ stdout = <<>> /\ inHand = None /\ modelQueue = <<>>
  /\ edit = NoEdit /\ load = NoLoad

Said == FlattenSeq([i \in DOMAIN Branch |-> Messages(Branch[i])])

\* When nothing is under way, the page shows, in order, the messages of the
\* branch claude is on, and so does the model: after edits, refused edits, new
\* CLIs and restarts.  Excused are a message that got in while an edit was
\* made, a CLI that died with a rewind it has not recorded, an edit of a
\* message that does not follow a reply, and a page load that lost a message
\* or that began before the tip was moved and ended after the edit;
\* and, for the model, one that read the tip before a line was linked and the
\* parents after: the model never links that line again.
PageShowsBranch ==
  Settled => /\ excuse \subseteq {"behind"} => page = Said
             /\ excuse = {} => RenderFull(model) = Said

\* A page load in the middle of all that shows every message of the log it
\* read that is on claude's branch.
LoadKeepsBranch ==
  [][load.at = "tip" /\ load'.at = "idle" /\ cli.up /\ edit = NoEdit /\ excuse = {}
       /\ load.tip \in ToSet(Branch)
     => page' = Rendered(load.log, ToSet(Branch))]_vars

\* An edit asks claude for a rewind it can make: the user messages of the
\* branch from the last one up to the edited one, and never one too many.
RewindsFromTheEnd ==
  edit.at = "asked" /\ cli.up /\ excuse = {} =>
    LET users == SelectSeq(Branch, LAMBDA u : u[1] = "user") IN
    /\ Len(edit.todo) <= Len(users)
    /\ edit.todo = SubSeq(Reverse(users), 1, Len(edit.todo))
    /\ Last(edit.todo) = edit.target
=============================================================================
