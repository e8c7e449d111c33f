------------------------------ MODULE Timeline ------------------------------
(***************************************************************************)
(* From what the CLI says to what an open page shows.  The goroutine that  *)
(* reads stdout turns each stream event into messages (handleStreamEvent); *)
(* Broadcast writes them to the session's log and hands them to the        *)
(* model's goroutine, which updates the page.  Streaming fragments go to   *)
(* the page directly.  A permission request has a goroutine of its own,    *)
(* and so has each of the user's answers.                                  *)
(*                                                                         *)
(* PageLoad models how pages join and leave; here one page is open from    *)
(* the start, and is compared with what a page load would show.            *)
(***************************************************************************)
EXTENDS SessionView

CONSTANTS
  MaxTurns,   \* bound on the messages the user sends
  MaxWork,    \* bound on the tool uses and the streamed blocks together
  MaxFrags,   \* bound on the fragments of a block
  MaxStarts,  \* bound on the restarts of the CLI
  MaxEvents   \* bound on the events in the model's channel, which does not fill

ASSUME BoundAssumption ==
  /\ MaxTurns \in Nat /\ MaxWork \in Nat /\ MaxStarts \in Nat
  /\ MaxFrags \in Nat \ {0} /\ MaxEvents \in Nat \ {0}

\* The permission goroutines are named by their tools.
ASSUME GoroutineAssumption == {"scan", "watcher", "sender"} \cap AllTools = {}

Goroutines == {"scan", "watcher", "sender"} \cup AllTools

VARIABLES
  cli,     \* what the CLI does: turn, block, counters, fate of each tool
  stats,   \* Session.AgentStats and AgentToolIDs
  stream,  \* Session.StreamingText or StreamingThinking, of one block
  timers,  \* Session.BgTaskStops: background tasks whose timer runs
  log,     \* Session.Log
  out,     \* the messages each goroutine is about to broadcast
  logged,  \* the goroutines that have logged the first of them
  m,       \* Session.Model
  events,  \* its event channel
  answering, \* permissions answered, the answer not yet shown
  page     \* what the browser shows

session == <<stats, stream, timers, log>>
vars == <<cli, session, out, logged, m, events, answering, page>>

NoStat == [known |-> FALSE, open |-> FALSE, background |-> FALSE, heading |-> "none"]
NoStream == [kind |-> "none", n |-> 0, id |-> 0]

Init ==
  /\ cli = [alive |-> TRUE, turn |-> "idle", block |-> "none", frags |-> 0,
            blocks |-> 0, cut |-> {}, turns |-> 0, starts |-> 0,
            tool |-> [t \in AllTools |-> "new"],
            agent |-> [a \in Agents |-> "new"]]
  /\ stats = [a \in Agents |-> NoStat]
  /\ stream = NoStream
  /\ timers = {}
  /\ log = <<>>
  /\ out = [g \in Goroutines |-> <<>>]
  /\ logged = {}
  /\ m = NewModel(TRUE)
  /\ events = <<>>
  /\ answering = {}
  /\ page = RenderFull(NewModel(TRUE), <<>>, 0)

-----------------------------------------------------------------------------
(* Broadcast.                                                              *)

\* A fragment: the first of a block makes the container, the others are
\* appended to it if it is still on the page.
PushDelta(msg) ==
  LET first == stream.n = 0 IN
  /\ stream' = [kind |-> msg.info, n |-> stream.n + 1, id |-> msg.id]
  /\ page' = [page EXCEPT !.dots = IF first THEN FALSE ELSE @,
                          !.stream = IF first THEN 1
                                     ELSE IF @ = 0 THEN 0 ELSE @ + 1]

IsStreamingFlushTrigger(msg) ==
  msg.agent = None /\ msg.type \in {"text", "tool_use", "tool_result"}

\* The fragments of a block that was never finished become a message.
Flushed(msg) ==
  IF IsStreamingFlushTrigger(msg) /\ msg.type # "text" /\ stream.n > 0
    THEN <<Msg("text", stream.id, None, stream.kind)>> ELSE <<>>

\* The accumulators after a message.
StreamAfter(msg) ==
  IF msg.type = "running" \/ IsStreamingFlushTrigger(msg) THEN NoStream ELSE stream

\* Up to the hand-over to the model: the log, the accumulators, the timer of
\* a background task, the flush.
LogMessage(g) ==
  LET msg == Head(out[g]) IN
  /\ out[g] # <<>>
  /\ g \notin logged
  /\ IF msg.type = "delta"
       THEN /\ PushDelta(msg)
            /\ out' = [out EXCEPT ![g] = Tail(@)]
            /\ UNCHANGED <<log, timers, logged>>
       ELSE /\ log' = Append(log, msg) \o Flushed(msg)
            /\ stream' = StreamAfter(msg)
            /\ timers' = IF msg.type = "tool_result" /\ msg.info = "bg"
                           THEN timers \cup {msg.id} ELSE timers
            /\ page' = IF Flushed(msg) = <<>> THEN page
                       ELSE AddChip(page, <<"text", stream.id>>)
            /\ logged' = logged \cup {g}
            /\ UNCHANGED out
  /\ UNCHANGED <<cli, stats, m, events, answering>>

HandToModel(g) ==
  /\ g \in logged /\ Len(events) < MaxEvents
  /\ logged' = logged \ {g}
  /\ events' = Append(events, Head(out[g]))
  /\ out' = [out EXCEPT ![g] = Tail(@)]
  /\ UNCHANGED <<cli, session, m, answering, page>>

\* SessionModel.run: apply, render, push.
ModelStep ==
  /\ events # <<>>
  /\ m' = ApplyMsg(m, Head(events))
  /\ page' = ProcessEvent(m, m', Head(events), page)
  /\ events' = Tail(events)
  /\ UNCHANGED <<cli, session, out, logged, answering>>

-----------------------------------------------------------------------------
(* handleStreamEvent, one action per kind of event.  The CLI says          *)
(* something and the scan goroutine, which is between two frames, handles  *)
(* it.                                                                     *)

Scans == cli.alive /\ out["scan"] = <<>>
Emit(msgs) == out' = [out EXCEPT !["scan"] = msgs]
Rest == UNCHANGED <<log, stream, logged, m, events, answering, page>>

StartAgent(a, heading) ==
  IF stats[a].open
    THEN [stats EXCEPT ![a].heading = IF @ = "none" THEN heading ELSE @]
    ELSE [stats EXCEPT ![a] = [known |-> TRUE, open |-> TRUE,
                               background |-> FALSE, heading |-> heading]]
FinishAgent(a) == [stats EXCEPT ![a].open = FALSE]

\* handleCommandLifecycle, "started": a user's message begins a turn.
UserMessage ==
  /\ Scans /\ out["sender"] = <<>> /\ cli.turn = "idle" /\ cli.turns < MaxTurns
  /\ cli' = [cli EXCEPT !.turn = "running", !.turns = @ + 1]
  /\ Emit(<<Msg("user_message", cli.turns + 1, None, "none"),
            Msg("running", 0, None, "none")>>)
  /\ UNCHANGED <<stats, timers>> /\ Rest

MoreWork ==
  cli.blocks + Cardinality({t \in AllTools : cli.tool[t] # "new"})
    + Cardinality({a \in Agents : cli.agent[a] # "new"}) < MaxWork

\* handleRawStreamEvent.
Delta(kind) ==
  /\ Scans /\ cli.turn = "running"
  /\ \/ cli.block = kind /\ cli.frags < MaxFrags /\ cli' = [cli EXCEPT !.frags = @ + 1]
     \/ /\ cli.block = "none" /\ MoreWork
        /\ cli' = [cli EXCEPT !.block = kind, !.frags = 1, !.blocks = @ + 1]
  /\ Emit(<<Msg("delta", cli'.blocks, None, kind)>>)
  /\ UNCHANGED <<stats, timers>> /\ Rest

\* The finished text or thinking of a block.
Text ==
  /\ Scans /\ cli.turn = "running" /\ cli.block # "none"
  /\ cli' = [cli EXCEPT !.block = "none"]
  /\ Emit(<<Msg("text", cli.blocks, None, cli.block)>>)
  /\ UNCHANGED <<stats, timers>> /\ Rest

\* A main tool use.
UseTool(t) ==
  /\ Scans /\ MoreWork /\ cli.turn = "running" /\ cli.block = "none" /\ cli.tool[t] = "new"
  /\ cli' = [cli EXCEPT !.tool[t] = "used"]
  /\ Emit(<<Msg("tool_use", t, None, Kind[t])>>)
  /\ UNCHANGED <<stats, timers>> /\ Rest

\* The tool use of an Agent is registered, not shown.
UseAgent(a, background) ==
  /\ Scans /\ MoreWork /\ cli.turn = "running" /\ cli.block = "none"
  /\ a \notin Tools /\ cli.agent[a] = "new"
  /\ cli' = [cli EXCEPT !.agent[a] = "used"]
  /\ stats' = [StartAgent(a, "none") EXCEPT ![a].background = background]
  /\ UNCHANGED <<out, timers>> /\ Rest

TaskStarted(a) ==
  /\ Scans /\ a \notin Tools /\ cli.agent[a] = "used"
  /\ cli' = [cli EXCEPT !.agent[a] = "started"]
  /\ stats' = StartAgent(a, "task")
  /\ Emit(<<Msg("subagent_started", a, None, "task")>>)
  /\ UNCHANGED timers /\ Rest

\* A sub-agent's tool use.  The parent of a forked skill was not announced,
\* so its section is made here.
UseInner(t) ==
  LET a == AgentOf[t] IN
  /\ Scans /\ MoreWork /\ cli.tool[t] = "new"
  /\ IF a \in Tools THEN cli.tool[a] = "used" ELSE cli.agent[a] = "started"
  /\ cli' = [cli EXCEPT !.tool[t] = "used"]
  /\ stats' = IF stats[a].known THEN stats ELSE StartAgent(a, "task")
  /\ Emit((IF stats[a].known THEN <<>> ELSE <<Msg("subagent_started", a, None, "task")>>)
            \o <<Msg("tool_use", t, a, Kind[t])>>)
  /\ UNCHANGED timers /\ Rest

TaskProgress(a) ==
  /\ Scans /\ cli.agent[a] = "started" /\ stats[a].heading # "progress"
  /\ stats' = [stats EXCEPT ![a].heading = "progress"]
  /\ Emit(<<Msg("agent_progress", a, None, "progress")>>)
  /\ UNCHANGED <<cli, timers>> /\ Rest

\* The end of an agent by its result, and of one in the background by its
\* notification, which leaves the heading alone.
FinishedBy(a) ==
  <<Msg("subagent_finished", a, None, stats[a].heading), Msg("task_done", a, None, "none")>>
NotifiedBy(a) ==
  <<Msg("subagent_finished", a, None, "none"), Msg("task_done", a, None, "none")>>

\* A sub-agent reports its end.  Only a background one is finished here.
NoInnerLeft(a) ==
  \A t \in Inner : AgentOf[t] = a => cli.tool[t] \notin {"used", "asked", "answered"}
TaskNotification(a) ==
  /\ Scans /\ cli.agent[a] = "started" /\ NoInnerLeft(a)
  /\ cli' = [cli EXCEPT !.agent[a] = IF stats[a].background THEN "done" ELSE "notified"]
  /\ IF stats[a].background
       THEN /\ Emit(NotifiedBy(a))
            /\ stats' = [FinishAgent(a) EXCEPT ![a].heading = "summary"]
       ELSE /\ stats' = [stats EXCEPT ![a].heading = "summary"]
            /\ UNCHANGED out
  /\ timers' = timers \ {a}
  /\ Rest

\* The result of an agent or a forked skill: of a background agent it is only
\* the acknowledgement of its launch; otherwise it is the agent's end.
AgentResult(a) ==
  /\ Scans /\ cli.agent[a] \in {"started", "notified"} /\ a \notin Tools
  /\ ~ stats[a].background /\ NoInnerLeft(a)
  /\ cli' = [cli EXCEPT !.agent[a] = "done"]
  /\ stats' = FinishAgent(a)
  /\ Emit(FinishedBy(a))
  /\ UNCHANGED timers /\ Rest

\* The result of a main tool.  Suppressed and boring outputs are sent empty.
Unresolved(t) ==
  \/ cli.tool[t] \in {"used", "answered"}
  \/ cli.turn = "stopping" /\ cli.tool[t] = "asked"
ToolResult(t, info) ==
  /\ Scans /\ cli.turn # "idle" /\ cli.block = "none" /\ Unresolved(t)
  /\ t \in Agents => NoInnerLeft(t)
  /\ info = "bg" => Kind[t] = "Bash"
  /\ cli' = [cli EXCEPT !.tool[t] = "done"]
  /\ IF t \in Agents /\ stats[t].known
       THEN stats' = FinishAgent(t) /\ Emit(FinishedBy(t))
       ELSE /\ Emit(<<Msg("tool_result", t, None,
                          IF Suppressed(t) /\ info = "out" THEN "empty" ELSE info)>>)
            /\ UNCHANGED stats
  /\ UNCHANGED timers /\ Rest

\* The result of a sub-agent's tool: sent with images, or if it is neither
\* suppressed nor boring.
InnerResultEvent(t, info) ==
  /\ Scans /\ cli.tool[t] \in {"used", "answered"}
  /\ cli' = [cli EXCEPT !.tool[t] = "done"]
  /\ Emit(IF info = "images" \/ (info = "out" /\ ~ Suppressed(t))
            THEN <<Msg("tool_result", t, AgentOf[t], info)>> ELSE <<>>)
  /\ UNCHANGED <<stats, timers>> /\ Rest

\* A background command has ended.
BgDone(t) ==
  /\ Scans /\ t \in timers
  /\ Emit(<<Msg("task_done", t, None, "none")>>)
  /\ timers' = timers \ {t}
  /\ UNCHANGED <<cli, stats>> /\ Rest

\* The user interrupts: the block is abandoned, the tools get a result, the
\* turn ends.
CutOff == IF cli.block = "none" THEN cli.cut ELSE cli.cut \cup {cli.blocks}
Interrupt ==
  /\ cli.alive /\ cli.turn = "running"
  /\ cli' = [cli EXCEPT !.turn = "stopping", !.block = "none", !.cut = CutOff]
  /\ UNCHANGED <<stats, timers, out>> /\ Rest

TurnEnds ==
  /\ Scans /\ cli.turn # "idle" /\ cli.block = "none"
  /\ \A t \in Tools : cli.tool[t] \in {"new", "done", "lost"}
  /\ \A a \in Agents : cli.agent[a] \in {"new", "done", "lost"} \/ stats[a].background
  /\ cli' = [cli EXCEPT !.turn = "idle"]
  /\ Emit(<<Msg("done", 0, None, "none")>>)
  /\ UNCHANGED <<stats, timers>> /\ Rest

-----------------------------------------------------------------------------
(* Permissions.                                                            *)

\* HandlePermission, on a goroutine of its own.
AskPermission(t) ==
  /\ Scans /\ cli.turn # "stopping" /\ cli.tool[t] = "used" /\ Kind[t] \in {"Bash", "Other"}
  /\ cli' = [cli EXCEPT !.tool[t] = "asked"]
  /\ out' = [out EXCEPT ![t] = <<Msg("permission_request", t, None, "none")>>]
  /\ UNCHANGED <<stats, timers>> /\ Rest

\* handlePerm answers first and updates the page and the log afterwards.
Answer(t) ==
  /\ t \in page.prompt \ answering
  /\ answering' = answering \cup {t}
  /\ cli' = [cli EXCEPT !.tool[t] = IF @ = "asked" THEN "answered" ELSE @]
  /\ UNCHANGED <<session, out, logged, m, events, page>>

ShowAnswer(t) ==
  /\ t \in answering
  /\ answering' = answering \ {t}
  /\ page' = [page EXCEPT !.prompt = @ \ {t}]
  /\ log' = SelectSeq(log, LAMBDA msg : ~ (msg.type = "permission_request" /\ msg.id = t))
  /\ UNCHANGED <<cli, stats, stream, timers, out, logged, m, events>>

-----------------------------------------------------------------------------
(* The end of the process and the next one.                                *)

Lost(phase) == IF phase \in {"new", "done"} THEN phase ELSE "lost"
\* The watcher of a process begins after the announcement of the process.
Exit ==
  /\ Scans /\ out["sender"] = <<>> /\ cli.starts < MaxStarts
  /\ cli' = [cli EXCEPT !.alive = FALSE, !.turn = "idle", !.block = "none", !.cut = CutOff,
                        !.tool = [t \in AllTools |-> Lost(@[t])],
                        !.agent = [a \in Agents |-> Lost(@[a])]]
  /\ timers' = {}
  /\ out' = [out EXCEPT !["watcher"] = <<Msg("session_ended", 0, None, "none")>>]
  /\ UNCHANGED stats /\ Rest

\* The next process, after the end of the one before was announced; CommandQueue
\* has the one that outruns its watcher.
Restart ==
  /\ ~ cli.alive /\ out["watcher"] = <<>> /\ out["sender"] = <<>>
  /\ cli' = [cli EXCEPT !.alive = TRUE, !.starts = @ + 1]
  /\ out' = [out EXCEPT !["sender"] = <<Msg("session_started", 0, None, "none")>>]
  /\ UNCHANGED <<stats, timers>> /\ Rest

Next ==
  \/ UserMessage \/ Text \/ Interrupt \/ TurnEnds \/ ModelStep \/ Exit \/ Restart
  \/ \E kind \in {"text", "thinking"} : Delta(kind)
  \/ \E g \in Goroutines : LogMessage(g) \/ HandToModel(g)
  \/ \E t \in Tools : UseTool(t) \/ BgDone(t)
  \/ \E t \in Tools, info \in {"out", "empty", "images", "bg"} : ToolResult(t, info)
  \/ \E t \in Inner : UseInner(t)
  \/ \E t \in Inner, info \in {"out", "empty", "images"} : InnerResultEvent(t, info)
  \/ \E t \in AllTools : AskPermission(t) \/ Answer(t) \/ ShowAnswer(t)
  \/ \E a \in Agents : \/ TaskStarted(a) \/ TaskProgress(a) \/ TaskNotification(a)
                       \/ AgentResult(a)
                       \/ \E background \in BOOLEAN : UseAgent(a, background)

Spec == Init /\ [][Next]_vars

-----------------------------------------------------------------------------
(* Properties.                                                             *)

Phases == {"new", "used", "asked", "answered", "done", "lost"}
AgentPhases == {"new", "used", "started", "notified", "done", "lost"}

\* The shapes of the state.
TypeOK ==
  /\ cli.turn \in {"idle", "running", "stopping"}
  /\ cli.tool \in [AllTools -> Phases]
  /\ cli.agent \in [Agents -> AgentPhases]
  /\ \A a \in Agents : stats[a].open => stats[a].known
  /\ stream.n \in 0 .. MaxFrags
  /\ timers \subseteq Tools
  /\ logged \subseteq {g \in Goroutines : out[g] # <<>>}
  /\ m.perms \subseteq AllTools
  /\ page.prompt \subseteq AllTools

\* Nothing is on its way from the CLI to the page.
Settled ==
  /\ \A g \in Goroutines : out[g] = <<>>
  /\ events = <<>>
  /\ answering = {}

\* What a page load would show now.
Reload ==
  RenderFull(BuildModel(cli.alive, log), log,
             IF stream.kind = "thinking" THEN stream.n ELSE 0)

\* Begun under an earlier process: a page load shows these as that process
\* left them unfinished.
Forgotten(id) ==
  \E i, j \in DOMAIN log :
    i < j /\ log[i].id = id /\ log[j].type = "session_started"

\* A page load shows the conversation the open page shows: the same chips in
\* the same order, with the same results and sections.  Only the text of a
\* block that was cut off may stand elsewhere: it is pushed to the page past
\* the messages the model has not rendered yet.
CutText(chip) == chip[1] = "text" /\ chip[2] \in cli.cut
WholeChips(chips) == SelectSeq(chips, LAMBDA chip : ~ CutText(chip))
ReloadShowsThePage ==
  Settled =>
    /\ WholeChips(page.chips) = WholeChips(Reload.chips)
    /\ Len(page.chips) = Len(Reload.chips)
    /\ ToSet(page.chips) = ToSet(Reload.chips)
    /\ \A t \in Tools : ~ Forgotten(t) => page.result[t] = Reload.result[t]
    /\ \A a \in Agents : ~ Forgotten(a) =>
         /\ page.body[a] = Reload.body[a]
         /\ (a \in page.final) = (a \in Reload.final)
    /\ \A t \in Inner : ~ Forgotten(AgentOf[t]) =>
         page.result[t] = Reload.result[t] \/ Reload.result[t] = "images"

\* What spins on the open page spins after a page load and the reverse,
\* except a finished forked skill: it ends by the end of its section and never
\* gets a result, so its chip spins again after a page load.
ForkedSkillDone(t) == t \in Agents /\ cli.tool[t] = "done"
SpinnersAgree ==
  Settled =>
    /\ \A t \in Tools : ~ Forgotten(t) /\ ~ ForkedSkillDone(t) =>
         (t \in page.spin) = (t \in Reload.spin)
    /\ \A a \in Agents : ~ Forgotten(a) =>
         (a \in page.sspin) = (a \in Reload.sspin)

\* The indicator and the stop button of the open page are those of a page
\* load, unless the model holds a permission that nobody is asked for: one
\* whose tool has still to report after the answer, or one whose request
\* was broadcast while its tool was being stopped.
Outlived == {t \in m.perms \cup BuildModel(cli.alive, log).perms : cli.tool[t] # "asked"}
ControlsAgree ==
  Settled =>
    /\ page.alive = Reload.alive
    /\ Outlived = {} => page.running = Reload.running /\ page.stop = Reload.stop

\* A tool that waits for the user has its prompt, on the open page and after
\* a page load; a prompt only the open page has is that of a tool which no
\* longer waits (its turn was interrupted).
PromptsAgree ==
  Settled =>
    /\ {t \in AllTools : cli.tool[t] = "asked"} \subseteq Reload.prompt
    /\ Reload.prompt \subseteq page.prompt

\* The heading of a background agent is that of a page load.
BackgroundHeadingSurvives ==
  Settled => \A a \in Agents :
    stats[a].background /\ ~ Forgotten(a) => page.head[a] = Reload.head[a]

\* What is at work, what can be done about it and what is asked is the same on
\* the open page and after a page load.
WorkAgrees ==
  TypeOK /\ SpinnersAgree /\ ControlsAgree /\ PromptsAgree /\ BackgroundHeadingSurvives

\* The streaming area shows all fragments of the current block, or nothing
\* (the clearing for an earlier message came late); never the rest of a block
\* that has become a message.  A block that is cut off stays there until the
\* turn is done.
StreamShowsBlockOrNothing ==
  Settled /\ cli.cut = {} => page.stream \in {0, stream.n}

\* The page counts the seconds of the background tasks that run, and of no
\* others.
TimersMatchTasks ==
  Settled => timers = {t \in Tools : m.alive /\ m.bg[t] = "running"}
=============================================================================
