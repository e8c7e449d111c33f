----------------------------- MODULE SessionView -----------------------------
(***************************************************************************)
(* What a browser shows of one session, as pure operators: how the         *)
(* session's model folds a message (SessionModel.Apply), which changes of  *)
(* the page a message causes (RenderEvent), and the page that a page load  *)
(* renders from the whole log (BuildModel, RenderFull).  The same page is  *)
(* produced in two ways, so the two have to agree.                         *)
(*                                                                         *)
(* A page is what can be told apart on it: the chips in their order, the   *)
(* spinners, results, prompts, sections of sub-agents and controls.        *)
(***************************************************************************)
EXTENDS Naturals, Sequences, FiniteSets, SequencesExt

CONSTANTS
  Tools,    \* tool uses of the main conversation
  Agents,   \* parents of sub-agents; a forked skill is also one of Tools
  Inner,    \* tool uses of sub-agents
  AgentOf,  \* the sub-agent of each of Inner
  Kind,     \* "Bash", "Read" (its output is suppressed), "Skill" or "Other"
  None      \* no tool, no agent

ASSUME ToolAssumption ==
  /\ AgentOf \in [Inner -> Agents]
  /\ Kind \in [Tools \cup Inner -> {"Bash", "Read", "Skill", "Other"}]
  /\ Inner \cap (Tools \cup Agents) = {}
  /\ None \notin Tools \cup Agents \cup Inner

AllTools == Tools \cup Inner

\* ServerMsg.  id is the tool use, the agent, or the number of a text; agent
\* is the sub-agent a tool use belongs to; info is the rest that matters: the
\* kind of an output, the heading of a section.
Msg(type, id, agent, info) ==
  [type |-> type, id |-> id, agent |-> agent, info |-> info]

Suppressed(t) == Kind[t] = "Read"

-----------------------------------------------------------------------------
(* The model.                                                              *)

NewModel(alive) ==
  [results  |-> [t \in Tools |-> "none"],
   bg       |-> [t \in Tools |-> "none"],
   perms    |-> {},
   sections |-> [a \in Agents |-> "none"],
   heads    |-> [a \in Agents |-> "none"],
   turn     |-> FALSE,
   alive    |-> alive]

ApplyResult(m, msg) ==
  LET answered == [m EXCEPT !.perms = @ \ {msg.id}] IN
  IF msg.agent # None THEN answered
  ELSE [answered EXCEPT !.results[msg.id] = msg.info,
                        !.bg[msg.id] = IF msg.info = "bg" THEN "running" ELSE @]

ApplyNothing(m, msg) == m
ApplyFinished(m, msg) ==
  IF m.sections[msg.id] = "none" THEN m
  ELSE [m EXCEPT !.sections[msg.id] = "finished",
                 !.heads[msg.id] = IF msg.info = "none" THEN @ ELSE msg.info]

ApplyRevived(m) == [m EXCEPT !.alive = TRUE, !.turn = FALSE]
\* A new process knows nothing of what the last one had under way.
ApplySessionStarted(m) ==
  [m EXCEPT !.alive = TRUE, !.turn = FALSE, !.perms = {},
            !.bg = [t \in Tools |-> "none"],
            !.sections = [a \in Agents |-> "none"],
            !.heads = [a \in Agents |-> "none"]]

ApplyMsg(m, msg) ==
  CASE msg.type = "tool_result" -> ApplyResult(m, msg)
    [] msg.type = "task_done" /\ msg.id \in Tools ->
         [m EXCEPT !.bg[msg.id] = IF @ = "none" THEN @ ELSE "completed"]
    [] msg.type = "running" -> [m EXCEPT !.turn = TRUE]
    [] msg.type = "done" -> [m EXCEPT !.turn = FALSE]
    [] msg.type = "session_started" -> ApplySessionStarted(m)
    [] msg.type = "session_ended" -> [m EXCEPT !.alive = FALSE]
    [] msg.type = "permission_request" -> [m EXCEPT !.perms = @ \cup {msg.id}]
    [] msg.type = "subagent_started" ->
         [m EXCEPT !.sections[msg.id] = "running", !.heads[msg.id] = msg.info]
    [] msg.type = "subagent_finished" -> ApplyFinished(m, msg)
    [] OTHER -> m

CanInterrupt(m) == m.alive /\ (m.turn \/ m.perms # {})

HasActivity(m) ==
  /\ m.alive
  /\ \/ m.turn
     \/ m.perms # {}
     \/ \E t \in Tools : m.bg[t] = "running"
     \/ \E a \in Agents : m.sections[a] = "running"

BuildModel(alive, log) == FoldLeft(ApplyMsg, NewModel(alive), log)

-----------------------------------------------------------------------------
(* The page.  stream counts the fragments in the streaming area; a result  *)
(* of a sub-agent's tool is in its chip after a page load and a chip of    *)
(* its own before, which is not told apart.                                *)

Section(a) == <<"section", a>>

OnPage(p, t) ==
  \/ <<"tool", t>> \in ToSet(p.chips)
  \/ t \in Inner /\ t \in ToSet(p.body[AgentOf[t]])

AddChip(p, chip) == [p EXCEPT !.chips = Append(@, chip)]

\* Sub-agents' chips have no spinner.  A swap whose target is not on the page
\* does nothing.
RenderToolUse(p, msg) ==
  IF msg.agent # None
    THEN IF Section(msg.agent) \in ToSet(p.chips)
           THEN [p EXCEPT !.body[msg.agent] = Append(@, msg.id)]
           ELSE p
    ELSE [AddChip(p, <<"tool", msg.id>>) EXCEPT !.stream = 0,
                                                !.spin = @ \cup {msg.id}]

\* A background task keeps its spinner and gets a slot for its output; images
\* of a sub-agent's tool are not rendered.
RenderToolResult(m, p, msg) ==
  LET shown == IF msg.info = "empty" THEN "none" ELSE msg.info IN
  IF ~ OnPage(p, msg.id) THEN p
  ELSE IF msg.agent # None
    THEN [p EXCEPT !.result[msg.id] = IF shown = "images" THEN "none" ELSE shown]
  ELSE IF m.bg[msg.id] # "none"
    THEN [p EXCEPT !.slot = @ \cup {msg.id}]
  ELSE [p EXCEPT !.spin = @ \ {msg.id}, !.result[msg.id] = shown]

\* The heading stays the one the section was rendered with.
RenderFinished(m, p, msg) ==
  [p EXCEPT !.sspin = @ \ {msg.id},
            !.final = IF m.sections[msg.id] # "none" THEN @ \cup {msg.id} ELSE @]

\* A finished text takes the place of the streaming area.
RenderTextBelow(p, msg) == AddChip(p, <<"text", msg.id>>)
RenderText(p, msg) == [AddChip(p, <<"text", msg.id>>) EXCEPT !.stream = 0]

RenderEvent(m, msg, p) ==
  CASE msg.type = "running" -> [p EXCEPT !.stream = 0]
    [] msg.type = "done" -> [p EXCEPT !.stream = 0, !.dots = FALSE]
    [] msg.type = "tool_use" -> RenderToolUse(p, msg)
    [] msg.type = "tool_result" -> RenderToolResult(m, p, msg)
    [] msg.type = "task_done" -> [p EXCEPT !.spin = @ \ {msg.id}]
    [] msg.type = "text" -> RenderText(p, msg)
    [] msg.type = "permission_request" ->
         IF OnPage(p, msg.id) THEN [p EXCEPT !.prompt = @ \cup {msg.id}] ELSE p
    [] msg.type = "subagent_started" ->
         [AddChip(p, Section(msg.id)) EXCEPT !.sspin = @ \cup {msg.id},
                                             !.head[msg.id] = msg.info]
    [] msg.type = "subagent_finished" -> RenderFinished(m, p, msg)
    [] msg.type = "session_started" -> [p EXCEPT !.alive = TRUE]
    [] msg.type = "session_ended" -> [p EXCEPT !.alive = FALSE]
    [] msg.type = "user_message" -> AddChip(p, <<"user", msg.id>>)
    [] OTHER -> p

ActiveCmdsRunning(m, p) == [p EXCEPT !.running = HasActivity(m)]
\* Activity adds the dots; its end does not take them away.
ActiveCmds(m, p) ==
  [p EXCEPT !.running = HasActivity(m), !.dots = @ \/ HasActivity(m),
            !.stop = CanInterrupt(m)]

\* One event of the model's goroutine: before and after are the model, the
\* activity is pushed when it has changed.
ProcessEvent(before, after, msg, p) ==
  LET rendered == RenderEvent(after, msg, p)
      changed == \/ HasActivity(after) # HasActivity(before)
                 \/ CanInterrupt(after) # CanInterrupt(before)
  IN IF changed THEN ActiveCmds(after, rendered) ELSE rendered

-----------------------------------------------------------------------------
(* A page load.                                                            *)

\* The chips a message of the log stands for.
ChipOf(msg) ==
  CASE msg.type = "tool_use" /\ msg.agent = None -> <<"tool", msg.id>>
    [] msg.type = "subagent_started" -> Section(msg.id)
    [] msg.type = "text" -> <<"text", msg.id>>
    [] msg.type = "user_message" -> <<"user", msg.id>>
    [] OTHER -> <<>>

RenderMessages(log) ==
  LET visible == SelectSeq(log, LAMBDA msg : ChipOf(msg) # <<>>)
  IN [i \in DOMAIN visible |-> ChipOf(visible[i])]

\* The tool uses of a section, which only a known section shows.
InnerEvents(m, log, a) ==
  LET uses == SelectSeq(log, LAMBDA msg : msg.type = "tool_use" /\ msg.agent = a)
  IN IF m.sections[a] = "none" THEN <<>>
     ELSE [i \in DOMAIN uses |-> uses[i].id]

InnerResult(log, t) ==
  LET rs == {i \in DOMAIN log : log[i].type = "tool_result" /\ log[i].id = t}
  IN IF rs = {} \/ log[CHOOSE i \in rs : TRUE].info = "empty" THEN "none"
     ELSE log[CHOOSE i \in rs : TRUE].info

\* The result nested in the chip of a main tool: not for background tasks,
\* for suppressed tools only if it is an image.
MainResult(m, t) ==
  IF \/ m.bg[t] # "none"
     \/ m.results[t] = "empty"
     \/ Suppressed(t) /\ m.results[t] # "images"
  THEN "none" ELSE m.results[t]

\* A section the model has forgotten has the heading it was started with.
Heading(m, log, a) ==
  LET starts == SelectSeq(log, LAMBDA msg : msg.type = "subagent_started" /\ msg.id = a)
  IN IF m.sections[a] = "none" /\ starts # <<>> THEN starts[1].info ELSE m.heads[a]

\* thinking: the fragments of thinking the session has accumulated.
RenderFull(m, log, thinking) ==
  LET chips == RenderMessages(log)
      body == [a \in Agents |-> InnerEvents(m, log, a)]
      used == {t \in Tools : <<"tool", t>> \in ToSet(chips)}
      inner == {t \in Inner : t \in ToSet(body[AgentOf[t]])}
      shown == {a \in Agents : Section(a) \in ToSet(chips)}
  IN [chips |-> chips, body |-> body,
      stream |-> thinking,
      spin   |-> {t \in used : IF m.bg[t] # "none" THEN m.bg[t] = "running"
                               ELSE m.results[t] = "none"},
      sspin  |-> {a \in shown : m.sections[a] # "finished"},
      result |-> [t \in AllTools |-> IF t \in used THEN MainResult(m, t)
                                     ELSE IF t \in inner THEN InnerResult(log, t)
                                     ELSE "none"],
      slot   |-> {t \in used : m.bg[t] # "none"},
      prompt |-> m.perms \cap (used \cup inner),
      final  |-> {a \in shown : m.sections[a] = "finished"},
      head   |-> [a \in Agents |-> Heading(m, log, a)],
      dots   |-> HasActivity(m) /\ thinking = 0,
      running |-> HasActivity(m), stop |-> CanInterrupt(m), alive |-> m.alive]
=============================================================================
