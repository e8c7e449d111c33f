--------------------------- MODULE BashStreamProofs --------------------------
(***************************************************************************)
(* A tool chip shows the output of its own command, for any number of      *)
(* commands and pages and whatever fails; and a page gets all of it that   *)
(* is written to the chip's buffer, for any number of readers, any size of *)
(* the buffer and any amount of output.                                    *)
(***************************************************************************)
EXTENDS BashStream, BashStreamBuffer, SequenceTheorems, TLAPS

Commands == {"no", "plain", "tested", "read", "streaming"}
Steps == {"off", "opened", "waiting", "reading", "ended", "refused"}

\* The types of the variables.
FieldTypes ==
  /\ {outstanding, connected, streamed, streamLines} \subseteq Tools \cup {None}
  /\ closed \subseteq Tools /\ signal \in Tools \cup {None, Blank}
  /\ signalled \subseteq Tools /\ early \subseteq Tools /\ together \subseteq Tools \X Tools
FlowTypes ==
  /\ events \in Seq([type : {"tool_use", "tool_result"}, tool : Tools])
  /\ background \in SUBSET MayDetach
  /\ handler \in [step : {"idle", "store", "create", "write"}, tool : Tools \cup {None}]
  /\ said \in [Tools -> {"no", "used", "over"}]
CommandTypes ==
  /\ cmd \in [Tools -> Commands] /\ claim \in [Tools -> Tools \cup {None}]
  /\ shell \in [Tools -> Shells] /\ conn \in [Tools -> Connections]
  /\ sink \in [Tools -> Tools \cup {None}]
PageTypes ==
  reader \in [Readers -> [step : Steps, tool : Tools \cup {None}, layout : Tools \cup {None},
                          buffer : Tools \cup {None}]]
Types == FieldTypes /\ FlowTypes /\ CommandTypes /\ PageTypes

\* monetdroid has handled the tool_use of t, and stored it.
Handled(t) == said[t] # "no" /\ ~ InEvents("tool_use", t)
IsStored(t) == Handled(t) /\ t \notin background /\ ~ (handler.step = "store" /\ handler.tool = t)

\* What claude says comes in the order of the tools.
EventsInOrder ==
  /\ \A i \in 1 .. Len(events) : said[events[i].tool] = "over" \/ (events[i].type = "tool_use" /\ said[events[i].tool] = "used")
  /\ \A i, j \in 1 .. Len(events) : i < j /\ events[i].type = "tool_use" /\ events[j].type = "tool_use" =>
       events[i].tool < events[j].tool
  /\ \A t, u \in Tools : t < u /\ said[u] # "no" =>
       said[t] # "no" /\ (InEvents("tool_use", t) => InEvents("tool_use", u))

\* The handler is at the last tool it took.
HandlerAtLast ==
  IF handler.step = "idle" THEN handler.tool = None
  ELSE /\ handler.tool \in Tools \ (background \cup signalled) /\ Handled(handler.tool)
       /\ \A u \in Tools : Handled(u) => u <= handler.tool

\* The session's fields are about tools that were stored, the outstanding one
\* and the lines about the last.  A tool that streams is under way, or another
\* command took its signal.
SessionRight ==
  /\ connected = outstanding
  /\ \A t \in {outstanding, streamLines} \ {None} : IsStored(t) /\ \A u \in Tools : IsStored(u) => u <= t
  /\ streamed # None => IsStored(streamed) /\ (UnderWay(streamed) \/ Taken(streamed))

\* A signal in the file is the last that was written.
SignalIsLast ==
  /\ \A t \in signalled : IsStored(t)
  /\ handler.step = "write" => signal \in {None, Blank}
  /\ signal \in Tools => signal \in signalled /\ \A t \in signalled : t <= signal

\* Where a command can be.
CommandsRight ==
  \A c \in Tools :
    /\ cmd[c] # "no" /\ c \notin early => c \in signalled
    /\ cmd[c] # "no" /\ c \notin background /\ ~ Ended(c) => said[c] = "used"
    /\ cmd[c] \in {"no", "plain", "tested"} => claim[c] = None
    /\ cmd[c] = "streaming" <=> conn[c] # "no"
    /\ conn[c] \in {"no", "post", "matched"} => sink[c] = None
    /\ conn[c] = "copy" => sink[c] # None
    /\ conn[c] \in {"no", "post", "matched", "copy", "drain"} \/ shell[c] = "closed" \/ conn[c] = "failed"

\* Tools that were under way at once were seen to be.
PairsSeen ==
  /\ \A t, u \in Tools : <<t, u>> \in together => t < u /\ IsStored(u)
  /\ \A t, u \in Tools : t < u /\ UnderWay(t) /\ IsStored(u) => <<t, u>> \in together
  /\ \A t, u, v \in Tools :
       <<t, v>> \in together /\ <<u, v>> \in together /\ t < u /\ u \notin background => <<t, u>> \in together

\* A command takes what belongs to another one that was stored while it ran.
TakesSeen == \A c, t \in Tools : Takes(c, t) => c \in early \/ <<c, t>> \in together

\* What a page has been given.
ReadersRight ==
  \A r \in Readers :
    LET t == reader[r].tool
        b == reader[r].buffer
        l == reader[r].layout
    IN
    /\ reader[r].step \notin {"off", "refused"} => t \in Tools \ background /\ (l \in {None, t} \/ Crowded(t) \/ Taken(t))
    /\ reader[r].step \in {"reading", "ended"} => b \in Tools /\ (b = t \/ <<t, b>> \in together \/ Taken(t))
    /\ reader[r].step = "ended" => Done(b)

Inv == /\ Types /\ EventsInOrder /\ HandlerAtLast /\ SessionRight /\ SignalIsLast
       /\ CommandsRight /\ PairsSeen /\ TakesSeen /\ ReadersRight

-----------------------------------------------------------------------------
(* How the tools get on.                                                   *)

\* What claude says is added, and what is handled is taken away.
LEMMA EventsMove ==
  ASSUME Types
  PROVE  /\ \A ty \in {"tool_use", "tool_result"}, u \in Tools :
              events' = Append(events, [type |-> ty, tool |-> u]) =>
                \A e \in {"tool_use", "tool_result"}, t \in Tools :
                  InEvents(e, t)' <=> InEvents(e, t) \/ (e = ty /\ t = u)
         /\ events # <<>> /\ events' = Tail(events) =>
                /\ Head(events) \in [type : {"tool_use", "tool_result"}, tool : Tools]
                /\ \A e \in {"tool_use", "tool_result"}, t \in Tools :
                     InEvents(e, t) <=> InEvents(e, t)' \/ (e = Head(events).type /\ t = Head(events).tool)
<1> DEFINE E == [type : {"tool_use", "tool_result"}, tool : Tools]
<1>1. events \in Seq(E)
  BY DEF Types, FlowTypes
<1>2. \A e \in {"tool_use", "tool_result"}, t \in Tools : \A x \in E :
        x = [type |-> e, tool |-> t] <=> e = x.type /\ t = x.tool
  OBVIOUS
<1>3. ASSUME NEW x \in E, events' = Append(events, x)
      PROVE  {events'[i] : i \in 1 .. Len(events')} = {events[i] : i \in 1 .. Len(events)} \cup {x}
  <2>1. Len(events') = Len(events) + 1 /\ events'[Len(events) + 1] = x
        /\ \A i \in 1 .. Len(events) : events'[i] = events[i]
    BY <1>1, <1>3
  <2> QED
    BY <1>1, <2>1
<1>4. ASSUME events # <<>>, events' = Tail(events)
      PROVE  /\ Head(events) \in E
             /\ {events[i] : i \in 1 .. Len(events)} = {events'[i] : i \in 1 .. Len(events')} \cup {Head(events)}
  <2>1. Head(events) = events[1] /\ Len(events) \in Nat \ {0} /\ events[1] \in E
    <3> HIDE DEF E
    <3>1. Len(events) \in Nat /\ Len(events) # 0
      BY <1>1, <1>4, EmptySeq
    <3> QED
      BY <1>1, <3>1, ElementOfSeq
  <2>2. Len(events') = Len(events) - 1 /\ \A i \in 1 .. Len(events') : events'[i] = events[i + 1]
    <3> HIDE DEF E
    <3>1. Len(Tail(events)) = Len(events) - 1 /\ \A i \in 1 .. Len(Tail(events)) : Tail(events)[i] = events[i + 1]
      BY <1>1, <1>4, HeadTailProperties
    <3>2. events' = Tail(events)
      BY <1>4
    <3> QED
      BY <3>1, <3>2, Zenon
  <2>3. \A i \in 1 .. Len(events) : i = 1 \/ (i - 1 \in 1 .. Len(events') /\ events[i] = events'[i - 1])
    BY <2>1, <2>2
  <2>4. \A i \in 1 .. Len(events') : i + 1 \in 1 .. Len(events)
    BY <2>1, <2>2
  <2>5. \A i \in 1 .. Len(events) : events[i] \in {events'[j] : j \in 1 .. Len(events')} \cup {Head(events)}
    BY <2>1, <2>3
  <2>6. \A i \in 1 .. Len(events') : events'[i] \in {events[j] : j \in 1 .. Len(events)}
    BY <2>2, <2>4
  <2>7. Head(events) \in {events[j] : j \in 1 .. Len(events)} /\ Head(events) \in E
    BY <2>1
  <2> HIDE DEF E
  <2> QED
    BY <2>5, <2>6, <2>7
<1>5. \A e \in {"tool_use", "tool_result"}, t \in Tools : [type |-> e, tool |-> t] \in E
  OBVIOUS
<1> HIDE DEF E
<1>6. ASSUME NEW ty \in {"tool_use", "tool_result"}, NEW u \in Tools,
             events' = Append(events, [type |-> ty, tool |-> u])
      PROVE  \A e \in {"tool_use", "tool_result"}, t \in Tools :
                  InEvents(e, t)' <=> InEvents(e, t) \/ (e = ty /\ t = u)
  BY <1>2, <1>3, <1>5, <1>6 DEF InEvents
<1>7. ASSUME events # <<>>, events' = Tail(events)
      PROVE  \A e \in {"tool_use", "tool_result"}, t \in Tools :
                     InEvents(e, t) <=> InEvents(e, t)' \/ (e = Head(events).type /\ t = Head(events).tool)
  BY <1>2, <1>4, <1>7 DEF InEvents
<1> QED
  BY <1>4, <1>6, <1>7 DEF E

\* The steps of a command, its streamer and its request, and those of a page.
Run(c) ==
  \/ Test(c) \/ ReadSignal(c) \/ RemoveSignal(c)
  \/ PrintOverlong(c) \/ ShellExits(c) \/ QuietShellExits(c) \/ CutShellExits(c)
  \/ RequestFails(c) \/ BreakRequest(c)
  \/ ConsumeOutstandingBash(c) \/ Drain(c) \/ TakeBuffer(c) \/ EndRequest(c)
Page(r) == (\E t \in Tools : OpenChip(r, t)) \/ AwaitBashStream(r) \/ Connected(r) \/ EndReading(r)
Handle == HandleToolUse \/ StoreOutstandingBash \/ CreateSignal \/ WriteSignal \/ SignalFails \/ HandleToolResult
Say(t) == Announce(t) \/ Report(t)

\* Whose step it is.
LEMMA NextSteps ==
  [Next]_vars <=> \/ \E t \in Tools : Say(t)
                  \/ Handle
                  \/ \E c \in Tools : Run(c)
                  \/ \E r \in Readers : Page(r)
                  \/ UNCHANGED vars
BY DEF Next, Say, Handle, Run, Page

\* What each of them leaves alone.
LEMMA SayFrame ==
  ASSUME NEW t \in Tools, Say(t)
  PROVE  UNCHANGED <<session, closed, signal, background, handler, cmd, streamer, reader, history>>
BY DEF Say, Announce, Report
\* The handler's.
LEMMA HandleFrame == Handle => UNCHANGED <<closed, said, background, cmd, streamer, reader, early>>
BY DEF Handle, HandleToolUse, StoreOutstandingBash, CreateSignal, WriteSignal, SignalFails, HandleToolResult,
       session, claude, history, streamer
\* A command's.
LEMMA RunFrame ==
  ASSUME NEW c \in Tools, Run(c)
  PROVE  UNCHANGED <<streamLines, claude, handler, reader, signalled, together>>
<1> USE DEF session, history, streamer
<1>1. CASE Test(c)
  BY <1>1 DEF Test
<1>2. CASE ReadSignal(c)
  BY <1>2 DEF ReadSignal
<1>3. CASE RemoveSignal(c)
  BY <1>3 DEF RemoveSignal
<1>4. CASE PrintOverlong(c) \/ ShellExits(c) \/ QuietShellExits(c) \/ CutShellExits(c)
  BY <1>4 DEF PrintOverlong, ShellExits, QuietShellExits, CutShellExits, ShellExitsFrom
<1>5. CASE RequestFails(c) \/ BreakRequest(c)
  BY <1>5 DEF RequestFails, BreakRequest
<1>6. CASE ConsumeOutstandingBash(c)
  BY <1>6 DEF ConsumeOutstandingBash, ConsumeAs
<1>7. CASE Drain(c) \/ TakeBuffer(c) \/ EndRequest(c)
  BY <1>7 DEF Drain, TakeBuffer, EndRequest
<1> QED
  BY <1>1, <1>2, <1>3, <1>4, <1>5, <1>6, <1>7 DEF Run
\* A page's.
LEMMA PageFrame ==
  ASSUME NEW r \in Readers, Page(r)
  PROVE  UNCHANGED <<session, closed, signal, claude, handler, cmd, streamer, history>>
BY DEF Page, OpenChip, AwaitBashStream, Connected, EndReading

\* A command moves no other, and has the signal and the buffer it took for good.
LEMMA RunMoves ==
  ASSUME Types, CommandsRight, NEW c \in Tools, Run(c)
  PROVE  /\ \A d \in Tools : d # c => /\ cmd'[d] = cmd[d] /\ claim'[d] = claim[d] /\ shell'[d] = shell[d]
                                      /\ conn'[d] = conn[d] /\ sink'[d] = sink[d]
         /\ claim[c] # None => claim'[c] = claim[c]
         /\ sink[c] # None => sink'[c] = sink[c]
         /\ conn[c] \in {"answered", "failed"} => conn'[c] = conn[c]
         /\ early \subseteq early'
<1> USE DEF streamer, history, Types, CommandTypes, FieldTypes, CommandsRight
<1>1. CASE Test(c)
  BY <1>1 DEF Test
<1>2. CASE ReadSignal(c)
  BY <1>2 DEF ReadSignal
<1>3. CASE RemoveSignal(c)
  BY <1>3 DEF RemoveSignal
<1>4. CASE PrintOverlong(c) \/ ShellExits(c) \/ QuietShellExits(c) \/ CutShellExits(c)
  BY <1>4 DEF PrintOverlong, ShellExits, QuietShellExits, CutShellExits, ShellExitsFrom
<1>5. CASE RequestFails(c) \/ BreakRequest(c)
  BY <1>5 DEF RequestFails, BreakRequest
<1>6. CASE ConsumeOutstandingBash(c)
  BY <1>6 DEF ConsumeOutstandingBash, ConsumeAs
<1>7. CASE Drain(c) \/ EndRequest(c)
  BY <1>7 DEF Drain, EndRequest
<1>8. CASE TakeBuffer(c)
  BY <1>8 DEF TakeBuffer
<1> QED
  BY <1>1, <1>2, <1>3, <1>4, <1>5, <1>6, <1>7, <1>8 DEF Run

Becomes(r, st, t, l, b) ==
  reader' = [reader EXCEPT ![r] = [step |-> st, tool |-> t, layout |-> l, buffer |-> b]]

\* What a page is given: the layout of a chip, the channel of the outstanding
\* tool or the lines of the one that streams; or nothing.
LEMMA PageMoves ==
  ASSUME Types, NEW r \in Readers, Page(r)
  PROVE  LET R == reader[r] IN
         \/ \E t \in Tools : OpenChip(r, t) /\ Becomes(r, "opened", t, CmdForTool(t), R.buffer)
         \/ /\ R.step \in {"opened", "waiting"} /\ Stream(R.tool)
            /\ Becomes(r, "reading", R.tool, R.layout, streamLines)
         \/ R.step = "opened" /\ Becomes(r, "waiting", R.tool, R.layout, connected)
         \/ Becomes(r, "refused", None, None, None)
         \/ R.step = "reading" /\ Done(R.buffer) /\ Becomes(r, "ended", R.tool, R.layout, R.buffer)
<1> DEFINE R == [step |-> reader[r].step, tool |-> reader[r].tool, layout |-> reader[r].layout, buffer |-> reader[r].buffer]
<1>1. reader[r] = R /\ reader = [q \in Readers |-> reader[q]]
  BY DEF Types, PageTypes
<1>2. \A x : [reader EXCEPT ![r].step = x] = [reader EXCEPT ![r] = [R EXCEPT !.step = x]]
  BY <1>1
<1>3. CASE \E t \in Tools : OpenChip(r, t)
  <2>1. PICK t \in Tools : OpenChip(r, t)
    BY <1>3
  <2>2. [[[R EXCEPT !.step = "opened"] EXCEPT !.tool = t] EXCEPT !.layout = CmdForTool(t)]
          = [step |-> "opened", tool |-> t, layout |-> CmdForTool(t), buffer |-> reader[r].buffer]
    <3>1. [R EXCEPT !.step = "opened"] = [step |-> "opened", tool |-> reader[r].tool, layout |-> reader[r].layout, buffer |-> reader[r].buffer]
      OBVIOUS
    <3>2. [[step |-> "opened", tool |-> reader[r].tool, layout |-> reader[r].layout, buffer |-> reader[r].buffer] EXCEPT !.tool = t]
            = [step |-> "opened", tool |-> t, layout |-> reader[r].layout, buffer |-> reader[r].buffer]
      OBVIOUS
    <3>3. [[step |-> "opened", tool |-> t, layout |-> reader[r].layout, buffer |-> reader[r].buffer] EXCEPT !.layout = CmdForTool(t)]
            = [step |-> "opened", tool |-> t, layout |-> CmdForTool(t), buffer |-> reader[r].buffer]
      OBVIOUS
    <3> QED
      BY <3>1, <3>2, <3>3
  <2> HIDE DEF R
  <2>3. reader' = [reader EXCEPT ![r] = [[[R EXCEPT !.step = "opened"] EXCEPT !.tool = t] EXCEPT !.layout = CmdForTool(t)]]
    BY <1>1, <2>1 DEF OpenChip
  <2> QED
    BY <2>1, <2>2, <2>3 DEF Becomes
<1>4. ASSUME NEW x, NEW y, reader' = [reader EXCEPT ![r].step = x, ![r].buffer = y]
      PROVE  Becomes(r, x, reader[r].tool, reader[r].layout, y)
  <2>1. [[R EXCEPT !.step = x] EXCEPT !.buffer = y]
          = [step |-> x, tool |-> reader[r].tool, layout |-> reader[r].layout, buffer |-> y]
    <3>1. [R EXCEPT !.step = x] = [step |-> x, tool |-> reader[r].tool, layout |-> reader[r].layout, buffer |-> reader[r].buffer]
      OBVIOUS
    <3>2. [[step |-> x, tool |-> reader[r].tool, layout |-> reader[r].layout, buffer |-> reader[r].buffer] EXCEPT !.buffer = y]
            = [step |-> x, tool |-> reader[r].tool, layout |-> reader[r].layout, buffer |-> y]
      OBVIOUS
    <3> QED
      BY <3>1, <3>2
  <2> HIDE DEF R
  <2>2. reader' = [reader EXCEPT ![r] = [[R EXCEPT !.step = x] EXCEPT !.buffer = y]]
    BY <1>1, <1>4
  <2> QED
    BY <2>1, <2>2 DEF Becomes
<1>5. ASSUME reader' = Refused(r) PROVE Becomes(r, "refused", None, None, None)
  <2>1. [NoReader EXCEPT !.step = "refused"] = [step |-> "refused", tool |-> None, layout |-> None, buffer |-> None]
    BY DEF NoReader
  <2> QED
    BY <1>5, <2>1 DEF Refused, Becomes
<1>6. CASE AwaitBashStream(r)
  <2>1. \/ Stream(reader[r].tool) /\ reader' = [reader EXCEPT ![r].step = "reading", ![r].buffer = streamLines]
        \/ reader' = [reader EXCEPT ![r].step = "waiting", ![r].buffer = connected]
        \/ reader' = Refused(r)
    BY <1>6 DEF AwaitBashStream, Attached
  <2>2. reader[r].step = "opened"
    BY <1>6 DEF AwaitBashStream
  <2> QED
    BY <1>4, <1>5, <2>1, <2>2
<1>7. CASE Connected(r)
  <2>1. \/ Stream(reader[r].tool) /\ reader' = [reader EXCEPT ![r].step = "reading", ![r].buffer = streamLines]
        \/ reader' = Refused(r)
    BY <1>7 DEF Connected, Attached
  <2>2. reader[r].step = "waiting"
    BY <1>7 DEF Connected
  <2> QED
    BY <1>4, <1>5, <2>1, <2>2
<1>8. CASE EndReading(r)
  <2>1. [R EXCEPT !.step = "ended"] = [step |-> "ended", tool |-> reader[r].tool, layout |-> reader[r].layout, buffer |-> reader[r].buffer]
    OBVIOUS
  <2> HIDE DEF R
  <2> QED
    BY <1>2, <1>8, <2>1 DEF EndReading, Becomes
<1> QED
  BY <1>3, <1>6, <1>7, <1>8 DEF Page

\* The types stay.
LEMMA TypesInductive ==
  ASSUME Types, HandlerAtLast, [Next]_vars
  PROVE  Types'
<1> USE BashStreamAssumption
<1>1. ASSUME NEW t \in Tools, Say(t) PROVE Types'
  <2> USE DEF Types, FlowTypes
  <2>1. FlowTypes'
    <3>1. \A ty \in {"tool_use", "tool_result"} :
            Append(events, [type |-> ty, tool |-> t]) \in Seq([type : {"tool_use", "tool_result"}, tool : Tools])
      OBVIOUS
    <3>2. CASE Announce(t)
      BY <3>1, <3>2 DEF Announce
    <3>3. CASE Report(t)
      BY <3>1, <3>3 DEF Report
    <3> QED
      BY <1>1, <3>2, <3>3 DEF Say
  <2>2. UNCHANGED <<session, closed, signal, background, handler, cmd, streamer, reader, history>>
    BY <1>1, SayFrame
  <2>3. FieldTypes'
    BY <2>2 DEF FieldTypes, session, history
  <2>4. CommandTypes' /\ PageTypes'
    BY <2>2 DEF CommandTypes, PageTypes, streamer
  <2> QED
    BY <2>1, <2>3, <2>4
<1>2. ASSUME Handle PROVE Types'
  <2> USE DEF Types, session, claude, history, streamer
  <2>1. FieldTypes'
    <3> USE DEF FieldTypes, HandlerAtLast
    <3>1. CASE HandleToolUse
      BY <3>1 DEF HandleToolUse
    <3>2. CASE StoreOutstandingBash
      <4>1. handler.tool \in Tools
        BY <3>2 DEF StoreOutstandingBash
      <4>2. together' \subseteq Tools \X Tools
        BY <3>2, <4>1 DEF StoreOutstandingBash
      <4> QED
        BY <3>2, <4>1, <4>2 DEF StoreOutstandingBash
    <3>3. CASE CreateSignal
      BY <3>3 DEF CreateSignal
    <3>4. CASE WriteSignal
      <4>1. handler.tool \in Tools
        BY <3>4 DEF WriteSignal
      <4> QED
        BY <3>4, <4>1 DEF WriteSignal
    <3>5. CASE SignalFails
      BY <3>5 DEF SignalFails
    <3>6. CASE HandleToolResult
      BY <3>6 DEF HandleToolResult
    <3> QED
      BY <1>2, <3>1, <3>2, <3>3, <3>4, <3>5, <3>6 DEF Handle
  <2>2. FlowTypes'
    <3> USE DEF FlowTypes
    <3>1. ASSUME events # <<>>, events' = Tail(events)
          PROVE  /\ events' \in Seq([type : {"tool_use", "tool_result"}, tool : Tools])
                 /\ Head(events).tool \in Tools
      BY <3>1, EventsMove, HeadTailProperties
    <3>2. CASE HandleToolUse
      BY <3>1, <3>2 DEF HandleToolUse, Comes, Idle
    <3>3. CASE StoreOutstandingBash
      BY <3>3 DEF StoreOutstandingBash
    <3>4. CASE CreateSignal
      BY <3>4 DEF CreateSignal
    <3>5. CASE WriteSignal \/ SignalFails
      <4>1. handler' = Idle /\ UNCHANGED claude
        BY <3>5 DEF WriteSignal, SignalFails
      <4> QED
        BY <4>1 DEF Idle
    <3>6. CASE HandleToolResult
      BY <3>1, <3>6 DEF HandleToolResult, Comes
    <3> QED
      BY <1>2, <3>2, <3>3, <3>4, <3>5, <3>6 DEF Handle
  <2>3. CommandTypes' /\ PageTypes'
    BY <1>2, HandleFrame DEF CommandTypes, PageTypes
  <2> QED
    BY <2>1, <2>2, <2>3
<1>3. ASSUME NEW c \in Tools, Run(c) PROVE Types'
  <2> USE DEF Types, session, streamer, history
  <2>1. FlowTypes' /\ PageTypes'
    BY <1>3, RunFrame DEF FlowTypes, PageTypes, claude
  <2>2. CASE Test(c)
    BY <2>1, <2>2 DEF Test, FieldTypes, CommandTypes, Commands
  <2>3. CASE ReadSignal(c)
    BY <2>1, <2>3 DEF ReadSignal, FieldTypes, CommandTypes, Commands
  <2>4. CASE RemoveSignal(c)
    BY <2>1, <2>4 DEF RemoveSignal, FieldTypes, CommandTypes, Commands, Connections
  <2>5. ASSUME NEW x \in Shells, shell' = [shell EXCEPT ![c] = x],
               UNCHANGED <<session, closed, signal, cmd, claim, conn, sink, history>>
        PROVE  Types'
    BY <2>1, <2>5 DEF FieldTypes, CommandTypes
  <2>6. CASE PrintOverlong(c)
    BY <2>5, <2>6 DEF PrintOverlong, Shells
  <2>7. CASE ShellExits(c) \/ QuietShellExits(c) \/ CutShellExits(c)
    BY <2>5, <2>7 DEF ShellExits, QuietShellExits, CutShellExits, ShellExitsFrom, Shells
  <2>8. ASSUME NEW x \in Connections, conn' = [conn EXCEPT ![c] = x],
               UNCHANGED <<session, closed, signal, cmd, claim, shell, sink, history>>
        PROVE  Types'
    BY <2>1, <2>8 DEF FieldTypes, CommandTypes
  <2>9. CASE RequestFails(c) \/ BreakRequest(c)
    BY <2>8, <2>9 DEF RequestFails, BreakRequest, Connections
  <2>10. CASE Drain(c) \/ EndRequest(c)
    BY <2>8, <2>10 DEF Drain, EndRequest, Connections
  <2>11. CASE ConsumeOutstandingBash(c)
    BY <2>1, <2>11 DEF ConsumeOutstandingBash, ConsumeAs, FieldTypes, CommandTypes, Connections
  <2>12. CASE TakeBuffer(c)
    BY <2>1, <2>12 DEF TakeBuffer, FieldTypes, CommandTypes, Connections
  <2> QED
    BY <1>3, <2>2, <2>3, <2>4, <2>6, <2>7, <2>9, <2>10, <2>11, <2>12 DEF Run
<1>4. ASSUME NEW r \in Readers, Page(r) PROVE Types'
  <2>1. PageTypes'
    <3>1. PICK st \in Steps, t \in Tools \cup {None}, l \in Tools \cup {None}, b \in Tools \cup {None} :
            Becomes(r, st, t, l, b)
      <4>1. /\ reader[r].tool \in Tools \cup {None} /\ reader[r].layout \in Tools \cup {None}
            /\ reader[r].buffer \in Tools \cup {None}
            /\ streamLines \in Tools \cup {None} /\ connected \in Tools \cup {None}
            /\ \A t \in Tools : CmdForTool(t) \in Tools \cup {None}
        BY DEF Types, PageTypes, FieldTypes, CmdForTool
      <4>2. {"opened", "waiting", "reading", "refused", "ended"} \subseteq Steps
        BY DEF Steps
      <4> QED
        BY <1>4, <4>1, <4>2, PageMoves
    <3> QED
      BY <3>1 DEF Becomes, Types, PageTypes
  <2>2. FieldTypes' /\ FlowTypes' /\ CommandTypes'
    <3>1. UNCHANGED <<session, closed, signal, claude, handler, cmd, streamer, history>>
      BY <1>4, PageFrame
    <3>2. FieldTypes'
      BY <3>1 DEF Types, FieldTypes, session, history
    <3>3. FlowTypes'
      BY <3>1 DEF Types, FlowTypes, claude
    <3>4. CommandTypes'
      BY <3>1 DEF Types, CommandTypes, streamer
    <3> QED
      BY <3>2, <3>3, <3>4
  <2> QED
    BY <2>1, <2>2 DEF Types
<1>5. CASE UNCHANGED vars
  BY <1>5 DEF Types, FieldTypes, FlowTypes, CommandTypes, PageTypes, vars, session, claude, streamer, history
<1> QED
  BY <1>1, <1>2, <1>3, <1>4, <1>5, NextSteps

\* What was said, and in what order it was, still is.
LEMMA EventsInductive ==
  ASSUME Types, EventsInOrder, [Next]_vars
  PROVE  EventsInOrder'
<1> DEFINE E == [type : {"tool_use", "tool_result"}, tool : Tools]
<1>1. events \in Seq(E) /\ said \in [Tools -> {"no", "used", "over"}] /\ Tools \subseteq Nat
  BY BashStreamAssumption DEF Types, FlowTypes
<1>2. \A t \in Tools : InEvents("tool_use", t) <=>
        \E i \in 1 .. Len(events) : events[i].type = "tool_use" /\ events[i].tool = t
  <2>1. \A i \in 1 .. Len(events) : events[i] \in E
    <3> HIDE DEF E
    <3> QED
      BY <1>1, ElementOfSeq
  <2> QED
    BY <2>1 DEF InEvents
<1>3. \A i \in 1 .. Len(events) : events[i].tool \in Tools
  <2>1. \A i \in 1 .. Len(events) : events[i] \in E
    <3> HIDE DEF E
    <3> QED
      BY <1>1, ElementOfSeq
  <2> QED
    BY <2>1
<1>4. ASSUME NEW t \in Tools, NEW ty \in {"tool_use", "tool_result"},
             events' = Append(events, [type |-> ty, tool |-> t])
      PROVE  /\ Len(events) \in Nat /\ Len(events') = Len(events) + 1
             /\ events'[Len(events) + 1].type = ty /\ events'[Len(events) + 1].tool = t
             /\ \A i \in 1 .. Len(events) : events'[i] = events[i]
             /\ \A i \in 1 .. Len(events') : i \in 1 .. Len(events) \/ i = Len(events) + 1
  BY <1>1, <1>4
<1>5. ASSUME NEW t \in Tools, Announce(t) PROVE EventsInOrder'
  <2>1. said[t] = "no" /\ \A u \in Tools : u < t => said[u] # "no"
    BY <1>5 DEF Announce
  <2>2. said'[t] = "used" /\ \A u \in Tools : u # t => said'[u] = said[u]
    BY <1>1, <1>5 DEF Announce
  <2>3. events' = Append(events, [type |-> "tool_use", tool |-> t])
    BY <1>5 DEF Announce
  <2>4. \A i \in 1 .. Len(events) : events[i].tool < t
    <3>1. \A u \in Tools : said[u] # "no" => u # t /\ ~ (t < u)
      BY <2>1 DEF EventsInOrder
    <3>2. \A u \in Tools : u # t /\ ~ (t < u) => u < t
      BY <1>1
    <3>3. \A i \in 1 .. Len(events) : said[events[i].tool] # "no"
      BY DEF EventsInOrder
    <3> QED
      BY <1>3, <3>1, <3>2, <3>3
  <2>5. \A e \in {"tool_use", "tool_result"}, u \in Tools : InEvents(e, u)' <=> InEvents(e, u) \/ (e = "tool_use" /\ u = t)
    BY <2>3, EventsMove
  <2>6. \A i \in 1 .. Len(events') :
          said'[events'[i].tool] = "over" \/ (events'[i].type = "tool_use" /\ said'[events'[i].tool] = "used")
    <3>1. \A i \in 1 .. Len(events) : events[i].tool # t
      BY <1>1, <1>3, <2>1 DEF EventsInOrder
    <3> QED
      BY <1>3, <1>4, <2>2, <2>3, <3>1 DEF EventsInOrder
  <2>7. \A i, j \in 1 .. Len(events') : i < j /\ events'[i].type = "tool_use" /\ events'[j].type = "tool_use" =>
          events'[i].tool < events'[j].tool
    BY <1>4, <2>3, <2>4 DEF EventsInOrder
  <2>8. \A u, w \in Tools : u < w /\ said'[w] # "no" =>
          said'[u] # "no" /\ (InEvents("tool_use", u)' => InEvents("tool_use", w)')
    <3>1. \A u, w \in Tools : u < w => u # w
      BY <1>1
    <3>2. \A w \in Tools : InEvents("tool_use", w)' <=> InEvents("tool_use", w) \/ w = t
      BY <2>5
    <3>3. \A w \in Tools : said[w] # "no" => ~ (t < w)
      BY <2>1 DEF EventsInOrder
    <3> QED
      BY <2>1, <2>2, <3>1, <3>2, <3>3 DEF EventsInOrder
  <2> QED
    BY <2>6, <2>7, <2>8 DEF EventsInOrder
<1>6. ASSUME NEW t \in Tools, Report(t) PROVE EventsInOrder'
  <2>1. said[t] = "used" /\ said'[t] = "over" /\ \A u \in Tools : u # t => said'[u] = said[u]
    BY <1>1, <1>6 DEF Report
  <2>2. events' = Append(events, [type |-> "tool_result", tool |-> t])
    BY <1>6 DEF Report
  <2>3. \A u \in Tools : InEvents("tool_use", u)' <=> InEvents("tool_use", u)
    BY <2>2, EventsMove
  <2>4. \A i \in 1 .. Len(events') :
          said'[events'[i].tool] = "over" \/ (events'[i].type = "tool_use" /\ said'[events'[i].tool] = "used")
    BY <1>3, <1>4, <2>1, <2>2 DEF EventsInOrder
  <2>5. \A i, j \in 1 .. Len(events') : i < j /\ events'[i].type = "tool_use" /\ events'[j].type = "tool_use" =>
          events'[i].tool < events'[j].tool
    BY <1>4, <2>2 DEF EventsInOrder
  <2>6. \A u, w \in Tools : u < w /\ said'[w] # "no" =>
          said'[u] # "no" /\ (InEvents("tool_use", u)' => InEvents("tool_use", w)')
    BY <2>1, <2>3 DEF EventsInOrder
  <2> QED
    BY <2>4, <2>5, <2>6 DEF EventsInOrder
<1>7. ASSUME events # <<>>, events' = Tail(events), said' = said PROVE EventsInOrder'
  <2>1. /\ Len(events) \in Nat \ {0} /\ Len(events') = Len(events) - 1 /\ Head(events) = events[1]
        /\ \A i \in 1 .. Len(events') : events'[i] = events[i + 1] /\ i + 1 \in 1 .. Len(events)
    <3>1. Len(events) \in Nat \ {0}
      BY <1>1, <1>7, EmptySeq
    <3> QED
      BY <1>1, <1>7, <3>1
  <2>2. \A i \in 1 .. Len(events') :
          said'[events'[i].tool] = "over" \/ (events'[i].type = "tool_use" /\ said'[events'[i].tool] = "used")
    BY <1>7, <2>1 DEF EventsInOrder
  <2>3. \A i, j \in 1 .. Len(events') : i < j /\ events'[i].type = "tool_use" /\ events'[j].type = "tool_use" =>
          events'[i].tool < events'[j].tool
    <3>1. \A i, j \in 1 .. Len(events) : i < j /\ events[i].type = "tool_use" /\ events[j].type = "tool_use" =>
            events[i].tool < events[j].tool
      BY DEF EventsInOrder
    <3>2. \A i, j \in 1 .. Len(events') : i < j => i + 1 < j + 1
      BY <2>1
    <3> QED
      BY <2>1, <3>1, <3>2
  <2>4. \A u, w \in Tools : u < w /\ said'[w] # "no" =>
          said'[u] # "no" /\ (InEvents("tool_use", u)' => InEvents("tool_use", w)')
    <3> SUFFICES ASSUME NEW u \in Tools, NEW w \in Tools, u < w, said[w] # "no"
                 PROVE  said[u] # "no" /\ (InEvents("tool_use", u)' => InEvents("tool_use", w)')
      BY <1>7
    <3>1. said[u] # "no" /\ (InEvents("tool_use", u) => InEvents("tool_use", w))
      BY DEF EventsInOrder
    <3>2. /\ InEvents("tool_use", u)' => InEvents("tool_use", u)
          /\ InEvents("tool_use", w) => InEvents("tool_use", w)' \/ ("tool_use" = Head(events).type /\ w = Head(events).tool)
      BY <1>7, EventsMove
    <3>3. ASSUME "tool_use" = events[1].type, w = events[1].tool, InEvents("tool_use", u)
          PROVE  FALSE
      <4>1. PICK i \in 1 .. Len(events) : events[i].type = "tool_use" /\ events[i].tool = u
        BY <1>2, <3>3
      <4>2. CASE i = 1
        BY <1>1, <3>3, <4>1, <4>2
      <4>3. CASE i # 1
        <5>1. events[1].tool < events[i].tool
          BY <2>1, <3>3, <4>1, <4>3 DEF EventsInOrder
        <5> QED
          BY <1>1, <3>3, <4>1, <5>1
      <4> QED
        BY <4>2, <4>3
    <3> QED
      BY <2>1, <3>1, <3>2, <3>3
  <2> QED
    BY <2>2, <2>3, <2>4 DEF EventsInOrder
<1>8. ASSUME UNCHANGED <<events, said>> PROVE EventsInOrder'
  BY <1>8 DEF EventsInOrder, InEvents
<1>9. CASE Handle
  <2>1. CASE HandleToolUse \/ HandleToolResult
    BY <1>7, <2>1 DEF HandleToolUse, HandleToolResult, Comes
  <2>2. CASE StoreOutstandingBash \/ CreateSignal \/ WriteSignal \/ SignalFails
    BY <1>8, <2>2 DEF StoreOutstandingBash, CreateSignal, WriteSignal, SignalFails, claude
  <2> QED
    BY <1>9, <2>1, <2>2 DEF Handle
<1>10. ASSUME NEW c \in Tools, Run(c) PROVE EventsInOrder'
  BY <1>8, <1>10, RunFrame DEF claude
<1>11. ASSUME NEW r \in Readers, Page(r) PROVE EventsInOrder'
  BY <1>8, <1>11, PageFrame DEF claude
<1>12. CASE UNCHANGED vars
  BY <1>8, <1>12 DEF vars, claude
<1> QED
  BY <1>5, <1>6, <1>9, <1>10, <1>11, <1>12, NextSteps DEF Say

\* Every tool is where it was.
Still == \A t \in Tools : /\ Handled(t)' <=> Handled(t)
                          /\ IsStored(t)' <=> IsStored(t)
                          /\ UnderWay(t)' <=> UnderWay(t)

\* claude's steps show only once they are handled.
LEMMA SayStill ==
  ASSUME Types, EventsInOrder, NEW t \in Tools, Say(t)
  PROVE  Still
<1>1. background' = background /\ handler' = handler /\ said \in [Tools -> {"no", "used", "over"}]
  BY SayFrame DEF Types, FlowTypes
<1>2. \A u \in Tools : InEvents("tool_use", u) \/ InEvents("tool_result", u) => said[u] # "no"
  <2>1. \A i \in 1 .. Len(events) : said[events[i].tool] # "no"
    BY DEF EventsInOrder
  <2>2. \A u \in Tools, ty \in {"tool_use", "tool_result"} : InEvents(ty, u) =>
          \E i \in 1 .. Len(events) : events[i].tool = u
    BY DEF InEvents
  <2> QED
    BY <2>1, <2>2
<1>3. CASE Announce(t)
  <2>1. said[t] = "no" /\ said'[t] = "used" /\ \A u \in Tools : u # t => said'[u] = said[u]
    BY <1>1, <1>3 DEF Announce
  <2>2. \A e \in {"tool_use", "tool_result"}, u \in Tools : InEvents(e, u)' <=> InEvents(e, u) \/ (e = "tool_use" /\ u = t)
    BY <1>3, EventsMove DEF Announce
  <2>3. \A u \in Tools : Handled(u)' <=> Handled(u)
    BY <2>1, <2>2 DEF Handled
  <2>4. \A u \in Tools : UnderWay(u)' <=> UnderWay(u)
    BY <1>2, <2>1, <2>2 DEF UnderWay
  <2> QED
    BY <1>1, <2>3, <2>4 DEF Still, IsStored
<1>4. CASE Report(t)
  <2>1. said[t] = "used" /\ said'[t] = "over" /\ \A u \in Tools : u # t => said'[u] = said[u]
    BY <1>1, <1>4 DEF Report
  <2>2. \A e \in {"tool_use", "tool_result"}, u \in Tools : InEvents(e, u)' <=> InEvents(e, u) \/ (e = "tool_result" /\ u = t)
    BY <1>4, EventsMove DEF Report
  <2>3. \A u \in Tools : Handled(u)' <=> Handled(u)
    BY <2>1, <2>2 DEF Handled
  <2>4. \A u \in Tools : UnderWay(u)' <=> UnderWay(u)
    BY <2>1, <2>2 DEF UnderWay
  <2> QED
    BY <1>1, <2>3, <2>4 DEF Still, IsStored
<1> QED
  BY <1>3, <1>4 DEF Say

\* The tool_use that is handled is that of the last tool so far.
LEMMA UseFlow ==
  ASSUME Types, EventsInOrder, HandlerAtLast, HandleToolUse
  PROVE  /\ Head(events).tool \in Tools /\ ~ Handled(Head(events).tool)
         /\ \A u \in Tools : Handled(u) => u < Head(events).tool
         /\ \A u \in Tools : Handled(u)' <=> Handled(u) \/ u = Head(events).tool
         /\ \A u \in Tools : IsStored(u)' <=> IsStored(u)
         /\ \A u \in Tools : UnderWay(u) => UnderWay(u)'
         /\ \A u \in Tools : UnderWay(u)' => UnderWay(u) \/ u = Head(events).tool
<1> DEFINE E == [type : {"tool_use", "tool_result"}, tool : Tools]
<1>0. PICK t \in Tools : t = Head(events).tool
  BY EventsMove DEF HandleToolUse, Comes
<1>1. /\ events \in Seq(E) /\ events # <<>> /\ Head(events).type = "tool_use" /\ handler = Idle
      /\ events' = Tail(events) /\ said' = said /\ background' = background
      /\ handler' = IF t \in background THEN Idle ELSE [step |-> "store", tool |-> t]
  BY <1>0 DEF HandleToolUse, Comes, Types, FlowTypes
<1>2. Len(events) \in Nat \ {0} /\ Head(events) = events[1] /\ t = events[1].tool
  <2>1. Len(events) \in Nat \ {0}
    BY <1>1, EmptySeq
  <2> QED
    BY <1>0, <1>1, <2>1
<1>3. Tools \subseteq Nat
  BY BashStreamAssumption
<1>4. \A e \in {"tool_use", "tool_result"}, u \in Tools :
        InEvents(e, u) <=> InEvents(e, u)' \/ (e = "tool_use" /\ u = t)
  BY <1>0, <1>1, EventsMove
<1>5. \A i \in 1 .. Len(events) : events[i].type = "tool_use" /\ i # 1 => t < events[i].tool
  BY <1>1, <1>2 DEF EventsInOrder
<1>6. ~ InEvents("tool_use", t)'
  <2> SUFFICES ASSUME NEW i \in 1 .. Len(events'), [type |-> "tool_use", tool |-> t] = events'[i]
               PROVE  FALSE
    BY DEF InEvents
  <2>1. i + 1 \in 1 .. Len(events) /\ events'[i] = events[i + 1]
    BY <1>1, <1>2
  <2>2. events[i + 1].type = "tool_use" /\ events[i + 1].tool = t
    BY <2>1
  <2> QED
    BY <1>2, <1>3, <1>5, <2>1, <2>2
<1>7. said[t] # "no"
  BY <1>2 DEF EventsInOrder
<1> HIDE DEF E
<1>8. \A u \in Tools : Handled(u) => u < t
  <2>1. \A u \in Tools : Handled(u) => u # t /\ ~ (t < u)
    BY <1>2, <1>4 DEF Handled, EventsInOrder
  <2>2. \A u \in Tools : u # t /\ ~ (t < u) => u < t
    BY <1>2, <1>3
  <2> QED
    BY <2>1, <2>2
<1>9. \A u \in Tools : Handled(u)' <=> Handled(u) \/ u = t
  BY <1>1, <1>4, <1>6, <1>7 DEF Handled
<1>10. ~ Handled(t)
  BY <1>2, <1>4 DEF Handled
<1>11. \A u \in Tools : IsStored(u)' <=> IsStored(u)
  <2>1. handler.step = "idle"
    BY <1>1 DEF Idle
  <2>2. CASE t \in background
    BY <1>1, <1>9, <1>10, <2>1, <2>2 DEF IsStored, Idle
  <2>3. CASE t \notin background
    <3>1. handler'.step = "store" /\ handler'.tool = t
      BY <1>1, <2>3
    <3> QED
      BY <1>1, <1>9, <1>10, <2>1, <3>1 DEF IsStored
  <2> QED
    BY <2>2, <2>3
<1>12. \A u \in Tools : UnderWay(u) => UnderWay(u)'
  BY <1>1, <1>4 DEF UnderWay
<1>13. \A u \in Tools : UnderWay(u)' => UnderWay(u) \/ u = t
  BY <1>1, <1>4 DEF UnderWay
<1> QED
  BY <1>0, <1>8, <1>9, <1>10, <1>11, <1>12, <1>13

\* Storing a tool makes it stored.
LEMMA StoreFlow ==
  ASSUME Types, HandlerAtLast, StoreOutstandingBash
  PROVE  /\ handler.tool \in Tools /\ ~ IsStored(handler.tool)
         /\ \A u \in Tools : Handled(u)' <=> Handled(u)
         /\ \A u \in Tools : IsStored(u)' <=> IsStored(u) \/ u = handler.tool
         /\ \A u \in Tools : UnderWay(u)' <=> UnderWay(u)
<1>1. /\ handler.step = "store" /\ handler.tool \in Tools \ background /\ Handled(handler.tool)
      /\ events' = events /\ said' = said /\ background' = background
      /\ handler'.step = "create" /\ handler'.tool = handler.tool
  BY DEF StoreOutstandingBash, HandlerAtLast, claude, Types, FlowTypes
<1>2. \A e \in {"tool_use", "tool_result"}, u \in Tools : InEvents(e, u)' <=> InEvents(e, u)
  BY <1>1 DEF InEvents
<1>3. \A u \in Tools : Handled(u)' <=> Handled(u)
  BY <1>1, <1>2 DEF Handled
<1>4. \A u \in Tools : UnderWay(u)' <=> UnderWay(u)
  BY <1>1, <1>2 DEF UnderWay
<1> QED
  BY <1>1, <1>3, <1>4 DEF IsStored

\* A tool whose result is handled is under way no more.
LEMMA ResultFlow ==
  ASSUME Types, HandleToolResult
  PROVE  /\ Head(events).tool \in Tools
         /\ \A u \in Tools : Handled(u)' <=> Handled(u)
         /\ \A u \in Tools : IsStored(u)' <=> IsStored(u)
         /\ \A u \in Tools : UnderWay(u)' => UnderWay(u)
         /\ \A u \in Tools : UnderWay(u) => UnderWay(u)' \/ u = Head(events).tool
<1>1. /\ events # <<>> /\ Head(events).type = "tool_result"
      /\ events' = Tail(events) /\ said' = said /\ background' = background /\ handler' = handler
  BY DEF HandleToolResult, Comes
<1>2. Head(events).tool \in Tools
  BY <1>1, EventsMove
<1>3. \A e \in {"tool_use", "tool_result"}, u \in Tools :
        InEvents(e, u) <=> InEvents(e, u)' \/ (e = "tool_result" /\ u = Head(events).tool)
  BY <1>1, EventsMove
<1>4. \A u \in Tools : Handled(u)' <=> Handled(u)
  BY <1>1, <1>3 DEF Handled
<1>5. \A u \in Tools : UnderWay(u)' => UnderWay(u)
  BY <1>1, <1>3 DEF UnderWay
<1>6. \A u \in Tools : UnderWay(u) => UnderWay(u)' \/ u = Head(events).tool
  BY <1>1, <1>3 DEF UnderWay
<1> QED
  BY <1>1, <1>2, <1>4, <1>5, <1>6 DEF IsStored

\* The other steps are about none.
LEMMA OtherStill ==
  ASSUME Types, UNCHANGED <<events, said, background>>,
         handler' = handler \/ (handler.step # "store" /\ handler'.step # "store")
  PROVE  Still
<1>1. \A e \in {"tool_use", "tool_result"}, u \in Tools : InEvents(e, u)' <=> InEvents(e, u)
  BY DEF InEvents
<1>2. \A u \in Tools : Handled(u)' <=> Handled(u)
  BY <1>1 DEF Handled
<1>3. \A u \in Tools : UnderWay(u)' <=> UnderWay(u)
  BY <1>1 DEF UnderWay
<1> QED
  BY <1>2, <1>3 DEF Still, IsStored

\* Only the handler moves the tools on.
LEMMA NextFlow ==
  ASSUME Types, EventsInOrder, HandlerAtLast, [Next]_vars
  PROVE  Still \/ HandleToolUse \/ StoreOutstandingBash \/ HandleToolResult
<1>1. ASSUME NEW t \in Tools, Say(t) PROVE Still
  BY <1>1, SayStill
<1>2. CASE CreateSignal \/ WriteSignal \/ SignalFails
  <2>1. UNCHANGED <<events, said, background>>
    BY <1>2 DEF CreateSignal, WriteSignal, SignalFails, claude
  <2>2. handler.step # "store"
    BY <1>2 DEF CreateSignal, WriteSignal, SignalFails
  <2>3. handler'.step # "store"
    <3>1. CASE CreateSignal
      BY <3>1 DEF CreateSignal, Types, FlowTypes
    <3>2. CASE WriteSignal \/ SignalFails
      BY <3>2 DEF WriteSignal, SignalFails, Idle
    <3> QED
      BY <1>2, <3>1, <3>2
  <2> QED
    BY <2>1, <2>2, <2>3, OtherStill
<1>3. ASSUME NEW c \in Tools, Run(c) PROVE Still
  BY <1>3, RunFrame, OtherStill DEF claude
<1>4. ASSUME NEW r \in Readers, Page(r) PROVE Still
  BY <1>4, PageFrame, OtherStill DEF claude
<1>5. CASE UNCHANGED vars
  BY <1>5, OtherStill DEF vars, claude
<1> QED
  BY <1>1, <1>2, <1>3, <1>4, <1>5, NextSteps DEF Handle

\* A tool that was handled, or stored, stays so.
LEMMA FlowKeeps ==
  ASSUME Types, EventsInOrder, HandlerAtLast, [Next]_vars
  PROVE  \A t \in Tools : (Handled(t) => Handled(t)') /\ (IsStored(t) => IsStored(t)')
<1>1. CASE Still
  BY <1>1 DEF Still
<1>2. CASE HandleToolUse
  BY <1>2, UseFlow
<1>3. CASE StoreOutstandingBash
  BY <1>3, StoreFlow
<1>4. CASE HandleToolResult
  BY <1>4, ResultFlow
<1> QED
  BY <1>1, <1>2, <1>3, <1>4, NextFlow

\* What a property excuses a chip for, and the end of its stream, stay.
LEMMA Grow ==
  ASSUME Types, CommandsRight, [Next]_vars
  PROVE  /\ early \subseteq early' /\ together \subseteq together'
         /\ \A c, t \in Tools : Takes(c, t) => Takes(c, t)'
         /\ \A t \in Tools : Taken(t) => Taken(t)'
         /\ \A t \in Tools : Crowded(t) => Crowded(t)'
         /\ \A b \in Tools : Done(b) => Done(b)'
<1>1. early \subseteq early' /\ together \subseteq together'
  <2>1. ASSUME NEW t \in Tools, Say(t) PROVE UNCHANGED history
    BY <2>1, SayFrame
  <2>2. ASSUME Handle PROVE early' = early /\ together \subseteq together'
    BY <2>2, HandleFrame DEF Handle, HandleToolUse, StoreOutstandingBash, CreateSignal, WriteSignal, SignalFails,
      HandleToolResult, history
  <2>3. ASSUME NEW c \in Tools, Run(c) PROVE early \subseteq early' /\ together' = together
    BY <2>3, RunFrame, RunMoves
  <2>4. ASSUME NEW r \in Readers, Page(r) PROVE UNCHANGED history
    BY <2>4, PageFrame
  <2>5. UNCHANGED vars => UNCHANGED history
    BY DEF vars
  <2> QED
    BY <2>1, <2>2, <2>3, <2>4, <2>5, NextSteps DEF history
<1>2. \A c \in Tools : /\ claim[c] # None => claim'[c] = claim[c]
                       /\ sink[c] # None => sink'[c] = sink[c]
                       /\ conn[c] \in {"answered", "failed"} => conn'[c] = conn[c]
  <2>1. ASSUME NEW t \in Tools, Say(t) PROVE UNCHANGED streamer
    BY <2>1, SayFrame
  <2>2. Handle => UNCHANGED streamer
    BY HandleFrame
  <2>3. ASSUME NEW c \in Tools, Run(c), NEW d \in Tools
        PROVE  /\ claim[d] # None => claim'[d] = claim[d]
               /\ sink[d] # None => sink'[d] = sink[d]
               /\ conn[d] \in {"answered", "failed"} => conn'[d] = conn[d]
    BY <2>3, RunMoves
  <2>4. ASSUME NEW r \in Readers, Page(r) PROVE UNCHANGED streamer
    BY <2>4, PageFrame
  <2>5. UNCHANGED vars => UNCHANGED streamer
    BY DEF vars
  <2> QED
    BY <2>1, <2>2, <2>3, <2>4, <2>5, NextSteps DEF streamer
<1>3. \A c, t \in Tools : Takes(c, t) => Takes(c, t)'
  BY <1>2, BashStreamAssumption DEF Takes
<1>4. \A t \in Tools : Taken(t) => Taken(t)'
  BY <1>3 DEF Taken
<1>5. \A t \in Tools : Crowded(t) => Crowded(t)'
  BY <1>1 DEF Crowded
<1>6. \A b \in Tools : Done(b) => Done(b)'
  BY <1>2, BashStreamAssumption DEF Done
<1> QED
  BY <1>1, <1>3, <1>4, <1>5, <1>6

-----------------------------------------------------------------------------
(* The parts of the invariant.                                             *)

\* The handler goes on to the last tool, whose signal is not written.
LEMMA HandlerInductive ==
  ASSUME Types, EventsInOrder, HandlerAtLast, SignalIsLast, [Next]_vars
  PROVE  HandlerAtLast'
<1> USE BashStreamAssumption
<1>1. ASSUME Still, UNCHANGED <<handler, background, signalled>> PROVE HandlerAtLast'
  BY <1>1 DEF Still, HandlerAtLast
<1>2. ASSUME handler' = Idle PROVE HandlerAtLast'
  BY <1>2 DEF HandlerAtLast, Idle
<1>3. CASE HandleToolUse
  <2>1. PICK t \in Tools : t = Head(events).tool
    BY <1>3, UseFlow
  <2>2. /\ ~ Handled(t) /\ \A u \in Tools : Handled(u)' <=> Handled(u) \/ u = t
        /\ \A u \in Tools : Handled(u) => u < t
    BY <1>3, <2>1, UseFlow
  <2>3. background' = background /\ signalled' = signalled
        /\ handler' = IF t \in background THEN Idle ELSE [step |-> "store", tool |-> t]
    BY <1>3, <2>1 DEF HandleToolUse, history
  <2>4. t \notin signalled
    BY <2>2 DEF SignalIsLast, IsStored
  <2>5. \A u \in Tools : Handled(u)' => u <= t
    BY <2>2
  <2> QED
    BY <1>2, <2>2, <2>3, <2>4, <2>5 DEF HandlerAtLast
<1>4. ASSUME handler.step # "idle", handler'.step \in {"create", "write"}, handler'.tool = handler.tool,
             UNCHANGED <<background, signalled>>, \A u \in Tools : Handled(u)' <=> Handled(u)
      PROVE  HandlerAtLast'
  BY <1>4 DEF HandlerAtLast
<1>5. CASE StoreOutstandingBash
  <2>1. \A u \in Tools : Handled(u)' <=> Handled(u)
    BY <1>5, StoreFlow
  <2>2. handler.step # "idle" /\ handler'.step = "create" /\ handler'.tool = handler.tool
        /\ UNCHANGED <<background, signalled>>
    BY <1>5 DEF StoreOutstandingBash, claude, Types, FlowTypes
  <2> QED
    BY <1>4, <2>1, <2>2
<1>6. CASE CreateSignal
  <2>1. handler.step = "create" /\ handler'.step = "write" /\ handler'.tool = handler.tool
        /\ UNCHANGED <<events, said, background, signalled>>
    BY <1>6 DEF CreateSignal, claude, history, Types, FlowTypes
  <2>2. Still
    BY <2>1, OtherStill
  <2> QED
    BY <1>4, <2>1, <2>2 DEF Still
<1>7. CASE WriteSignal \/ SignalFails
  BY <1>2, <1>7 DEF WriteSignal, SignalFails
<1>8. CASE HandleToolResult
  BY <1>2, <1>8 DEF HandleToolResult, Comes
<1>9. ASSUME NEW t \in Tools, Say(t) PROVE HandlerAtLast'
  BY <1>1, <1>9, SayStill, SayFrame DEF history
<1>10. ASSUME NEW c \in Tools, Run(c) PROVE HandlerAtLast'
  BY <1>1, <1>10, RunFrame, OtherStill DEF claude
<1>11. ASSUME NEW r \in Readers, Page(r) PROVE HandlerAtLast'
  BY <1>1, <1>11, PageFrame, OtherStill DEF claude, history
<1>12. CASE UNCHANGED vars
  BY <1>1, <1>12, OtherStill DEF vars, claude, history
<1> QED
  BY <1>3, <1>5, <1>6, <1>7, <1>8, <1>9, <1>10, <1>11, <1>12, NextSteps DEF Handle

\* The signal file has the signal that was written last, or none, or is about
\* to be written.
LEMMA SignalInductive ==
  ASSUME Types, EventsInOrder, HandlerAtLast, SignalIsLast, [Next]_vars
  PROVE  SignalIsLast'
<1> USE BashStreamAssumption
<1>1. \A t \in Tools : IsStored(t) => IsStored(t)'
  BY FlowKeeps
<1>2. signalled \subseteq Tools /\ signal \in Tools \cup {None, Blank}
  BY DEF Types, FieldTypes
<1>3. ASSUME signalled' = signalled, signal' \in {signal, None}, handler'.step = "write" => handler' = handler
      PROVE  SignalIsLast'
  BY <1>1, <1>2, <1>3 DEF SignalIsLast
<1>4. CASE CreateSignal
  <2>1. signalled' = signalled /\ signal' = Blank
    BY <1>4 DEF CreateSignal, history
  <2> QED
    BY <1>1, <1>2, <2>1 DEF SignalIsLast
<1>5. CASE WriteSignal
  <2>1. /\ handler.step = "write" /\ signal' = (IF signal = Blank THEN handler.tool ELSE signal)
        /\ signalled' = signalled \cup {handler.tool} /\ handler'.step = "idle"
    BY <1>5 DEF WriteSignal, Idle
  <2>2. handler.tool \in Tools /\ IsStored(handler.tool) /\ \A u \in Tools : Handled(u) => u <= handler.tool
    BY <2>1 DEF HandlerAtLast, IsStored
  <2>3. \A u \in signalled' : IsStored(u)' /\ u <= handler.tool
    BY <1>1, <1>2, <2>1, <2>2 DEF SignalIsLast, IsStored
  <2>4. signal' = handler.tool \/ signal' = None
    BY <2>1 DEF SignalIsLast
  <2>5. signal' \in Tools => signal' \in signalled' /\ \A u \in signalled' : u <= signal'
    BY <2>1, <2>3, <2>4
  <2> QED
    BY <2>1, <2>3, <2>5 DEF SignalIsLast
<1>6. CASE HandleToolUse
  <2>1. handler'.step # "write"
    BY <1>6 DEF HandleToolUse, Idle
  <2> QED
    BY <1>3, <1>6, <2>1 DEF HandleToolUse, history
<1>7. CASE StoreOutstandingBash
  <2>1. handler'.step # "write"
    BY <1>7 DEF StoreOutstandingBash, Types, FlowTypes
  <2> QED
    BY <1>3, <1>7, <2>1 DEF StoreOutstandingBash
<1>8. CASE SignalFails
  <2>1. handler'.step # "write"
    BY <1>8 DEF SignalFails, Idle
  <2> QED
    BY <1>3, <1>8, <2>1 DEF SignalFails, history
<1>9. CASE HandleToolResult
  BY <1>3, <1>9 DEF HandleToolResult, history
<1>10. ASSUME NEW t \in Tools, Say(t) PROVE SignalIsLast'
  BY <1>3, <1>10, SayFrame DEF history
<1>11. ASSUME NEW c \in Tools, Run(c) PROVE SignalIsLast'
  <2>1. signal' \in {signal, None}
    BY <1>11 DEF Run, Test, ReadSignal, RemoveSignal, PrintOverlong, ShellExits, QuietShellExits, CutShellExits,
      ShellExitsFrom, RequestFails, BreakRequest, ConsumeOutstandingBash, ConsumeAs, Drain, TakeBuffer, EndRequest
  <2> QED
    BY <1>3, <1>11, <2>1, RunFrame
<1>12. ASSUME NEW r \in Readers, Page(r) PROVE SignalIsLast'
  BY <1>3, <1>12, PageFrame DEF history
<1>13. CASE UNCHANGED vars
  BY <1>3, <1>13 DEF vars, history
<1> QED
  BY <1>4, <1>5, <1>6, <1>7, <1>8, <1>9, <1>10, <1>11, <1>12, <1>13, NextSteps DEF Handle

\* A command is where its wrapper, its streamer and its request are; claude
\* does not report it before it has ended, unless it runs in the background.
LEMMA CommandsInductive ==
  ASSUME Types, CommandsRight, [Next]_vars
  PROVE  CommandsRight'
<1> USE BashStreamAssumption
<1> DEFINE Right(c) ==
             /\ cmd[c] # "no" /\ c \notin early => c \in signalled
             /\ cmd[c] # "no" /\ c \notin background /\ ~ Ended(c) => said[c] = "used"
             /\ cmd[c] \in {"no", "plain", "tested"} => claim[c] = None
             /\ cmd[c] = "streaming" <=> conn[c] # "no"
             /\ conn[c] \in {"no", "post", "matched"} => sink[c] = None
             /\ conn[c] = "copy" => sink[c] # None
             /\ conn[c] \in {"no", "post", "matched", "copy", "drain"} \/ shell[c] = "closed" \/ conn[c] = "failed"
<1>1. \A c \in Tools : Right(c)
  BY DEF CommandsRight
<1>2. ASSUME \A c \in Tools : Right(c)' PROVE CommandsRight'
  BY <1>2 DEF CommandsRight
<1>3. ASSUME UNCHANGED <<background, cmd, streamer>>, early \subseteq early', signalled \subseteq signalled',
             \A c \in Tools : said[c] = "used" => said'[c] = "used" \/ c \in background \/ cmd[c] = "no" \/ Ended(c)
      PROVE  CommandsRight'
  BY <1>1, <1>2, <1>3 DEF streamer, Ended
<1>4. ASSUME NEW t \in Tools, Say(t) PROVE CommandsRight'
  <2>1. \A c \in Tools : said[c] = "used" => said'[c] = "used" \/ c \in background \/ cmd[c] = "no" \/ Ended(c)
    BY <1>4 DEF Say, Announce, Report, Types, FlowTypes
  <2>2. UNCHANGED <<background, cmd, streamer, history>>
    BY <1>4, SayFrame
  <2> QED
    BY <1>3, <2>1, <2>2 DEF history
<1>5. CASE Handle
  <2>1. signalled \subseteq signalled'
    BY <1>5 DEF Handle, HandleToolUse, StoreOutstandingBash, CreateSignal, WriteSignal, SignalFails,
      HandleToolResult, history
  <2> QED
    BY <1>3, <1>5, <2>1, HandleFrame
<1>6. ASSUME NEW r \in Readers, Page(r) PROVE CommandsRight'
  BY <1>3, <1>6, PageFrame DEF history, claude
<1>7. CASE UNCHANGED vars
  BY <1>3, <1>7 DEF vars, history, claude
<1>8. ASSUME NEW c \in Tools, Run(c) PROVE CommandsRight'
  <2>1. /\ \A d \in Tools : d # c => /\ cmd'[d] = cmd[d] /\ claim'[d] = claim[d] /\ shell'[d] = shell[d]
                                     /\ conn'[d] = conn[d] /\ sink'[d] = sink[d]
        /\ early \subseteq early' /\ UNCHANGED <<background, said, signalled>>
    BY <1>8, RunMoves, RunFrame DEF claude
  <2>2. \A d \in Tools : d # c => Right(d)'
    BY <1>1, <2>1 DEF Ended
  <2>3. Right(c)'
    <3> USE <1>1, <2>1 DEF Types, CommandTypes, FieldTypes, Ended
    <3>1. CASE Test(c)
      BY <3>1 DEF Test, streamer
    <3>2. CASE ReadSignal(c)
      BY <3>2 DEF ReadSignal, history
    <3>3. CASE RemoveSignal(c)
      BY <3>3 DEF RemoveSignal, history
    <3>4. CASE PrintOverlong(c)
      BY <3>4 DEF PrintOverlong, history
    <3>5. CASE ShellExits(c)
      BY <3>5 DEF ShellExits, ShellExitsFrom, history
    <3>6. CASE QuietShellExits(c)
      BY <3>6 DEF QuietShellExits, ShellExitsFrom, history
    <3>7. CASE CutShellExits(c)
      BY <3>7 DEF CutShellExits, ShellExitsFrom, history
    <3>8. CASE RequestFails(c)
      BY <3>8 DEF RequestFails, history
    <3>9. CASE BreakRequest(c)
      BY <3>9 DEF BreakRequest, history
    <3>10. CASE ConsumeOutstandingBash(c)
      BY <3>10 DEF ConsumeOutstandingBash, ConsumeAs, history
    <3>11. CASE Drain(c)
      BY <3>11 DEF Drain, history
    <3>12. CASE TakeBuffer(c)
      BY <3>12 DEF TakeBuffer, history
    <3>13. CASE EndRequest(c)
      BY <3>13 DEF EndRequest, history
    <3> QED
      BY <1>8, <3>1, <3>2, <3>3, <3>4, <3>5, <3>6, <3>7, <3>8, <3>9, <3>10, <3>11, <3>12, <3>13 DEF Run
  <2> QED
    <3> HIDE DEF Right
    <3> QED
      BY <1>2, <2>2, <2>3
<1> QED
  BY <1>4, <1>5, <1>6, <1>7, <1>8, NextSteps

\* A command that goes on, in the foreground, is under way once it is stored.
LEMMA RunsUnderWay ==
  ASSUME Types, CommandsRight, NEW c \in Tools, IsStored(c), cmd[c] # "no", ~ Ended(c)
  PROVE  UnderWay(c)
BY DEF CommandsRight, IsStored, Handled, UnderWay

\* The session's fields are about the last tool, or about one that streams.
LEMMA SessionInductive ==
  ASSUME Types, EventsInOrder, HandlerAtLast, SessionRight, CommandsRight, [Next]_vars
  PROVE  SessionRight'
<1> USE BashStreamAssumption
<1>1. /\ \A t \in Tools : IsStored(t) => IsStored(t)'
      /\ \A t \in Tools : Taken(t) => Taken(t)'
  BY FlowKeeps, Grow
<1>2. {outstanding, connected, streamed, streamLines} \subseteq Tools \cup {None}
  BY DEF Types, FieldTypes
<1>3. ASSUME Still, UNCHANGED session PROVE SessionRight'
  BY <1>1, <1>2, <1>3 DEF SessionRight, Still, session
<1>4. CASE HandleToolUse
  <2>1. UNCHANGED session
    BY <1>4 DEF HandleToolUse
  <2>2. /\ \A u \in Tools : IsStored(u)' <=> IsStored(u)
        /\ \A u \in Tools : UnderWay(u) => UnderWay(u)'
    BY <1>4, UseFlow
  <2> QED
    BY <1>1, <1>2, <2>1, <2>2 DEF SessionRight, session
<1>5. CASE StoreOutstandingBash
  <2>1. /\ handler.tool \in Tools
        /\ \A u \in Tools : IsStored(u)' <=> IsStored(u) \/ u = handler.tool
        /\ \A u \in Tools : UnderWay(u)' <=> UnderWay(u)
    BY <1>5, StoreFlow
  <2>2. /\ outstanding' = handler.tool /\ connected' = handler.tool /\ streamLines' = handler.tool
        /\ streamed' = streamed
    BY <1>5 DEF StoreOutstandingBash
  <2>3. \A u \in Tools : IsStored(u)' => u <= handler.tool
    BY <1>5, <2>1 DEF StoreOutstandingBash, HandlerAtLast, IsStored
  <2> QED
    BY <1>1, <1>2, <2>1, <2>2, <2>3 DEF SessionRight
<1>6. CASE HandleToolResult
  <2>1. UNCHANGED <<outstanding, connected>>
        /\ (IF streamed = Head(events).tool THEN streamed' = None /\ streamLines' = None
            ELSE UNCHANGED <<streamed, streamLines>>)
    BY <1>6 DEF HandleToolResult
  <2>2. /\ \A u \in Tools : IsStored(u)' <=> IsStored(u)
        /\ \A u \in Tools : UnderWay(u) => UnderWay(u)' \/ u = Head(events).tool
    BY <1>6, ResultFlow
  <2> QED
    BY <1>1, <1>2, <2>1, <2>2 DEF SessionRight
<1>7. CASE \E t \in Tools : Say(t)
  BY <1>3, <1>7, SayStill, SayFrame
<1>8. CASE CreateSignal \/ WriteSignal \/ SignalFails
  <2>1. UNCHANGED session
    BY <1>8 DEF CreateSignal, WriteSignal, SignalFails
  <2>2. Still \/ HandleToolUse \/ StoreOutstandingBash \/ HandleToolResult
    BY NextFlow
  <2> QED
    BY <1>3, <1>4, <1>5, <1>6, <2>1, <2>2
<1>9. ASSUME NEW c \in Tools, Run(c) PROVE SessionRight'
  <2>1. Still
    BY <1>9, RunFrame, OtherStill DEF claude
  <2>2. CASE ConsumeOutstandingBash(c)
    <3>1. /\ conn[c] = "post" /\ claim[c] = outstanding /\ outstanding \in Tools
          /\ outstanding' = None /\ connected' = None /\ streamed' = outstanding /\ streamLines' = streamLines
      BY <1>2, <2>2 DEF ConsumeOutstandingBash, ConsumeAs, Matches
    <3>2. IsStored(outstanding)
      BY <3>1 DEF SessionRight
    <3>3. UnderWay(outstanding) \/ Taken(outstanding)
      <4>1. CASE outstanding = c
        <5>1. cmd[c] = "streaming" /\ ~ Ended(c)
          BY <3>1 DEF CommandsRight, Ended
        <5> QED
          BY <3>2, <4>1, <5>1, RunsUnderWay
      <4>2. CASE outstanding # c
        BY <3>1, <4>2 DEF Taken, Takes
      <4> QED
        BY <4>1, <4>2
    <3>4. PICK s \in Tools : s = outstanding
      BY <3>1
    <3>5. IsStored(s)' /\ (UnderWay(s)' \/ Taken(s)')
      BY <1>1, <2>1, <3>2, <3>3, <3>4 DEF Still
    <3>6. \A t \in {outstanding', streamLines'} \ {None} : IsStored(t)' /\ \A u \in Tools : IsStored(u)' => u <= t
      <4>1. \A u \in Tools : IsStored(u)' <=> IsStored(u)
        BY <2>1 DEF Still
      <4> QED
        BY <1>2, <3>1, <4>1 DEF SessionRight
    <3>7. streamed' = s /\ connected' = outstanding'
      BY <3>1, <3>4
    <3> QED
      BY <3>5, <3>6, <3>7 DEF SessionRight
  <2>3. CASE ~ ConsumeOutstandingBash(c)
    <3>1. UNCHANGED session
      BY <1>9, <2>3 DEF Run, Test, ReadSignal, RemoveSignal, PrintOverlong, ShellExits, QuietShellExits, CutShellExits,
        ShellExitsFrom, RequestFails, BreakRequest, Drain, TakeBuffer, EndRequest
    <3> QED
      BY <1>3, <2>1, <3>1
  <2> QED
    BY <2>2, <2>3
<1>10. ASSUME NEW r \in Readers, Page(r) PROVE SessionRight'
  BY <1>3, <1>10, PageFrame, OtherStill DEF claude
<1>11. CASE UNCHANGED vars
  BY <1>3, <1>11, OtherStill DEF vars, claude
<1> QED
  BY <1>4, <1>5, <1>6, <1>7, <1>8, <1>9, <1>10, <1>11, NextSteps DEF Handle

\* Whatever is under way when a tool is stored is seen to be.
LEMMA PairsInductive ==
  ASSUME Types, EventsInOrder, HandlerAtLast, PairsSeen, [Next]_vars
  PROVE  PairsSeen'
<1> USE BashStreamAssumption
<1>1. background' = background
  <2>1. Handle \/ (\E t \in Tools : Say(t)) => background' = background
    BY HandleFrame, SayFrame
  <2> QED
    BY <2>1, NextSteps, RunFrame, PageFrame DEF claude, vars
<1>2. StoreOutstandingBash \/ together' = together
  <2>1. Handle => StoreOutstandingBash \/ together' = together
    BY DEF Handle, HandleToolUse, CreateSignal, WriteSignal, SignalFails, HandleToolResult, history
  <2>2. \A t \in Tools : Say(t) => together' = together
    BY SayFrame DEF history
  <2> QED
    BY <2>1, <2>2, NextSteps, RunFrame, PageFrame DEF history, vars
<1>3. ASSUME together' = together, \A t \in Tools : IsStored(t)' <=> IsStored(t),
             \A t \in Tools : UnderWay(t)' => UnderWay(t)
      PROVE  PairsSeen'
  BY <1>1, <1>3 DEF PairsSeen
<1>4. CASE Still /\ together' = together
  BY <1>3, <1>4 DEF Still
<1>5. CASE HandleToolResult
  <2>1. together' = together
    BY <1>5 DEF HandleToolResult, history
  <2> QED
    BY <1>3, <1>5, <2>1, ResultFlow
<1>6. CASE HandleToolUse
  <2>1. together' = together
    BY <1>6 DEF HandleToolUse, history
  <2>2. PICK h \in Tools : h = Head(events).tool
    BY <1>6, UseFlow
  <2>3. /\ \A u \in Tools : IsStored(u)' <=> IsStored(u)
        /\ \A u \in Tools : UnderWay(u)' => UnderWay(u) \/ u = h
        /\ \A u \in Tools : Handled(u) => u < h
    BY <1>6, <2>2, UseFlow
  <2>4. \A u \in Tools : IsStored(u) => ~ (h < u)
    BY <2>3 DEF IsStored
  <2> QED
    BY <1>1, <2>1, <2>3, <2>4 DEF PairsSeen
<1>7. CASE StoreOutstandingBash
  <2>1. PICK h \in Tools : h = handler.tool
    BY <1>7, StoreFlow
  <2>2. /\ ~ IsStored(h)
        /\ \A u \in Tools : IsStored(u)' <=> IsStored(u) \/ u = h
        /\ \A u \in Tools : UnderWay(u)' <=> UnderWay(u)
    BY <1>7, <2>1, StoreFlow
  <2>3. \A u \in Tools : Handled(u) => u <= h
    BY <1>7, <2>1 DEF StoreOutstandingBash, HandlerAtLast
  <2>4. together' = together \cup {<<t, h>> : t \in {u \in Tools \ {h} : UnderWay(u)}}
    BY <1>7, <2>1 DEF StoreOutstandingBash
  <2>5. \A t, u \in Tools : <<t, u>> \in together' <=> <<t, u>> \in together \/ (u = h /\ t # h /\ UnderWay(t))
    BY <2>4
  <2>6. \A t \in Tools : UnderWay(t) /\ t # h => t < h /\ (t \notin background => IsStored(t))
    <3> SUFFICES ASSUME NEW t \in Tools, UnderWay(t), t # h
                 PROVE  t < h /\ (t \notin background => IsStored(t))
      OBVIOUS
    <3>1. Handled(t)
      <4>1. InEvents("tool_result", t) => said[t] # "no"
        <5>1. \A i \in 1 .. Len(events) : said[events[i].tool] # "no"
          BY DEF EventsInOrder
        <5> QED
          BY <5>1 DEF InEvents
      <4> QED
        BY <4>1 DEF UnderWay, Handled
    <3>2. t < h
      BY <2>3, <3>1
    <3> QED
      BY <2>1, <3>1, <3>2 DEF IsStored
  <2>7. \A t, u \in Tools : <<t, u>> \in together' => t < u /\ IsStored(u)'
    BY <2>2, <2>5, <2>6 DEF PairsSeen
  <2>8. \A t, u \in Tools : t < u /\ UnderWay(t)' /\ IsStored(u)' => <<t, u>> \in together'
    <3>1. \A t, u \in Tools : t < u => t # u
      OBVIOUS
    <3> QED
      BY <2>2, <2>5, <3>1 DEF PairsSeen
  <2>9. \A t, u, v \in Tools :
          <<t, v>> \in together' /\ <<u, v>> \in together' /\ t < u /\ u \notin background => <<t, u>> \in together'
    <3> SUFFICES ASSUME NEW t \in Tools, NEW u \in Tools, NEW v \in Tools,
                        <<t, v>> \in together', <<u, v>> \in together', t < u, u \notin background
                 PROVE  <<t, u>> \in together'
      OBVIOUS
    <3>1. CASE v = h
      <4>1. UnderWay(t) /\ UnderWay(u) /\ u # h
        BY <2>2, <2>5, <3>1 DEF PairsSeen
      <4> QED
        BY <2>5, <2>6, <4>1 DEF PairsSeen
    <3>2. CASE v # h
      BY <2>5, <3>2 DEF PairsSeen
    <3> QED
      BY <3>1, <3>2
  <2> QED
    BY <1>1, <2>7, <2>8, <2>9 DEF PairsSeen
<1> QED
  BY <1>2, <1>4, <1>5, <1>6, <1>7, NextFlow

\* A command that started after its signal was written takes its own, or that
\* of a tool that was stored while it ran; and so for the buffer.
LEMMA TakesInductive ==
  ASSUME Types, EventsInOrder, HandlerAtLast, SessionRight, SignalIsLast, CommandsRight, PairsSeen, TakesSeen, [Next]_vars
  PROVE  TakesSeen'
<1> USE BashStreamAssumption
<1>1. early \subseteq early' /\ together \subseteq together'
  BY Grow
<1>2. ASSUME UNCHANGED <<claim, sink>> PROVE TakesSeen'
  BY <1>1, <1>2 DEF TakesSeen, Takes
<1>3. ASSUME NEW c \in Tools, NEW t \in Tools, c # t, c \notin early, cmd[c] # "no", ~ Ended(c), IsStored(t),
             \A u \in signalled : u <= t
      PROVE  <<c, t>> \in together
  <2>1. c \in signalled
    BY <1>3 DEF CommandsRight
  <2>2. IsStored(c) /\ c < t
    <3>1. IsStored(c)
      BY <2>1 DEF SignalIsLast
    <3>2. c \in Nat /\ t \in Nat /\ c <= t
      BY <1>3, <2>1 DEF BashStreamAssumption
    <3> QED
      BY <1>3, <3>1, <3>2
  <2>3. UnderWay(c)
    BY <1>3, <2>2, RunsUnderWay
  <2> QED
    BY <1>3, <2>2, <2>3 DEF PairsSeen
<1>4. ASSUME NEW c \in Tools, ReadSignal(c) PROVE TakesSeen'
  <2>1. /\ cmd[c] = "tested" /\ claim' = [claim EXCEPT ![c] = IF signal \in Tools THEN signal ELSE None]
        /\ sink' = sink
    BY <1>4 DEF ReadSignal
  <2>2. claim'[c] \in Tools => claim'[c] = signal /\ signal \in Tools
    BY <2>1 DEF Types, CommandTypes
  <2>3. \A d \in Tools : d # c => claim'[d] = claim[d]
    BY <2>1 DEF Types, CommandTypes
  <2>4. signal \in Tools /\ signal # c /\ c \notin early => <<c, signal>> \in together
    BY <1>3, <2>1 DEF SignalIsLast, Ended
  <2>5. \A d, t \in Tools : Takes(d, t)' => Takes(d, t) \/ (d = c /\ t = signal /\ t # c)
    BY <2>1, <2>2, <2>3 DEF Takes
  <2> QED
    BY <1>1, <2>4, <2>5 DEF TakesSeen
<1>5. ASSUME NEW c \in Tools, TakeBuffer(c) PROVE TakesSeen'
  <2>1. /\ conn[c] = "matched" /\ streamLines # None /\ sink' = [sink EXCEPT ![c] = streamLines] /\ claim' = claim
    BY <1>5 DEF TakeBuffer
  <2>2. streamLines \in Tools /\ cmd[c] = "streaming" /\ ~ Ended(c)
    BY <2>1 DEF Types, FieldTypes, CommandsRight, Ended
  <2>3. IsStored(streamLines) /\ \A u \in signalled : u <= streamLines
    BY <2>2 DEF SessionRight, SignalIsLast, Types, FieldTypes
  <2>4. streamLines # c /\ c \notin early => <<c, streamLines>> \in together
    BY <1>3, <2>2, <2>3
  <2>5. \A d, t \in Tools : Takes(d, t)' => Takes(d, t) \/ (d = c /\ t = streamLines /\ t # c)
    BY <2>1 DEF Takes, Types, CommandTypes
  <2> QED
    BY <1>1, <2>4, <2>5 DEF TakesSeen
<1>6. ASSUME NEW c \in Tools, Run(c), ~ ReadSignal(c), ~ TakeBuffer(c) PROVE TakesSeen'
  <2>1. UNCHANGED <<claim, sink>>
    BY <1>6 DEF Run, Test, RemoveSignal, PrintOverlong, ShellExits, QuietShellExits, CutShellExits,
        ShellExitsFrom, RequestFails, BreakRequest, ConsumeOutstandingBash, ConsumeAs, Drain, EndRequest, streamer
  <2> QED
    BY <1>2, <2>1
<1>7. ASSUME NEW t \in Tools, Say(t) PROVE TakesSeen'
  BY <1>2, <1>7, SayFrame DEF streamer
<1>8. CASE Handle
  BY <1>2, <1>8, HandleFrame DEF streamer
<1>9. ASSUME NEW r \in Readers, Page(r) PROVE TakesSeen'
  BY <1>2, <1>9, PageFrame DEF streamer
<1>10. CASE UNCHANGED vars
  BY <1>2, <1>10 DEF vars, streamer
<1> QED
  BY <1>4, <1>5, <1>6, <1>7, <1>8, <1>9, <1>10, NextSteps

\* A page is given the lines of the tool it asked for, or of one that was
\* stored while that was under way, unless another command took its signal.
LEMMA ReadersInductive ==
  ASSUME Types, EventsInOrder, HandlerAtLast, SessionRight, CommandsRight, PairsSeen, ReadersRight, [Next]_vars
  PROVE  ReadersRight'
<1> USE BashStreamAssumption
<1> DEFINE Given(st, t, l, b) ==
             /\ st \notin {"off", "refused"} => t \in Tools \ background /\ (l \in {None, t} \/ Crowded(t) \/ Taken(t))
             /\ st \in {"reading", "ended"} => b \in Tools /\ (b = t \/ <<t, b>> \in together \/ Taken(t))
             /\ st = "ended" => Done(b)
<1>1. \A r \in Readers : Given(reader[r].step, reader[r].tool, reader[r].layout, reader[r].buffer)
  BY DEF ReadersRight
<1>2. background' = background
  <2>1. Handle \/ (\E t \in Tools : Say(t)) => background' = background
    BY HandleFrame, SayFrame
  <2> QED
    BY <2>1, NextSteps, RunFrame, PageFrame DEF claude, vars
<1>3. /\ together \subseteq together' /\ \A t \in Tools : Taken(t) => Taken(t)'
      /\ \A t \in Tools : Crowded(t) => Crowded(t)'
      /\ \A b \in Tools : Done(b) => Done(b)'
  BY Grow
<1>4. ASSUME \A r \in Readers : Given(reader'[r].step, reader'[r].tool, reader'[r].layout, reader'[r].buffer)
      PROVE  ReadersRight'
  BY <1>2, <1>3, <1>4 DEF ReadersRight
<1>5. ASSUME UNCHANGED reader PROVE ReadersRight'
  BY <1>1, <1>4, <1>5
\* What the session's fields say of a tool that streams, or is outstanding.
<1>6. ASSUME NEW t \in Tools, t = streamed, streamLines # None
      PROVE  streamLines \in Tools /\ (streamLines = t \/ <<t, streamLines>> \in together \/ Taken(t))
  <2>1. PICK b \in Tools : b = streamLines
    BY <1>6 DEF Types, FieldTypes
  <2>2. IsStored(t) /\ IsStored(b) /\ t <= b /\ (UnderWay(t) \/ Taken(t))
    BY <1>6, <2>1 DEF SessionRight
  <2>3. t = b \/ t < b
    BY <2>2
  <2> QED
    BY <2>1, <2>2, <2>3 DEF PairsSeen
<1>7. ASSUME NEW t \in Tools, t = outstanding, streamLines # None
      PROVE  streamLines = t
  <2>1. PICK b \in Tools : b = streamLines
    BY <1>7 DEF Types, FieldTypes
  <2>2. t <= b /\ b <= t
    BY <1>7, <2>1 DEF SessionRight
  <2> QED
    BY <2>1, <2>2
<1>8. ASSUME NEW t \in Tools
      PROVE  CmdForTool(t) \in {None, t} \/ Crowded(t) \/ Taken(t)
  <2>1. CASE t = outstanding \/ streamLines = None
    BY <1>7, <2>1 DEF CmdForTool
  <2>2. CASE t = streamed /\ streamLines # None
    <3>1. streamLines = t \/ Taken(t) \/ <<t, streamLines>> \in together
      BY <1>6, <2>2
    <3>2. <<t, streamLines>> \in together => Crowded(t)
      BY DEF Crowded
    <3> QED
      BY <2>2, <3>1, <3>2 DEF CmdForTool
  <2> QED
    BY <2>1, <2>2 DEF CmdForTool
<1>9. ASSUME NEW r \in Readers, Page(r) PROVE ReadersRight'
  <2>1. /\ reader \in [Readers -> [step : Steps, tool : Tools \cup {None}, layout : Tools \cup {None},
                                   buffer : Tools \cup {None}]]
    BY DEF Types, PageTypes
  <2>2. ASSUME NEW st, NEW t, NEW l, NEW b, Becomes(r, st, t, l, b), Given(st, t, l, b)
        PROVE  ReadersRight'
    <3>1. /\ reader'[r].step = st /\ reader'[r].tool = t /\ reader'[r].layout = l /\ reader'[r].buffer = b
          /\ \A q \in Readers : q # r => reader'[q] = reader[q]
      BY <2>1, <2>2 DEF Becomes
    <3>2. \A q \in Readers : Given(reader'[q].step, reader'[q].tool, reader'[q].layout, reader'[q].buffer)
      <4> SUFFICES ASSUME NEW q \in Readers
                   PROVE  Given(reader'[q].step, reader'[q].tool, reader'[q].layout, reader'[q].buffer)
        OBVIOUS
      <4>1. CASE q = r
        BY <2>2, <3>1, <4>1
      <4>2. CASE q # r
        <5>1. Given(reader[q].step, reader[q].tool, reader[q].layout, reader[q].buffer)
          BY <1>1
        <5> HIDE DEF Given
        <5> QED
          BY <3>1, <4>2, <5>1
      <4> QED
        BY <4>1, <4>2
    <3> HIDE DEF Given
    <3> QED
      BY <1>4, <3>2
  <2>3. Given(reader[r].step, reader[r].tool, reader[r].layout, reader[r].buffer)
    BY <1>1
  <2>4. ASSUME NEW t \in Tools, OpenChip(r, t), Becomes(r, "opened", t, CmdForTool(t), reader[r].buffer)
        PROVE  ReadersRight'
    <3>1. Given("opened", t, CmdForTool(t), reader[r].buffer)
      BY <1>8, <2>4 DEF OpenChip
    <3> HIDE DEF Given
    <3> QED
      BY <2>2, <2>4, <3>1
  <2>5. ASSUME reader[r].step \in {"opened", "waiting"}, Stream(reader[r].tool),
               Becomes(r, "reading", reader[r].tool, reader[r].layout, streamLines)
        PROVE  ReadersRight'
    <3>1. Given("reading", reader[r].tool, reader[r].layout, streamLines)
      BY <1>6, <2>3, <2>5 DEF Stream
    <3> HIDE DEF Given
    <3> QED
      BY <2>2, <2>5, <3>1
  <2>6. ASSUME reader[r].step = "opened", Becomes(r, "waiting", reader[r].tool, reader[r].layout, connected)
        PROVE  ReadersRight'
    <3>1. Given("waiting", reader[r].tool, reader[r].layout, connected)
      BY <2>3, <2>6
    <3> HIDE DEF Given
    <3> QED
      BY <2>2, <2>6, <3>1
  <2>7. ASSUME Becomes(r, "refused", None, None, None) PROVE ReadersRight'
    <3>1. Given("refused", None, None, None)
      OBVIOUS
    <3> HIDE DEF Given
    <3> QED
      BY <2>2, <2>7, <3>1
  <2>8. ASSUME reader[r].step = "reading", Done(reader[r].buffer),
               Becomes(r, "ended", reader[r].tool, reader[r].layout, reader[r].buffer)
        PROVE  ReadersRight'
    <3>1. Given("ended", reader[r].tool, reader[r].layout, reader[r].buffer)
      BY <2>3, <2>8
    <3> HIDE DEF Given
    <3> QED
      BY <2>2, <2>8, <3>1
  <2> QED
    BY <1>9, <2>4, <2>5, <2>6, <2>7, <2>8, PageMoves
<1>10. ASSUME NEW t \in Tools, Say(t) PROVE ReadersRight'
  BY <1>5, <1>10, SayFrame
<1>11. CASE Handle
  BY <1>5, <1>11, HandleFrame
<1>12. ASSUME NEW c \in Tools, Run(c) PROVE ReadersRight'
  BY <1>5, <1>12, RunFrame
<1>13. CASE UNCHANGED vars
  BY <1>5, <1>13 DEF vars
<1> QED
  BY <1>9, <1>10, <1>11, <1>12, <1>13, NextSteps

-----------------------------------------------------------------------------
(* The theorem.                                                            *)

\* The invariant holds before claude has said anything.
LEMMA InitInv == Init => Inv
<1> SUFFICES ASSUME Init PROVE Inv
  OBVIOUS
<1> USE BashStreamAssumption
<1>1. \A t \in Tools : said[t] = "no" /\ cmd[t] = "no" /\ claim[t] = None /\ conn[t] = "no" /\ sink[t] = None
  BY DEF Init
<1>2. \A t \in Tools : ~ Handled(t) /\ ~ IsStored(t)
  BY <1>1 DEF Handled, IsStored
<1>3. events = <<>> /\ Len(events) = 0
  BY DEF Init
<1>4. \A t \in Tools : ~ UnderWay(t)
  <2>1. \A t \in Tools : ~ InEvents("tool_result", t)
    BY <1>3 DEF InEvents
  <2> QED
    BY <1>1, <2>1 DEF UnderWay
<1>5. Types
  <2>1. FieldTypes
    BY DEF Init, FieldTypes
  <2>2. FlowTypes
    BY DEF Init, FlowTypes, Idle
  <2>3. CommandTypes
    BY DEF Init, CommandTypes, Commands, Shells, Connections
  <2>4. PageTypes
    BY DEF Init, PageTypes, Steps, NoReader
  <2> QED
    BY <2>1, <2>2, <2>3, <2>4 DEF Types
<1>6. EventsInOrder
  BY <1>1, <1>3 DEF EventsInOrder
<1>7. HandlerAtLast
  BY DEF Init, Idle, HandlerAtLast
<1>8. SessionRight
  BY DEF Init, SessionRight
<1>9. SignalIsLast
  BY DEF Init, SignalIsLast, Idle
<1>10. CommandsRight
  BY <1>1 DEF CommandsRight
<1>11. PairsSeen
  BY <1>4 DEF Init, PairsSeen
<1>12. TakesSeen
  BY <1>1 DEF TakesSeen, Takes
<1>13. ReadersRight
  BY DEF Init, ReadersRight, NoReader
<1> QED
  BY <1>5, <1>6, <1>7, <1>8, <1>9, <1>10, <1>11, <1>12, <1>13 DEF Inv

\* In every behaviour, at every moment, the invariant holds.
THEOREM InvAlways == Spec => []Inv
<1>1. Init => Inv
  BY InitInv
<1>2. Inv /\ [Next]_vars => Inv'
  BY TypesInductive, EventsInductive, HandlerInductive, SessionInductive, SignalInductive, CommandsInductive,
     PairsInductive, TakesInductive, ReadersInductive DEF Inv
<1> QED
  BY <1>1, <1>2, PTL DEF Spec

\* What a page shows of a tool that nobody else took from is its own command's.
LEMMA InvShows == Inv => ChipShowsItsCommand
<1> SUFFICES ASSUME Inv PROVE ChipShowsItsCommand
  OBVIOUS
<1> USE BashStreamAssumption DEF Inv
<1>1. TypeOK
  BY DEF TypeOK, Types, FieldTypes, FlowTypes, CommandTypes, Commands, CommandsRight
<1>2. \A c, t \in Tools : Takes(c, t) => c \in early \/ <<c, t>> \in together
  BY DEF TakesSeen
<1>3. ASSUME NEW r \in Readers, reader[r].step \in {"reading", "ended"},
             NEW t, NEW b, t = reader[r].tool, b = reader[r].buffer
      PROVE  /\ b # t => <<t, b>> \in together \/ Taken(t)
             /\ reader[r].layout # b => reader[r].layout = None \/ Crowded(t) \/ Taken(t)
             /\ \A c \in Tools \ {t} : sink[c] = b =>
                  c \in early \/ {<<t, c>>, <<c, t>>} \cap together # {} \/ Taken(t)
             /\ reader[r].step = "ended" /\ ~Crowded(t) /\ ~Taken(t) /\ conn[t] # "failed" =>
                  sink[t] = t /\ shell[t] = "closed"
  <2>1. /\ t \in Tools \ background /\ b \in Tools
        /\ reader[r].layout \in {None, t} \/ Crowded(t) \/ Taken(t)
        /\ b = t \/ <<t, b>> \in together \/ Taken(t)
        /\ reader[r].step = "ended" => Done(b)
    BY <1>3 DEF ReadersRight
  <2>2. \A u \in Tools : <<t, u>> \in together => Crowded(t)
    BY DEF Crowded
  <2>3. ASSUME NEW c \in Tools \ {t}, sink[c] = b, c \notin early, ~ Taken(t)
        PROVE  <<t, c>> \in together \/ <<c, t>> \in together
    <3>1. c = b \/ <<c, b>> \in together
      BY <1>2, <2>1, <2>3 DEF Takes
    <3>2. CASE <<t, b>> \in together /\ <<c, b>> \in together
      <4>1. c \notin background
        <5>1. cmd[c] # "no"
          BY <2>1, <2>3 DEF CommandsRight
        <5> QED
          BY <2>3, <5>1 DEF CommandsRight, SignalIsLast, IsStored
      <4>2. t < c \/ c < t
        <5>1. t \in Nat /\ c \in Nat /\ c # t
          BY <2>1, <2>3 DEF BashStreamAssumption
        <5> QED
          BY <5>1
      <4>3. \A u, w \in Tools : u < w /\ w \notin background /\ {<<u, b>>, <<w, b>>} \subseteq together =>
                                <<u, w>> \in together
        BY <2>1 DEF PairsSeen
      <4> QED
        BY <2>1, <2>3, <3>2, <4>1, <4>2, <4>3
    <3> QED
      BY <2>1, <2>3, <3>1, <3>2
  <2>4. ASSUME reader[r].step = "ended", ~ Crowded(t), ~ Taken(t), conn[t] # "failed"
        PROVE  sink[t] = t /\ shell[t] = "closed"
    <3>1. b = t
      BY <2>1, <2>2, <2>4
    <3>2. PICK c \in Tools : sink[c] = t /\ conn[c] \in {"answered", "failed"}
      BY <2>1, <2>4, <3>1 DEF Done
    <3>3. c = t
      BY <2>1, <2>4, <3>2 DEF Taken, Takes
    <3> QED
      BY <2>4, <3>2, <3>3 DEF CommandsRight
  <2> QED
    BY <2>1, <2>2, <2>3, <2>4
<1> QED
  BY <1>1, <1>2, <1>3 DEF ChipShowsItsCommand

\* A chip shows the output of its own command, whole once it is told so, but
\* for commands that took what belonged to another one: and those started
\* before their signal was written or ran when the other was stored.
THEOREM ChipsShowTheirCommand == Spec => []ChipShowsItsCommand
BY InvAlways, InvShows, PTL

-----------------------------------------------------------------------------
(* One of the buffers that output goes to, and the requests that follow    *)
(* it: a system of its own (BashStreamBuffer), which shares no state with  *)
(* the one above.                                                          *)

\* The inductive invariant: the properties, and the facts they rest on.  The
\* last trim left more than half a buffer; no reader is ahead of the writer;
\* the buffer is closed exactly when the writer is past Close, so nothing is
\* appended after a reader ended.
Kept == startSeq > 0 => Len(lines) > MaxStreamLines \div 2
NotAhead == \A r \in Requests : pos[r] <= written
ClosedByWriter == done <=> writer \in {"closed", "end"}
EndedAtEnd == \A r \in Requests : pc[r] = "ended" => done /\ pos[r] = written

BufferInv ==
  /\ BufferTypeOK
  /\ SequenceNumbers
  /\ EveryLineAccounted
  /\ Kept
  /\ NotAhead
  /\ ClosedByWriter
  /\ EndedAtEnd
  /\ SomeReaderUpToDate

-----------------------------------------------------------------------------
\* What Append leaves in the buffer: the newest lines, within the bound, and
\* more than half of the bound if anything was dropped.
LEMMA TrimKeepsNewest ==
  ASSUME NEW full \in Seq(Nat), Len(full) >= 1, Len(full) <= MaxStreamLines + 1,
         NEW kept, kept = SubSeq(full, Drop(Len(full)) + 1, Len(full))
  PROVE  /\ Drop(Len(full)) \in Nat
         /\ Drop(Len(full)) < Len(full)
         /\ kept \in Seq(Nat)
         /\ Len(kept) = Len(full) - Drop(Len(full))
         /\ Len(kept) <= MaxStreamLines
         /\ Drop(Len(full)) > 0 => Len(kept) > MaxStreamLines \div 2
         /\ \A i \in 1 .. Len(kept) : kept[i] = full[i + Drop(Len(full))]
<1> DEFINE d == Drop(Len(full))
<1>1. MaxStreamLines \in Nat /\ MaxStreamLines >= 1
  BY BufferAssumption
<1>2. d \in Nat /\ d < Len(full)
  BY <1>1 DEF Drop
<1>3. Len(full) \in Nat /\ d + 1 \in Int /\ d + 1 <= Len(full) /\ Len(full) - (d + 1) + 1 = Len(full) - d
  BY <1>2
<1>4. /\ kept \in Seq(Nat) /\ Len(kept) = Len(full) - d
      /\ \A i \in 1 .. Len(kept) : kept[i] = full[i + d]
  <2>1. \A i \in d + 1 .. Len(full) : full[i] \in Nat
    BY <1>2
  <2>2. /\ kept \in Seq(Nat) /\ Len(kept) = Len(full) - d
        /\ \A i \in 1 .. Len(full) - (d + 1) + 1 : kept[i] = full[(d + 1) + i - 1]
    BY <1>3, <2>1, SubSeqProperties
  <2>3. ASSUME NEW i \in 1 .. Len(kept) PROVE kept[i] = full[i + d]
    <3> HIDE DEF d
    <3>1. i \in 1 .. Len(full) - (d + 1) + 1
      BY <1>3, <2>2
    <3>2. kept[i] = full[(d + 1) + i - 1]
      BY <2>2, <3>1
    <3>3. (d + 1) + i - 1 = i + d
      BY <1>2
    <3> QED
      BY <3>2, <3>3
  <2> QED
    BY <2>2, <2>3
<1>5. Len(full) - d <= MaxStreamLines
  BY <1>1 DEF Drop
<1>6. d > 0 => Len(full) - d > MaxStreamLines \div 2
  BY <1>1 DEF Drop
<1> QED
  BY <1>2, <1>3, <1>4, <1>5, <1>6

\* What Read returns to a reader at pos: exactly the lines up to the end of
\* the buffer that it was not sent or told of.
LEMMA ReadReturnsTheRest ==
  ASSUME BufferTypeOK, SequenceNumbers, NEW seq \in Nat, seq <= written
  PROVE  /\ NewSeq(seq) = written
         /\ Truncated(seq) = {n \in Nat : seq <= n /\ n < startSeq}
         /\ Chunk(seq) = {n \in Nat : seq <= n /\ startSeq <= n /\ n < written}
<1>1. lines \in Seq(Nat) /\ startSeq \in Nat /\ written \in Nat /\ Len(lines) \in Nat
  BY DEF BufferTypeOK
<1>2. startSeq + Len(lines) = written
  BY DEF SequenceNumbers
<1>3. From(seq) \in Nat /\ From(seq) >= startSeq /\ From(seq) >= seq
      /\ (seq >= startSeq => From(seq) = seq) /\ (seq < startSeq => From(seq) = startSeq)
  BY <1>1 DEF From
<1>4. NewSeq(seq) = written
  BY <1>1, <1>2, <1>3 DEF NewSeq
<1>5. Truncated(seq) = {n \in Nat : seq <= n /\ n < startSeq}
  BY <1>1 DEF Truncated
<1>6. ASSUME NEW n \in Chunk(seq)
      PROVE  n \in Nat /\ seq <= n /\ startSeq <= n /\ n < written
  <2>1. PICK i \in 1 .. Len(lines) : i > From(seq) - startSeq /\ n = lines[i]
    BY <1>6 DEF Chunk
  <2>2. n = startSeq + i - 1
    BY <2>1 DEF SequenceNumbers
  <2> QED
    BY <1>1, <1>2, <1>3, <2>1, <2>2
<1>7. ASSUME NEW n \in Nat, seq <= n, startSeq <= n, n < written
      PROVE  n \in Chunk(seq)
  <2> DEFINE i == n - startSeq + 1
  <2>1. i \in 1 .. Len(lines) /\ i > From(seq) - startSeq
    BY <1>1, <1>2, <1>3, <1>7
  <2>2. lines[i] = n
    BY <1>1, <1>7, <2>1 DEF SequenceNumbers
  <2> QED
    BY <2>1, <2>2 DEF Chunk
<1> QED
  BY <1>4, <1>5, <1>6, <1>7

-----------------------------------------------------------------------------
\* Nothing was read or trimmed at first.
LEMMA BufferInitially == BufferInit => BufferInv
<1> SUFFICES ASSUME BufferInit PROVE BufferInv
  OBVIOUS
<1> USE DEF BufferInit
<1>1. BufferTypeOK
  <2>1. lines \in Seq(Nat)
    BY EmptySeq
  <2>2. seen \in [Requests -> SUBSET Nat] /\ missed \in [Requests -> SUBSET Nat]
    OBVIOUS
  <2> QED
    BY <2>1, <2>2 DEF BufferTypeOK
<1>2. SequenceNumbers
  BY BufferAssumption DEF SequenceNumbers
<1>3. EveryLineAccounted
  <2>1. 0 .. 0 - 1 = {}
    OBVIOUS
  <2> QED
    BY <2>1 DEF EveryLineAccounted
<1>4. Kept /\ NotAhead /\ ClosedByWriter /\ EndedAtEnd
  BY DEF Kept, NotAhead, ClosedByWriter, EndedAtEnd
<1>5. SomeReaderUpToDate
  BY DEF SomeReaderUpToDate, News, WakeupPending
<1> QED
  BY <1>1, <1>2, <1>3, <1>4, <1>5 DEF BufferInv

\* appendLine keeps it, when it trims as when it does not.
LEMMA AppendKeeps == BufferInv /\ AppendLine => BufferInv'
<1> SUFFICES ASSUME BufferInv, AppendLine PROVE BufferInv'
  OBVIOUS
<1> DEFINE full == Append(lines, written)
           d == Drop(Len(full))
<1>1. BufferTypeOK /\ SequenceNumbers /\ Kept
  BY DEF BufferInv
<1>2. /\ full \in Seq(Nat)
      /\ Len(full) = Len(lines) + 1
      /\ \A i \in 1 .. Len(lines) : full[i] = lines[i]
      /\ full[Len(full)] = written
  BY <1>1 DEF BufferTypeOK
<1>3. \A i \in 1 .. Len(full) : full[i] = startSeq + i - 1
  <2> TAKE i \in 1 .. Len(full)
  <2>1. CASE i = Len(full)
    BY <1>1, <1>2, <2>1 DEF BufferTypeOK, SequenceNumbers
  <2>2. CASE i # Len(full)
    BY <1>1, <1>2, <2>2 DEF BufferTypeOK, SequenceNumbers
  <2> QED
    BY <2>1, <2>2
<1>4. /\ lines' = SubSeq(full, d + 1, Len(full))
      /\ startSeq' = startSeq + d
      /\ written' = written + 1
      /\ writer = "open" /\ writer' = "appended"
      /\ UNCHANGED <<done, wake, progress>>
  BY DEF AppendLine, AppendLineAs
<1>5. /\ d \in Nat
      /\ d < Len(full)
      /\ lines' \in Seq(Nat)
      /\ Len(lines') = Len(full) - d
      /\ Len(lines') <= MaxStreamLines
      /\ d > 0 => Len(lines') > MaxStreamLines \div 2
      /\ \A i \in 1 .. Len(lines') : lines'[i] = full[i + d]
  <2>1. Len(full) >= 1 /\ Len(full) <= MaxStreamLines + 1
    BY <1>1, <1>2, BufferAssumption DEF BufferTypeOK, SequenceNumbers
  <2> HIDE DEF full
  <2> QED
    BY <1>2, <1>4, <2>1, TrimKeepsNewest
<1> HIDE DEF full, d
<1>14. /\ Len(lines) \in Nat /\ Len(full) \in Nat /\ Len(lines') \in Nat
       /\ startSeq \in Nat /\ written \in Nat
       /\ startSeq + Len(lines) = written
  BY <1>1, <1>2, <1>5 DEF BufferTypeOK, SequenceNumbers
<1>6. BufferTypeOK'
  BY <1>1, <1>4, <1>5 DEF BufferTypeOK, progress
<1>7. SequenceNumbers'
  <2>1. startSeq' + Len(lines') = written'
    <3>1. startSeq' = startSeq + d /\ written' = written + 1
      BY <1>4
    <3>2. d \in Nat /\ Len(lines') = Len(full) - d
      BY <1>5
    <3>3. Len(full) = Len(lines) + 1
      BY <1>2
    <3> QED
      BY <1>14, <3>1, <3>2, <3>3
  <2>2. ASSUME NEW i \in 1 .. Len(lines')
        PROVE  lines'[i] = startSeq' + i - 1
    <3>1. i \in Nat /\ i + d \in 1 .. Len(full)
      BY <1>5, <1>14
    <3>2. lines'[i] = full[i + d]
      BY <1>5
    <3> QED
      BY <1>3, <1>4, <1>5, <1>14, <3>1, <3>2
  <2> QED
    BY <1>5, <2>1, <2>2 DEF SequenceNumbers
<1>8. EveryLineAccounted'
  BY <1>4 DEF BufferInv, EveryLineAccounted, progress
<1>9. Kept'
  <2>1. CASE d > 0
    BY <1>5, <2>1 DEF Kept
  <2>2. CASE d = 0
    BY <1>1, <1>2, <1>4, <1>5, <2>2, BufferAssumption DEF Kept, BufferTypeOK
  <2> QED
    BY <1>5, <2>1, <2>2
<1>10. NotAhead'
  BY <1>1, <1>4 DEF BufferInv, NotAhead, progress, BufferTypeOK
<1>11. ClosedByWriter'
  BY <1>4 DEF BufferInv, ClosedByWriter
<1>12. EndedAtEnd'
  BY <1>4 DEF BufferInv, EndedAtEnd, ClosedByWriter, progress
<1>13. SomeReaderUpToDate'
  BY <1>4 DEF SomeReaderUpToDate, WakeupPending
<1> QED
  BY <1>6, <1>7, <1>8, <1>9, <1>10, <1>11, <1>12, <1>13 DEF BufferInv

\* So does a read, which continues at the offset of the last.
LEMMA ReadKeeps ==
  ASSUME BufferInv, NEW r \in Requests, Read(r)
  PROVE  BufferInv'
<1>1. BufferTypeOK /\ SequenceNumbers /\ NotAhead
  BY DEF BufferInv
<1>2. /\ pos' = [pos EXCEPT ![r] = NewSeq(pos[r])]
      /\ seen' = [seen EXCEPT ![r] = @ \cup Chunk(pos[r])]
      /\ missed' = [missed EXCEPT ![r] = @ \cup Truncated(pos[r])]
      /\ pc' = [pc EXCEPT ![r] = IF done THEN "ended" ELSE "wait"]
      /\ UNCHANGED <<buffer, wake, writer, written>>
  BY DEF Read
<1>3. pos[r] \in Nat /\ pos[r] <= written /\ written \in Nat /\ startSeq \in Nat
      /\ startSeq <= written
  BY <1>1 DEF BufferTypeOK, NotAhead, SequenceNumbers
<1>4. /\ NewSeq(pos[r]) = written
      /\ Truncated(pos[r]) = {n \in Nat : pos[r] <= n /\ n < startSeq}
      /\ Chunk(pos[r]) = {n \in Nat : pos[r] <= n /\ startSeq <= n /\ n < written}
  BY <1>1, <1>3, ReadReturnsTheRest
<1>5. BufferTypeOK'
  BY <1>1, <1>2, <1>3, <1>4 DEF BufferTypeOK, buffer
<1>6. SequenceNumbers' /\ Kept' /\ ClosedByWriter'
  BY <1>2 DEF BufferInv, SequenceNumbers, Kept, ClosedByWriter, buffer
<1>7. EveryLineAccounted'
  <2> SUFFICES ASSUME NEW q \in Requests
               PROVE  /\ seen'[q] \cup missed'[q] = 0 .. pos'[q] - 1
                      /\ seen'[q] \cap missed'[q] = {}
    BY DEF EveryLineAccounted
  <2>1. CASE q # r
    BY <1>1, <1>2, <2>1 DEF BufferInv, EveryLineAccounted, BufferTypeOK
  <2>2. CASE q = r
    <3>1. /\ seen'[r] = seen[r] \cup Chunk(pos[r])
          /\ missed'[r] = missed[r] \cup Truncated(pos[r])
          /\ pos'[r] = written
      BY <1>1, <1>2, <1>4 DEF BufferTypeOK
    <3>2. /\ seen[r] \cup missed[r] = 0 .. pos[r] - 1
          /\ seen[r] \cap missed[r] = {}
      BY DEF BufferInv, EveryLineAccounted
    <3> QED
      BY <1>3, <1>4, <2>2, <3>1, <3>2
  <2> QED
    BY <2>1, <2>2
<1>8. NotAhead' /\ EndedAtEnd'
  BY <1>1, <1>2, <1>3, <1>4 DEF BufferInv, NotAhead, EndedAtEnd, BufferTypeOK, buffer
<1>9. SomeReaderUpToDate'
  BY <1>1, <1>2, <1>3, <1>4 DEF SomeReaderUpToDate, News, BufferTypeOK, buffer, WakeupPending
<1> QED
  BY <1>5, <1>6, <1>7, <1>8, <1>9 DEF BufferInv

\* The steps that leave the buffer's lines and the readers' positions alone.
LEMMA OthersKeep ==
  ASSUME BufferInv, Close \/ Signal \/ \E r \in Requests : Connect(r) \/ Wake(r) \/ Disconnect(r)
  PROVE  BufferInv'
<1> USE DEF buffer, progress
<1>1. UNCHANGED <<lines, startSeq, written, pos, seen, missed>>
  BY DEF Close, Signal, SignalAs, Connect, Wake, Disconnect
<1>2. SequenceNumbers' /\ EveryLineAccounted' /\ Kept' /\ NotAhead'
  BY <1>1 DEF BufferInv, SequenceNumbers, EveryLineAccounted, Kept, NotAhead
<1>3. BufferTypeOK'
  BY <1>1 DEF BufferInv, BufferTypeOK, Close, Signal, SignalAs, Connect, Wake, Disconnect
<1>4. ClosedByWriter'
  BY DEF BufferInv, BufferTypeOK, ClosedByWriter, Close, Signal, SignalAs, Connect, Wake, Disconnect
<1>5. EndedAtEnd'
  BY <1>1 DEF BufferInv, BufferTypeOK, EndedAtEnd, Close, Signal, SignalAs, Connect, Wake, Disconnect
<1>6. SomeReaderUpToDate'
  <2>1. CASE Close
    BY <2>1 DEF SomeReaderUpToDate, WakeupPending, Close
  <2>2. CASE Signal
    BY <2>2 DEF SomeReaderUpToDate, WakeupPending, Signal, SignalAs
  <2>3. CASE \E r \in Requests : Connect(r) \/ Wake(r) \/ Disconnect(r)
    BY <2>3 DEF BufferInv, BufferTypeOK, SomeReaderUpToDate, Connect, Wake, Disconnect
  <2> QED
    BY <2>1, <2>2, <2>3
<1> QED
  BY <1>2, <1>3, <1>4, <1>5, <1>6 DEF BufferInv

\* So does every step.
LEMMA BufferSteps == BufferInv /\ [BufferNext]_bufferVars => BufferInv'
<1> SUFFICES ASSUME BufferInv, [BufferNext]_bufferVars PROVE BufferInv'
  OBVIOUS
<1>1. CASE AppendLine
  BY <1>1, AppendKeeps
<1>2. ASSUME NEW r \in Requests, Read(r) PROVE BufferInv'
  BY <1>2, ReadKeeps
<1>3. CASE Close \/ Signal \/ \E r \in Requests : Connect(r) \/ Wake(r) \/ Disconnect(r)
  BY <1>3, OthersKeep
<1>4. CASE UNCHANGED bufferVars
  BY <1>4 DEF bufferVars, buffer, progress, BufferInv, BufferTypeOK, SequenceNumbers, EveryLineAccounted,
              Kept, NotAhead, ClosedByWriter, EndedAtEnd, SomeReaderUpToDate,
              News, WakeupPending
<1> QED
  BY <1>1, <1>2, <1>3, <1>4 DEF BufferNext

\* The invariant holds in every reachable state.
THEOREM BufferInvAlways == BufferSpec => []BufferInv
<1> QED
  BY BufferInitially, BufferSteps, PTL DEF BufferSpec

-----------------------------------------------------------------------------
\* The fields of the buffer and of its readers have their types.
THEOREM BufferTypes == BufferSpec => []BufferTypeOK
<1>1. BufferInv => BufferTypeOK
  BY DEF BufferInv
<1> QED
  BY <1>1, BufferInvAlways, PTL

\* Line n of the output is at position n - startSeq of the buffer, which never
\* holds more than maxBashStreamLines lines.
THEOREM SequenceNumbersRight == BufferSpec => []SequenceNumbers
<1>1. BufferInv => SequenceNumbers
  BY DEF BufferInv
<1> QED
  BY <1>1, BufferInvAlways, PTL

\* Every line up to a reader's position was sent to it or announced to it as
\* truncated, and not both.
THEOREM NothingLostSilently == BufferSpec => []EveryLineAccounted
<1>1. BufferInv => EveryLineAccounted
  BY DEF BufferInv
<1> QED
  BY <1>1, BufferInvAlways, PTL

\* The next Read returns no line twice, and with it the reader has every line
\* the buffer holds.
THEOREM NothingTwice == BufferSpec => []NextReadIsNew
<1>1. BufferInv => NextReadIsNew
  <2> SUFFICES ASSUME BufferInv, NEW r \in Requests
               PROVE  /\ Chunk(pos[r]) \cap (seen[r] \cup missed[r]) = {}
                      /\ \A i \in 1 .. Len(lines) :
                           lines[i] \in seen[r] \cup missed[r] \cup Chunk(pos[r])
    BY DEF NextReadIsNew
  <2>1. pos[r] \in Nat /\ pos[r] <= written /\ written \in Nat /\ startSeq \in Nat
        /\ startSeq + Len(lines) = written /\ Len(lines) \in Nat
    BY DEF BufferInv, BufferTypeOK, NotAhead, SequenceNumbers
  <2>2. Chunk(pos[r]) = {n \in Nat : pos[r] <= n /\ startSeq <= n /\ n < written}
    BY <2>1, ReadReturnsTheRest DEF BufferInv
  <2>3. seen[r] \cup missed[r] = 0 .. pos[r] - 1
    BY DEF BufferInv, EveryLineAccounted
  <2>4. \A i \in 1 .. Len(lines) : lines[i] = startSeq + i - 1
    BY DEF BufferInv, SequenceNumbers
  <2>5. Chunk(pos[r]) \cap (seen[r] \cup missed[r]) = {}
    <3>1. ASSUME NEW n \in Chunk(pos[r]) PROVE n \notin 0 .. pos[r] - 1
      BY <2>1, <2>2, <3>1
    <3> QED
      BY <2>3, <3>1
  <2>6. ASSUME NEW i \in 1 .. Len(lines)
        PROVE  lines[i] \in seen[r] \cup missed[r] \cup Chunk(pos[r])
    <3>1. lines[i] \in Nat /\ startSeq <= lines[i] /\ lines[i] < written
      BY <2>1, <2>4
    <3>2. lines[i] \in 0 .. pos[r] - 1 \/ lines[i] \in Chunk(pos[r])
      BY <2>1, <2>2, <3>1
    <3> QED
      BY <2>3, <3>2
  <2> QED
    BY <2>5, <2>6
<1> QED
  BY <1>1, BufferInvAlways, PTL

\* A reader that was told done has the whole output of the command.
THEOREM EndedReadersHaveAll == BufferSpec => []EndedHasAll
<1>1. BufferInv => EndedHasAll
  BY DEF BufferInv, EndedAtEnd, EveryLineAccounted, EndedHasAll
<1> QED
  BY <1>1, BufferInvAlways, PTL

\* A truncation note is sent only to a reader more than half a buffer behind.
THEOREM TruncationIsForSlowReaders == BufferSpec => []OnlySlowReadersTruncate
<1>1. BufferInv => OnlySlowReadersTruncate
  BY BufferAssumption DEF BufferInv, BufferTypeOK, Kept, SequenceNumbers, OnlySlowReadersTruncate
<1> QED
  BY <1>1, BufferInvAlways, PTL

\* The five together: every reader gets the whole output of the command, each
\* line once or counted in a truncation note, and one that keeps up misses none.
THEOREM ReadersGetTheOutput == BufferSpec => []OutputIsDelivered
BY SequenceNumbersRight, NothingLostSilently, NothingTwice, EndedReadersHaveAll,
   TruncationIsForSlowReaders, PTL
   DEF OutputIsDelivered

\* The token that Append and Close leave is not lost: while every reader waits
\* and has something to read, one of them is about to be woken.
THEOREM SomeReaderIsWoken == BufferSpec => []SomeReaderUpToDate
<1>1. BufferInv => SomeReaderUpToDate
  BY DEF BufferInv
<1> QED
  BY <1>1, BufferInvAlways, PTL

\* A single reader never waits on news without a wake-up on its way.  With two
\* readers this is false.
THEOREM SingleReaderIsWoken ==
  ASSUME NEW reader1, Requests = {reader1}
  PROVE  BufferSpec => []NoLostWakeup
<1>1. BufferInv => NoLostWakeup
  BY DEF BufferInv, SomeReaderUpToDate, NoLostWakeup
<1> QED
  BY <1>1, BufferInvAlways, PTL
=============================================================================
