------------------------------ MODULE BashStream ------------------------------
(***************************************************************************)
(* How the output of a foreground Bash command reaches the tool chip it    *)
(* belongs to.  Four programs meet here without a common lock:             *)
(*   - claude announces a tool_use, runs the command through the wrapper   *)
(*     script of NewBashstreamerEnv, and reports its tool_result;          *)
(*   - monetdroid's event handler stores the tool as the outstanding one   *)
(*     and leaves a signal file for the wrapper (handleBashToolUse);       *)
(*   - the wrapper takes the signal and becomes bashstreamer, which runs   *)
(*     the command and posts its output (streamCommand);                   *)
(*   - handleBashStream matches the connection with the outstanding tool,  *)
(*     and handleBashStreamSSE with the chip a page has opened.            *)
(*                                                                         *)
(* A command, the tool_use that asked for it, the channel and the buffer   *)
(* that StoreOutstandingBash makes for it all go by the tool's name.  What *)
(* matters of the output is which buffer it goes to and when that is       *)
(* closed; BashStreamBuffer models how readers follow a buffer.            *)
(***************************************************************************)
EXTENDS Naturals, Sequences, FiniteSets

CONSTANTS
  Tools,       \* the Bash tool_uses of a session, numbered as claude makes them
  MayDetach,   \* those that may ask for run_in_background
  Readers,     \* pages that open a tool chip
  None,        \* no tool: "" or nil
  Blank        \* what a signal file says before it is written

ASSUME BashStreamAssumption ==
  /\ Tools \subseteq Nat /\ MayDetach \subseteq Tools
  /\ None \notin Tools /\ Blank \notin Tools /\ None # Blank

VARIABLES
  outstanding, connected, streamed, streamLines,
             \* Session.OutstandingBashID, BashConnected, StreamedBashID, and
             \* BashStreamLines with BashStreamCmd, set and cleared with it
  closed,    \* the channels that are closed
  signal,    \* the signal file: None, Blank or a tool
  events,    \* what claude said and monetdroid has not handled
  background, \* those that do
  handler,   \* the event handler: [step, tool]
  said,      \* per tool: "no", "used" or "over", as claude has said
  cmd,       \* where the wrapper or the command of a tool is
  claim,     \* the tool the wrapper read from the signal file
  shell,     \* the child of bashstreamer and the goroutines that copy its
             \* output to the request's body, see Shells
  conn,      \* the request, see Connections
  sink,      \* the buffer the request's handler appends to
  reader,    \* per page: [step, tool, layout, buffer]
  signalled, \* (history) the tools whose signal was written
  early,     \* (history) commands that looked for a signal before that
  together   \* (history) <<t, u>>: u was stored between t's storing and result

session == <<outstanding, connected, streamed, streamLines>>
claude == <<events, said, background>>
streamer == <<claim, shell, conn, sink>>
history == <<signalled, early, together>>
vars == <<session, closed, signal, claude, handler, cmd, streamer, reader, history>>

\* "scan": the child runs; "cut": a line of it was too long; "closed": it is
\* over and so is the body.
Shells == {"scan", "cut", "closed"}

\* "no": none yet; "post": sent, not handled; "matched": the tool is consumed;
\* "copy", "drain": its body is being read; "answered"; "failed".
Connections == {"no", "post", "matched", "copy", "drain", "answered", "failed"}

Idle == [step |-> "idle", tool |-> None]
NoReader == [step |-> "off", tool |-> None, layout |-> None, buffer |-> None]

Init ==
  /\ outstanding = None /\ connected = None /\ streamed = None
  /\ streamLines = None
  /\ closed = {}
  /\ signal = None
  /\ events = <<>>
  /\ background \in SUBSET MayDetach
  /\ handler = Idle
  /\ said = [t \in Tools |-> "no"]
  /\ cmd = [c \in Tools |-> "no"]
  /\ claim = [c \in Tools |-> None]
  /\ shell = [c \in Tools |-> "scan"]
  /\ conn = [c \in Tools |-> "no"]
  /\ sink = [c \in Tools |-> None]
  /\ reader = [r \in Readers |-> NoReader]
  /\ signalled = {} /\ early = {} /\ together = {}

-----------------------------------------------------------------------------
(* claude (external).  It announces a tool and runs its command without    *)
(* waiting for monetdroid; a denied tool ends without one, one in the      *)
(* background while it runs.                                               *)

Announce(t) ==
  /\ said[t] = "no"
  /\ \A u \in Tools : u < t => said[u] # "no"
  /\ said' = [said EXCEPT ![t] = "used"]
  /\ events' = Append(events, [type |-> "tool_use", tool |-> t])
  /\ UNCHANGED <<session, closed, signal, background, handler, cmd, streamer, reader, history>>

\* The main goroutine returns: wg.Wait, cmd.Wait, then the response.
Ended(c) ==
  \/ cmd[c] = "plain"
  \/ cmd[c] = "streaming" /\ shell[c] = "closed" /\ conn[c] \in {"answered", "failed"}

Report(t) ==
  /\ said[t] = "used"
  /\ t \in background \/ cmd[t] = "no" \/ Ended(t)
  /\ said' = [said EXCEPT ![t] = "over"]
  /\ events' = Append(events, [type |-> "tool_result", tool |-> t])
  /\ UNCHANGED <<session, closed, signal, background, handler, cmd, streamer, reader, history>>

-----------------------------------------------------------------------------
(* monetdroid's event handler: one event at a time.                        *)

Comes(type) == events # <<>> /\ Head(events).type = type /\ handler = Idle

\* A background Bash is skipped.  A foreground one waits for the connection
\* of the one before it, two seconds at most (WaitForBashConnected): the
\* handler goes on to store it at any time, connected or not.
HandleToolUse ==
  /\ Comes("tool_use")
  /\ LET t == Head(events).tool
     IN handler' = IF t \in background THEN Idle
                   ELSE [step |-> "store", tool |-> t]
  /\ events' = Tail(events)
  /\ UNCHANGED <<session, closed, signal, said, background, cmd, streamer, reader, history>>

\* Stored or skipped, and its result not handled.
InEvents(type, t) == [type |-> type, tool |-> t] \in {events[i] : i \in 1 .. Len(events)}
UnderWay(t) ==
  /\ said[t] = "used" \/ InEvents("tool_result", t)
  /\ ~InEvents("tool_use", t)

StoreOutstandingBash ==
  /\ handler.step = "store"
  /\ outstanding' = handler.tool
  /\ connected' = handler.tool
  /\ streamLines' = handler.tool
  /\ handler' = [handler EXCEPT !.step = "create"]
  /\ together' = together \cup
       {<<t, handler.tool>> : t \in {u \in Tools \ {handler.tool} : UnderWay(u)}}
  /\ UNCHANGED <<streamed, closed, signal, claude, cmd, streamer, reader, signalled, early>>

\* os.WriteFile creates or empties the file, then writes it.  What it writes
\* to a file that was removed in between nobody reads.
CreateSignal ==
  /\ handler.step = "create"
  /\ signal' = Blank
  /\ handler' = [handler EXCEPT !.step = "write"]
  /\ UNCHANGED <<session, closed, claude, cmd, streamer, reader, history>>

WriteSignal ==
  /\ handler.step = "write"
  /\ signal' = IF signal = Blank THEN handler.tool ELSE signal
  /\ signalled' = signalled \cup {handler.tool}
  /\ handler' = Idle
  /\ UNCHANGED <<session, closed, claude, cmd, streamer, reader, early, together>>

\* An error is only logged.
SignalFails ==
  /\ handler.step \in {"create", "write"}
  /\ handler' = Idle
  /\ UNCHANGED <<session, closed, signal, claude, cmd, streamer, reader, history>>

\* At the tool_result the stream of the tool is over: ConsumeStreamedBash.
HandleToolResult ==
  /\ Comes("tool_result")
  /\ events' = Tail(events)
  /\ IF streamed = Head(events).tool
     THEN streamed' = None /\ streamLines' = None
     ELSE UNCHANGED <<streamed, streamLines>>
  /\ UNCHANGED <<outstanding, connected, closed, signal, said, background, handler, cmd, streamer, reader, history>>

-----------------------------------------------------------------------------
(* The wrapper script.                                                     *)

\* [ -f signal ]: without one the command runs in a plain bash.
Test(c) ==
  /\ said[c] = "used"
  /\ cmd[c] = "no"
  /\ cmd' = [cmd EXCEPT ![c] = IF signal = None THEN "plain" ELSE "tested"]
  /\ early' = IF c \in signalled THEN early ELSE early \cup {c}
  /\ UNCHANGED <<session, closed, signal, claude, handler, streamer, reader, signalled, together>>

\* cut: nothing, if the file is empty or gone.
ReadSignal(c) ==
  /\ cmd[c] = "tested"
  /\ claim' = [claim EXCEPT ![c] = IF signal \in Tools THEN signal ELSE None]
  /\ cmd' = [cmd EXCEPT ![c] = "read"]
  /\ UNCHANGED <<session, closed, signal, claude, handler, shell, conn, sink, reader, history>>

\* rm -f; exec bashstreamer, which starts the child and sends its request.
RemoveSignal(c) ==
  /\ cmd[c] = "read"
  /\ signal' = None
  /\ cmd' = [cmd EXCEPT ![c] = "streaming"]
  /\ conn' = [conn EXCEPT ![c] = "post"]
  /\ UNCHANGED <<session, closed, claude, handler, claim, shell, sink, reader, history>>

-----------------------------------------------------------------------------
(* bashstreamer.                                                           *)

\* Bound: one command at a time has a request that failed or a line cut off.
MayFail == \A c \in Tools : conn[c] # "failed" /\ shell[c] # "cut"

\* A line over maxStreamLineBytes ends the scan of its stream.  Nobody reads
\* the stream again: a child with more to say than its pipe holds is stuck.
PrintOverlong(c) ==
  /\ MayFail
  /\ cmd[c] = "streaming" /\ shell[c] = "scan"
  /\ shell' = [shell EXCEPT ![c] = "cut"]
  /\ UNCHANGED <<session, closed, signal, claude, handler, cmd, claim, conn, sink, reader, history>>

\* streamToPipe blocks on every line until the request's handler has read it,
\* or until the request has failed: then the pipe's other end is closed.
BodyIsRead(c) == conn[c] \in {"copy", "drain", "failed"}

\* The child exits, both its streams are read to their ends (wg.Wait) and the
\* closer goroutine closes the body.
ShellExitsFrom(c, state) ==
  /\ cmd[c] = "streaming" /\ shell[c] = state
  /\ shell' = [shell EXCEPT ![c] = "closed"]
  /\ UNCHANGED <<session, closed, signal, claude, handler, cmd, claim, conn, sink, reader, history>>

ShellExits(c) == BodyIsRead(c) /\ ShellExitsFrom(c, "scan")
QuietShellExits(c) == ShellExitsFrom(c, "scan")   \* it has printed nothing
CutShellExits(c) == BodyIsRead(c) /\ ShellExitsFrom(c, "cut")

\* The server cannot be reached or goes away.  The transport closes the
\* pipe's other end.
RequestFails(c) ==
  /\ MayFail
  /\ conn[c] = "post"
  /\ conn' = [conn EXCEPT ![c] = "failed"]
  /\ UNCHANGED <<session, closed, signal, claude, handler, cmd, claim, shell, sink, reader, history>>

-----------------------------------------------------------------------------
(* handleBashStream.                                                       *)

\* ConsumeOutstandingBash(claim[c]) closes the channel of the tool it consumes.
Matches(c) == claim[c] # None /\ claim[c] = outstanding

ConsumeAs(c, newClosed) ==
  /\ conn[c] = "post"
  /\ Matches(c)
  /\ outstanding' = None
  /\ connected' = None
  /\ streamed' = outstanding
  /\ closed' = newClosed
  /\ conn' = [conn EXCEPT ![c] = "matched"]
  /\ UNCHANGED <<streamLines, signal, claude, handler, cmd, claim, shell, sink, reader, history>>

ConsumeSilently(c) == ConsumeAs(c, closed)   \* wrong: the channel stays open
ConsumeOutstandingBash(c) == ConsumeAs(c, closed \cup ({connected} \ {None}))

DrainUnmatched(c) ==   \* wrong: a request without a buffer is not read
  /\ conn[c] = "post" /\ ~Matches(c)
  /\ conn' = [conn EXCEPT ![c] = "drain"]
  /\ UNCHANGED <<session, closed, signal, claude, handler, cmd, claim, shell, sink, reader, history>>

Drain(c) ==
  /\ \/ conn[c] = "post" /\ ~Matches(c)
     \/ conn[c] = "matched" /\ streamLines = None
  /\ conn' = [conn EXCEPT ![c] = "drain"]
  /\ UNCHANGED <<session, closed, signal, claude, handler, cmd, claim, shell, sink, reader, history>>

\* The buffer is read under the lock a second time.
TakeBuffer(c) ==
  /\ conn[c] = "matched" /\ streamLines # None
  /\ sink' = [sink EXCEPT ![c] = streamLines]
  /\ conn' = [conn EXCEPT ![c] = "copy"]
  /\ UNCHANGED <<session, closed, signal, claude, handler, cmd, claim, shell, reader, history>>

\* At the end of the body the buffer is closed and the request answered.
EndRequest(c) ==
  /\ conn[c] \in {"copy", "drain"}
  /\ shell[c] = "closed"
  /\ conn' = [conn EXCEPT ![c] = "answered"]
  /\ UNCHANGED <<session, closed, signal, claude, handler, cmd, claim, shell, sink, reader, history>>

\* The connection breaks: the handler closes the buffer after an error line.
BreakRequest(c) ==
  /\ MayFail
  /\ conn[c] \in {"copy", "drain"}
  /\ conn' = [conn EXCEPT ![c] = "failed"]
  /\ UNCHANGED <<session, closed, signal, claude, handler, cmd, claim, shell, sink, reader, history>>

-----------------------------------------------------------------------------
(* A page opens a tool chip: first the div, then the event stream in it.   *)
(* One that leaves takes no further step and changes nothing here.         *)

\* BashCmdForTool: the command the session streams, if it is the tool's.
CmdForTool(t) == IF t \in {streamed, outstanding} THEN streamLines ELSE None

\* It picks the layout of the div.
OpenChip(r, t) ==
  /\ reader[r].step = "off"
  /\ said[t] # "no" /\ t \notin background
  /\ reader' = [reader EXCEPT ![r].step = "opened", ![r].tool = t,
       ![r].layout = CmdForTool(t)]
  /\ UNCHANGED <<session, closed, signal, claude, handler, cmd, streamer, history>>

\* AwaitBashStreamForTool(t): what one look under the lock finds.
StreamAny(t) == streamLines # None   \* wrong: whatever streams
Stream(t) == streamed = t /\ streamLines # None

Attached(r) == [reader EXCEPT ![r].step = "reading", ![r].buffer = streamLines]
Refused(r) == [reader EXCEPT ![r] = [NoReader EXCEPT !.step = "refused"]]

AwaitBashStream(r) ==
  LET t == reader[r].tool
  IN
  /\ reader[r].step = "opened"
  /\ reader' = IF Stream(t) THEN Attached(r)
               ELSE IF outstanding = t /\ connected # None
               THEN [reader EXCEPT ![r].step = "waiting", ![r].buffer = connected]
               ELSE Refused(r)
  /\ UNCHANGED <<session, closed, signal, claude, handler, cmd, streamer, history>>

\* While it waits, .buffer is the channel it waits for.
Connected(r) ==
  /\ reader[r].step = "waiting"
  /\ reader[r].buffer \in closed
  /\ reader' = IF Stream(reader[r].tool) THEN Attached(r)
               ELSE Refused(r)
  /\ UNCHANGED <<session, closed, signal, claude, handler, cmd, streamer, history>>

\* The buffer is closed and read to its end.
Done(b) == \E c \in Tools : sink[c] = b /\ conn[c] \in {"answered", "failed"}

EndReading(r) ==
  /\ reader[r].step = "reading"
  /\ Done(reader[r].buffer)
  /\ reader' = [reader EXCEPT ![r].step = "ended"]
  /\ UNCHANGED <<session, closed, signal, claude, handler, cmd, streamer, history>>

-----------------------------------------------------------------------------
Next ==
  \/ \E t \in Tools : Announce(t) \/ Report(t)
  \/ HandleToolUse \/ StoreOutstandingBash \/ CreateSignal \/ WriteSignal \/ SignalFails
  \/ HandleToolResult
  \/ \E c \in Tools :
       \/ Test(c) \/ ReadSignal(c) \/ RemoveSignal(c)
       \/ PrintOverlong(c) \/ ShellExits(c) \/ QuietShellExits(c) \/ CutShellExits(c)
       \/ RequestFails(c) \/ BreakRequest(c)
       \/ ConsumeOutstandingBash(c) \/ Drain(c) \/ TakeBuffer(c) \/ EndRequest(c)
  \/ \E r \in Readers :
       \/ \E t \in Tools : OpenChip(r, t)
       \/ AwaitBashStream(r) \/ Connected(r) \/ EndReading(r)

Spec == Init /\ [][Next]_vars

\* Goroutines and processes that can run do run, and a command whose output is
\* read ends.  claude need not announce, run or report anything, and nothing
\* has to fail.
Fairness ==
  /\ WF_vars(HandleToolUse \/ StoreOutstandingBash \/ CreateSignal \/ WriteSignal \/ HandleToolResult)
  /\ \A c \in Tools :
       /\ WF_vars(ReadSignal(c) \/ RemoveSignal(c) \/ ShellExits(c))
       /\ WF_vars(ConsumeOutstandingBash(c) \/ Drain(c) \/ TakeBuffer(c) \/ EndRequest(c))
  /\ \A r \in Readers : WF_vars(AwaitBashStream(r) \/ Connected(r) \/ EndReading(r))

FairSpec == Spec /\ Fairness

-----------------------------------------------------------------------------
TypeOK ==
  /\ {outstanding, connected, streamed, streamLines} \subseteq Tools \cup {None}
  /\ closed \subseteq Tools /\ signal \in Tools \cup {None, Blank}
  /\ handler.step \in {"idle", "store", "create", "write"}
  /\ \A c \in Tools :
       /\ cmd[c] \in {"no", "plain", "tested", "read", "streaming"}
       /\ conn[c] \in Connections /\ shell[c] \in Shells
       /\ claim[c] \in Tools \cup {None} /\ sink[c] \in Tools \cup {None}
       /\ conn[c] = "copy" => sink[c] # None

\* t and another foreground Bash were under way at the same time.
Crowded(t) == \E p \in together : t \in {p[1], p[2]}
\* Another command took t's signal, or writes to t's buffer.
Takes(c, t) == c # t /\ t \in {claim[c], sink[c]}
Taken(t) == \E c \in Tools : Takes(c, t)

\* A chip shows the output of its own command, in the layout chosen for it,
\* and all of it once it is told that the stream is done.  The exceptions are
\* those of an exchange without acknowledgement: a command takes what belongs
\* to another one only if it started before its own signal was written (so
\* does every background command) or was under way when the other was stored;
\* two tools under way at once share the session's fields; and a chip opened
\* before its tool was stored has no layout.
ChipShowsItsCommand ==
  /\ TypeOK
  /\ \A c, t \in Tools : Takes(c, t) => c \in early \/ <<c, t>> \in together
  /\ \A r \in {q \in Readers : reader[q].step \in {"reading", "ended"}} :
       LET t == reader[r].tool
           b == reader[r].buffer
       IN
       /\ b # t => <<t, b>> \in together \/ Taken(t)
       /\ reader[r].layout # b => reader[r].layout = None \/ Crowded(t) \/ Taken(t)
       /\ \A c \in Tools \ {t} : sink[c] = b =>
            c \in early \/ {<<t, c>>, <<c, t>>} \cap together # {} \/ Taken(t)
       /\ reader[r].step = "ended" /\ ~Crowded(t) /\ ~Taken(t) /\ conn[t] # "failed" =>
            sink[t] = t /\ shell[t] = "closed"

\* There is something a page's request has to be told: the connection of the
\* tool it waits for is there, or the stream it reads goes on and will end.
Owed(r) ==
  LET t == reader[r].tool
  IN
  \/ /\ reader[r].step = "waiting"
     /\ \E c \in Tools : claim[c] = t /\ conn[c] \in {"matched", "copy"}
  \/ /\ reader[r].step = "reading"
     /\ ~Crowded(t) /\ ~Taken(t) /\ \A c \in Tools : shell[c] # "cut"

\* A page that waits for a tool is woken when the tool's connection is there,
\* even if another tool replaces the session's channel right after; and a page
\* that reads is told that the stream is done, unless two tools shared the
\* session's fields or an overlong line keeps the command from ending.
ReadersAreServed == \A r \in Readers : []<>~Owed(r)

\* Streaming never holds up a command, whether its connection is matched,
\* turned away, late or broken: only a line that is too long can.
CommandsEnd ==
  \A c \in Tools : []<>(cmd[c] = "no" \/ Ended(c) \/ shell[c] = "cut")
=============================================================================
