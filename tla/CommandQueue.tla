---------------------------- MODULE CommandQueue ----------------------------
(***************************************************************************)
(* User messages of one session on their way into claude's native command  *)
(* queue, and the copy of that queue monetdroid keeps for the queue bar    *)
(* (Session.Queue).  The copy is written by HTTP handlers (send, stop,     *)
(* cancel, close), by the scan goroutine of every claude process, and by   *)
(* the goroutine that watches each process die; none of them holds a lock  *)
(* across a conversation with the process.                                 *)
(*                                                                         *)
(* A goroutine is an agent with a program counter; a step ends where the   *)
(* code releases a lock, writes to a pipe or waits.  The claude CLI is     *)
(* external: it reads stdin in order, keeps its own queue and answers on   *)
(* stdout in order.                                                        *)
(***************************************************************************)
EXTENDS Naturals, Sequences, FiniteSets

CONSTANTS
  Uuids,     \* messages; each is sent once, by a handleSend goroutine of its own
  Stops,     \* /stop requests
  Cancels,   \* /cancel-queue requests
  MaxProcs,  \* bound on the claude processes started for the session
  TimesOut,  \* handlers that may give up a control request after 30 seconds
  Faults     \* what else may go wrong: a subset of FaultKinds

\* exit: the CLI exits by itself; close: the session is closed; refuse: claude
\* drops a queued message; overlap: a send starts while another one is still in
\* its handler; lateWatcher: a new process is up before the watcher of the last
\* one ran.
FaultKinds == {"exit", "close", "refuse", "overlap", "lateWatcher"}

ASSUME ConstantsAssumption ==
  /\ MaxProcs \in Nat
  /\ Faults \subseteq FaultKinds
  /\ Uuids \cap (Stops \cup Cancels) = {}
  /\ Stops \cap Cancels = {}
  /\ \A a \in Uuids \cup Stops \cup Cancels, p \in 1 .. MaxProcs :
       a # <<"scan", p>> /\ a # <<"watch", p>>

Procs == 1 .. MaxProcs
NoProc == 0

\* The scan goroutine and the death watcher of a process, and every agent.
Scanner(p) == <<"scan", p>>
Watcher(p) == <<"watch", p>>
Requests == Stops \cup Cancels
Handlers == Uuids \cup Requests
Agents == Handlers \cup {Scanner(p) : p \in Procs} \cup {Watcher(p) : p \in Procs}

VARIABLES
  proc,      \* Session.proc
  spawned,   \* number of processes started so far
  queue,     \* the uuids in Session.Queue
  shown,     \* the uuids whose user_message bubble was broadcast
  bar,       \* the uuids in the last queue bar pushed to the clients
  announced, \* the last of session_started / session_ended broadcast
  closed,    \* the session was removed from the manager
  pc,        \* where each agent is
  hold,      \* the process a handler works with
  arg,       \* the uuids a request or a scanner works with
  snap,      \* QueuedEntries as read by an agent that is pushing the bar
  alive,     \* the processes whose CLI is running
  dead,      \* the processes whose Dead channel is closed
  stdin, stdout, \* the pipes of each process
  pending,   \* the CLI's own queue
  turn,      \* the message the CLI is running, as a set of at most one
  ignored,   \* (history) started frames that found no entry
  late,      \* (history) rows pushed after their entry had left
  sentBefore, exposed \* (history) see StopWrite and StopReconcile

session == <<proc, spawned, queue, shown, bar, announced, closed>>
local == <<pc, hold, arg, snap>>
cli == <<alive, dead, stdin, stdout, pending, turn>>
history == <<ignored, late, sentBefore, exposed>>
vars == <<session, local, cli, history>>

-----------------------------------------------------------------------------
Init ==
  /\ proc = NoProc
  /\ spawned = 0
  /\ queue = {}
  /\ shown = {}
  /\ bar = {}
  /\ announced = "none"
  /\ closed = FALSE
  /\ pc = [a \in Agents |-> IF a \in Handlers THEN "idle" ELSE "off"]
  /\ hold = [a \in Handlers |-> NoProc]
  /\ arg = [a \in Agents |-> {}]
  /\ snap = [a \in Agents |-> {}]
  /\ alive = {}
  /\ dead = {}
  /\ stdin = [p \in Procs |-> <<>>]
  /\ stdout = [p \in Procs |-> <<>>]
  /\ pending = [p \in Procs |-> {}]
  /\ turn = [p \in Procs |-> {}]
  /\ ignored = {}
  /\ late = {}
  /\ sentBefore = [a \in Stops |-> {}]
  /\ exposed = {}

Goto(a, from, to) ==
  /\ pc[a] = from
  /\ pc' = [pc EXCEPT ![a] = to]

Live(p) == p # NoProc /\ p \notin dead

\* A frame on stdin (op: user, interrupt, cancel) or on stdout (op: started,
\* cancelled, refused, reply).  of is a uuid as a singleton, or the uuids a
\* reply carries: still_queued, or the message if it was cancelled.
Frame(op, id, of) == [op |-> op, id |-> id, of |-> of]

Frames ==
  [op : {"user", "started", "cancelled", "refused"}, id : Uuids, of : SUBSET Uuids]
    \cup [op : {"interrupt"}, id : Stops, of : SUBSET Uuids]
    \cup [op : {"cancel"}, id : Cancels, of : SUBSET Uuids]
    \cup [op : {"reply"}, id : Requests, of : SUBSET Uuids]

\* The program counters: of the senders, of the requests, of a scanner, of a
\* watcher, and those of the queue-bar push every agent may be in.
SendPcs == {"idle", "ensure", "start", "init", "announce", "add", "send",
            "sent", "failed", "addPush", "failPush", "push"}
RequestPcs == {"idle", "write", "await", "replied", "drop", "done", "stopPush",
               "cancelPush", "push"}
ScanPcs == {"off", "read", "render", "eof", "scanPush", "push"}
WatchPcs == {"off", "wait", "clear", "end", "done", "endPush", "push"}
PcValues == SendPcs \cup RequestPcs \cup ScanPcs \cup WatchPcs

Write(p, frame) == stdin' = [stdin EXCEPT ![p] = Append(@, frame)]

\* CLIs end, by themselves or killed: what they have not done is lost.
Gone(ps) ==
  LET Reset(f, to) == [p \in Procs |-> IF p \in ps THEN to ELSE f[p]] IN
  /\ alive' = alive \ ps
  /\ stdin' = Reset(stdin, <<>>)
  /\ pending' = Reset(pending, {})
  /\ turn' = Reset(turn, {})
  /\ UNCHANGED <<dead, stdout>>

\* A handler that is done with its process forgets it.
Release(a) == hold' = [hold EXCEPT ![a] = NoProc]

-----------------------------------------------------------------------------
(* pushQueueBar: the entries are read under the session lock, the bar is   *)
(* appended to the event log afterwards.  A closed session is no longer    *)
(* found by BroadcastToSession, and nothing is pushed.                     *)

PushRead(a, from) ==
  /\ Goto(a, from, "push")
  /\ snap' = [snap EXCEPT ![a] = queue]
  /\ UNCHANGED <<session, hold, arg, cli, history>>

AfterPush(a) ==
  IF a \in Uuids THEN IF arg[a] = {} THEN "send" ELSE "failed"
  ELSE IF a \in Requests THEN "done"
  ELSE IF a[1] = "scan" THEN "read" ELSE "end"

PushAppend(a) ==
  /\ Goto(a, "push", AfterPush(a))
  /\ bar' = IF closed THEN bar ELSE snap[a]
  /\ late' = IF closed THEN late ELSE late \cup (snap[a] \ queue)
  /\ snap' = [snap EXCEPT ![a] = {}]
  /\ UNCHANGED <<proc, spawned, queue, shown, announced, closed, hold, arg,
                 cli, ignored, sentBefore, exposed>>

-----------------------------------------------------------------------------
(* handleSend on an existing session: SendMessage and ensureProcess.       *)

InSend == {u \in Uuids : pc[u] \notin {"idle", "sent", "failed"}}

SendBegin(u) ==
  /\ ~closed
  /\ "overlap" \in Faults \/ InSend = {}
  /\ Goto(u, "idle", "ensure")
  /\ UNCHANGED <<session, hold, arg, snap, cli, history>>

EnsureLive(u) ==
  /\ Live(proc)
  /\ Goto(u, "ensure", "add")
  /\ hold' = [hold EXCEPT ![u] = proc]
  /\ UNCHANGED <<session, arg, snap, cli, history>>

\* No model is selected, or the command cannot be started.
EnsureFails(u) ==
  /\ ~Live(proc)
  /\ Goto(u, "ensure", "failed")
  /\ UNCHANGED <<session, hold, arg, snap, cli, history>>

\* The decision to start a process; StartProcessWithConfig starts the CLI and
\* its scan goroutine and then waits for the answer to initialize.
EnsureStart(u) ==
  /\ ~Live(proc)
  /\ spawned < MaxProcs
  /\ Goto(u, "ensure", "start")
  /\ spawned' = spawned + 1
  /\ hold' = [hold EXCEPT ![u] = spawned + 1]
  /\ UNCHANGED <<proc, queue, shown, bar, announced, closed, arg, snap, cli,
                 history>>

StartProcess(u) ==
  /\ pc[u] = "start"
  /\ pc' = [pc EXCEPT ![u] = "init", ![Scanner(hold[u])] = "read"]
  /\ alive' = alive \cup {hold[u]}
  /\ UNCHANGED <<session, hold, arg, snap, dead, stdin, stdout, pending, turn,
                 history>>

\* initialize fails when the process dies or does not answer: StartProcess
\* kills it and SendMessage returns without registering the message.
StartFailsKilling(u, killed) ==
  /\ hold[u] \in dead \/ u \in TimesOut
  /\ Goto(u, "init", "failed")
  /\ Gone(killed)
  /\ Release(u)
  /\ UNCHANGED <<session, arg, snap, history>>

StartFailsNoKill(u) == StartFailsKilling(u, {})  \* wrong: the CLI is left running
StartFails(u) == StartFailsKilling(u, {hold[u]})

SetProc(u) ==
  /\ "lateWatcher" \in Faults
       \/ \A p \in dead : pc[Watcher(p)] \in {"off", "done"}
  /\ Goto(u, "init", "announce")
  /\ proc' = hold[u]
  /\ UNCHANGED <<spawned, queue, shown, bar, announced, closed, hold, arg,
                 snap, cli, history>>

\* Broadcast(session_started) and the start of watchProcessDeath.
AnnounceStartAs(u, what) ==
  /\ pc[u] = "announce"
  /\ pc' = [pc EXCEPT ![u] = "add", ![Watcher(hold[u])] = "wait"]
  /\ announced' = IF closed THEN announced ELSE what
  /\ UNCHANGED <<proc, spawned, queue, shown, bar, closed, hold, arg, snap,
                 cli, history>>

AnnounceStartSilently(u) == AnnounceStartAs(u, announced)  \* wrong: no broadcast
AnnounceStart(u) == AnnounceStartAs(u, "started")

\* IsBusy is a hint read from the model, which lags behind: it may be false
\* whenever it is read, and true once a first message was broadcast.
AddQueued(u) ==
  /\ \/ Goto(u, "add", "send")
     \/ shown # {} /\ Goto(u, "add", "addPush")
  /\ queue' = queue \cup {u}
  /\ UNCHANGED <<proc, spawned, shown, bar, announced, closed, hold, arg, snap,
                 cli, history>>

SendUserMessage(u) ==
  /\ hold[u] \in alive
  /\ Goto(u, "send", "sent")
  /\ Write(hold[u], Frame("user", u, {u}))
  /\ Release(u)
  /\ UNCHANGED <<session, arg, snap, alive, dead, stdout, pending, turn,
                 history>>

\* The write to a CLI that exited fails; arg marks the error path.
SendFailsDropping(u, dropped) ==
  /\ hold[u] \notin alive
  /\ Goto(u, "send", "failPush")
  /\ queue' = queue \ dropped
  /\ arg' = [arg EXCEPT ![u] = {u}]
  /\ Release(u)
  /\ UNCHANGED <<proc, spawned, shown, bar, announced, closed, snap, cli,
                 history>>

SendFailsKeeping(u) == SendFailsDropping(u, {})  \* wrong: the entry stays
SendFails(u) == SendFailsDropping(u, {u})

-----------------------------------------------------------------------------
(* Control requests: a request is registered, written, and answered by the *)
(* scan goroutine; the handler gives up when the write fails, when the     *)
(* process dies, or after 30 seconds.                                      *)

Forget(a) == sentBefore' = [b \in Stops |-> IF a = b THEN {} ELSE sentBefore[b]]

RequestFails(a, next) ==
  /\ \/ pc[a] = "write" /\ hold[a] \notin alive
     \/ pc[a] \in {"await", "replied"} /\ (hold[a] \in dead \/ a \in TimesOut)
  /\ pc' = [pc EXCEPT ![a] = next]
  /\ arg' = [arg EXCEPT ![a] = {}]
  /\ Release(a)
  /\ Forget(a)
  /\ UNCHANGED <<session, snap, cli, ignored, late, exposed>>

\* handleStop.
StopBegin(a) ==
  /\ ~closed
  /\ Goto(a, "idle", IF Live(proc) THEN "write" ELSE "done")
  /\ hold' = [hold EXCEPT ![a] = IF Live(proc) THEN proc ELSE NoProc]
  /\ UNCHANGED <<session, arg, snap, cli, history>>

StopWrite(a) ==
  /\ hold[a] \in alive
  /\ Goto(a, "write", "await")
  /\ Write(hold[a], Frame("interrupt", a, {}))
  /\ sentBefore' = [sentBefore EXCEPT ![a] = {u \in Uuids : pc[u] = "sent"}]
  /\ UNCHANGED <<session, hold, arg, snap, alive, dead, stdout, pending, turn,
                 ignored, late, exposed>>

\* ReconcileQueued(still_queued).  exposed collects the entries that were
\* registered by now but not sent when the interrupt was.
StopReconcileTo(a, stillQueued) ==
  /\ Goto(a, "replied", "stopPush")
  /\ queue' = queue \cap stillQueued
  /\ exposed' = exposed \cup (queue \ sentBefore[a])
  /\ arg' = [arg EXCEPT ![a] = {}]
  /\ Release(a)
  /\ Forget(a)
  /\ UNCHANGED <<proc, spawned, shown, bar, announced, closed, snap, cli,
                 ignored, late>>

StopReconcileNil(a) == StopReconcileTo(a, {})  \* wrong: the reply is not used
StopReconcile(a) == StopReconcileTo(a, arg[a])

\* handleCancelQueue for an entry that is in the queue.
CancelBegin(c, u) ==
  /\ ~closed
  /\ u \in queue
  /\ Goto(c, "idle", IF Live(proc) THEN "write" ELSE "drop")
  /\ hold' = [hold EXCEPT ![c] = proc]
  /\ arg' = [arg EXCEPT ![c] = {u}]
  /\ UNCHANGED <<session, snap, cli, history>>

CancelWrite(c) ==
  /\ hold[c] \in alive
  /\ Goto(c, "write", "await")
  /\ Write(hold[c], Frame("cancel", c, arg[c]))
  /\ UNCHANGED <<session, hold, arg, snap, alive, dead, stdout, pending, turn,
                 history>>

\* The entry leaves if claude confirmed the cancellation (the reply carries
\* it), or if the process was already gone.
CancelResolve(c) ==
  /\ pc[c] \in {"replied", "drop"}
  /\ pc' = [pc EXCEPT ![c] = "cancelPush"]
  /\ queue' = queue \ arg[c]
  /\ Release(c)
  /\ UNCHANGED <<proc, spawned, shown, bar, announced, closed, arg, snap, cli,
                 history>>

\* handleClose: the session leaves the manager, its process is killed.
Close ==
  /\ "close" \in Faults
  /\ ~closed
  /\ closed' = TRUE
  /\ Gone(IF Live(proc) THEN {proc} ELSE {})
  /\ UNCHANGED <<proc, spawned, queue, shown, bar, announced, local, history>>

-----------------------------------------------------------------------------
(* The scan goroutine: one frame of stdout at a time, in order.            *)

Receive(p, ops) ==
  /\ pc[Scanner(p)] = "read"
  /\ stdout[p] # <<>>
  /\ Head(stdout[p]).op \in ops
  /\ stdout' = [stdout EXCEPT ![p] = Tail(@)]
  /\ UNCHANGED <<alive, dead, stdin, pending, turn>>

\* handleControlResponse: an answer nobody waits for any more is dropped.
ScanReplyOf(p, answer) ==
  LET id == Head(stdout[p]).id IN
  /\ Receive(p, {"reply"})
  /\ IF pc[id] = "await"
       THEN /\ pc' = [pc EXCEPT ![id] = "replied"]
            /\ arg' = [arg EXCEPT ![id] = answer]
       ELSE UNCHANGED <<pc, arg>>
  /\ UNCHANGED <<session, hold, snap, history>>

\* wrong: any answer to a cancel counts as a confirmation
ScanReplyUnread(p) == ScanReplyOf(p, arg[Head(stdout[p]).id])
ScanReply(p) == ScanReplyOf(p, Head(stdout[p]).of)

\* handleCommandLifecycle(started): TakeQueued, then AdvanceTip and the
\* broadcasts of user_message and running; a uuid without entry is ignored.
TakeQueuedFrom(p, entries) ==
  LET u == Head(stdout[p]).id IN
  /\ Receive(p, {"started"})
  /\ IF u \in entries
       THEN /\ pc' = [pc EXCEPT ![Scanner(p)] = "render"]
            /\ arg' = [arg EXCEPT ![Scanner(p)] = {u}]
            /\ queue' = queue \ {u}
            /\ UNCHANGED ignored
       ELSE /\ ignored' = ignored \cup {u}
            /\ UNCHANGED <<pc, arg, queue>>
  /\ UNCHANGED <<proc, spawned, shown, bar, announced, closed, hold, snap,
                 late, sentBefore, exposed>>

TakeQueuedAlways(p) == TakeQueuedFrom(p, Uuids)  \* wrong: renders what left
TakeQueued(p) == TakeQueuedFrom(p, queue)

RenderStarted(p) ==
  /\ Goto(Scanner(p), "render", "scanPush")
  /\ shown' = IF closed THEN shown ELSE shown \cup arg[Scanner(p)]
  /\ arg' = [arg EXCEPT ![Scanner(p)] = {}]
  /\ UNCHANGED <<proc, spawned, queue, bar, announced, closed, hold, snap, cli,
                 history>>

\* handleCommandLifecycle(cancelled, discarded, refused).
ScanDropped(p) ==
  /\ Receive(p, {"cancelled", "refused"})
  /\ pc' = [pc EXCEPT ![Scanner(p)] = "scanPush"]
  /\ queue' = queue \ {Head(stdout[p]).id}
  /\ UNCHANGED <<proc, spawned, shown, bar, announced, closed, hold, arg, snap,
                 history>>

\* End of stdout: scan closes dead.
ScanEof(p) ==
  /\ p \notin alive
  /\ stdout[p] = <<>>
  /\ Goto(Scanner(p), "read", "eof")
  /\ dead' = dead \cup {p}
  /\ UNCHANGED <<session, hold, arg, snap, alive, stdin, stdout, pending, turn,
                 history>>

-----------------------------------------------------------------------------
(* watchProcessDeath.                                                      *)

WatchCheck(p) ==
  /\ p \in dead
  /\ Goto(Watcher(p), "wait", IF proc = p THEN "clear" ELSE "done")
  /\ UNCHANGED <<session, hold, arg, snap, cli, history>>

\* ReconcileQueued(nil).
WatchClear(p) ==
  /\ Goto(Watcher(p), "clear", "endPush")
  /\ queue' = {}
  /\ UNCHANGED <<proc, spawned, shown, bar, announced, closed, hold, arg, snap,
                 cli, history>>

WatchEnd(p) ==
  /\ Goto(Watcher(p), "end", "done")
  /\ announced' = IF closed THEN announced ELSE "ended"
  /\ UNCHANGED <<proc, spawned, queue, shown, bar, closed, hold, arg, snap,
                 cli, history>>

-----------------------------------------------------------------------------
(* The claude CLI, as the lifecycle frames and the control responses the   *)
(* code handles show it.                                                   *)

Emit(p, frames) == stdout' = [stdout EXCEPT ![p] = @ \o frames]

CliUser(p) ==
  LET u == Head(stdin[p]).id IN
  /\ Head(stdin[p]).op = "user"
  /\ pending' = [pending EXCEPT ![p] = @ \cup {u}]
  /\ UNCHANGED <<stdout, turn>>

\* An interrupt ends the turn and reports what is still queued.
CliInterrupt(p) ==
  /\ Head(stdin[p]).op = "interrupt"
  /\ turn' = [turn EXCEPT ![p] = {}]
  /\ Emit(p, <<Frame("reply", Head(stdin[p]).id, pending[p])>>)
  /\ UNCHANGED pending

\* A queued message is removed, with a frame of its own; one that is not
\* queued (not arrived yet, or started) is not cancelled.
CliCancel(p) ==
  LET f == Head(stdin[p])
      removed == f.of \cap pending[p]
      answer == <<Frame("reply", f.id, removed)>>
  IN
  /\ f.op = "cancel"
  /\ pending' = [pending EXCEPT ![p] = @ \ removed]
  /\ IF removed = {} THEN Emit(p, answer)
     ELSE \E u \in removed :
            LET notice == <<Frame("cancelled", u, {})>>
            IN Emit(p, notice \o answer) \/ Emit(p, answer \o notice)
  /\ UNCHANGED turn

CliRead(p) ==
  /\ p \in alive
  /\ stdin[p] # <<>>
  /\ CliUser(p) \/ CliInterrupt(p) \/ CliCancel(p)
  /\ stdin' = [stdin EXCEPT ![p] = Tail(@)]
  /\ UNCHANGED <<session, local, alive, dead, history>>

CliStart(p) ==
  /\ p \in alive
  /\ turn[p] = {}
  /\ \E u \in pending[p] :
       /\ turn' = [turn EXCEPT ![p] = {u}]
       /\ pending' = [pending EXCEPT ![p] = @ \ {u}]
       /\ Emit(p, <<Frame("started", u, {})>>)
  /\ UNCHANGED <<session, local, alive, dead, stdin, history>>

CliFinish(p) ==
  /\ p \in alive
  /\ turn[p] # {}
  /\ turn' = [turn EXCEPT ![p] = {}]
  /\ UNCHANGED <<session, local, alive, dead, stdin, stdout, pending, history>>

CliRefuse(p) ==
  /\ "refuse" \in Faults
  /\ p \in alive
  /\ \E u \in pending[p] :
       /\ pending' = [pending EXCEPT ![p] = @ \ {u}]
       /\ Emit(p, <<Frame("refused", u, {})>>)
  /\ UNCHANGED <<session, local, alive, dead, stdin, turn, history>>

CliExit(p) ==
  /\ "exit" \in Faults
  /\ p \in alive
  /\ Gone({p})
  /\ UNCHANGED <<session, local, history>>

-----------------------------------------------------------------------------
PushStart(a) == \E from \in {"addPush", "failPush", "stopPush", "cancelPush",
                             "scanPush", "endPush"} : PushRead(a, from)
Push(a) == PushStart(a) \/ PushAppend(a)

\* Steps of a handler that was called: they happen without further input.
SendStep(u) ==
  \/ EnsureLive(u) \/ EnsureFails(u) \/ EnsureStart(u) \/ StartProcess(u) \/ SetProc(u)
  \/ AnnounceStart(u) \/ AddQueued(u) \/ SendUserMessage(u) \/ SendFails(u)
StopStep(a) == StopWrite(a) \/ StopReconcile(a) \/ RequestFails(a, "done")
CancelStep(c) == CancelWrite(c) \/ CancelResolve(c) \/ RequestFails(c, "cancelPush")
ScanStep(p) == ScanReply(p) \/ TakeQueued(p) \/ RenderStarted(p) \/ ScanDropped(p)
               \/ ScanEof(p)
WatchStep(p) == WatchCheck(p) \/ WatchClear(p) \/ WatchEnd(p)
CliStep(p) == CliRead(p) \/ CliStart(p) \/ CliFinish(p)

Next ==
  \/ \E u \in Uuids : SendBegin(u) \/ SendStep(u) \/ StartFails(u)
  \/ \E a \in Stops : StopBegin(a) \/ StopStep(a)
  \/ \E c \in Cancels : CancelStep(c) \/ \E u \in Uuids : CancelBegin(c, u)
  \/ \E p \in Procs : ScanStep(p) \/ WatchStep(p) \/ CliStep(p)
                      \/ CliRefuse(p) \/ CliExit(p)
  \/ \E a \in Agents : Push(a)
  \/ Close

Spec == Init /\ [][Next]_vars

\* Goroutines that can run do run, a started handler is carried through, and
\* the CLI keeps reading, starting and finishing turns.  Requests need not
\* arrive, nothing has to fail.
Fairness ==
  /\ \A u \in Uuids : WF_vars(SendStep(u))
  /\ \A a \in Stops : WF_vars(StopStep(a))
  /\ \A c \in Cancels : WF_vars(CancelStep(c))
  /\ \A p \in Procs : /\ WF_vars(ScanStep(p))
                      /\ WF_vars(WatchStep(p))
                      /\ WF_vars(CliRead(p))
                      /\ WF_vars(CliStart(p))
                      /\ WF_vars(CliFinish(p))
  /\ \A a \in Agents : WF_vars(Push(a))

FairSpec == Spec /\ Fairness
-----------------------------------------------------------------------------
TypeOK ==
  /\ proc \in Procs \cup {NoProc}
  /\ spawned \in 0 .. MaxProcs
  /\ queue \subseteq Uuids
  /\ shown \subseteq Uuids
  /\ bar \subseteq Uuids
  /\ announced \in {"none", "started", "ended"}
  /\ closed \in BOOLEAN
  /\ pc \in [Agents -> PcValues]
  /\ hold \in [Handlers -> Procs \cup {NoProc}]
  /\ arg \in [Agents -> SUBSET Uuids]
  /\ snap \in [Agents -> SUBSET Uuids]
  /\ alive \subseteq Procs
  /\ dead \subseteq Procs
  /\ stdin \in [Procs -> Seq(Frames)]
  /\ stdout \in [Procs -> Seq(Frames)]
  /\ pending \in [Procs -> SUBSET Uuids]
  /\ turn \in [Procs -> SUBSET Uuids]
  /\ ignored \subseteq Uuids
  /\ late \subseteq Uuids
  /\ sentBefore \in [Stops -> SUBSET Uuids]
  /\ exposed \subseteq Uuids
-----------------------------------------------------------------------------
(* What the entries of the queue mean.                                     *)

\* TakeQueued finds an entry for every message claude starts, unless the
\* message was being sent while a stop was on its way: handleCommandLifecycle
\* is the only renderer of the bubble, so an ignored frame is a lost bubble.
BubbleLostOnlyToOverlappingStop == ignored \subseteq exposed

\* The same, without the exception: "Claude emits no user echo of its own, so
\* this broadcast is the only thing that renders the message".
EveryStartedMessageIsRendered == ignored = {}

\* handleCancelQueue: an entry that left because claude confirmed the cancel
\* (or because the process was gone) is never started, shown or queued again.
CancelledIsFinal ==
  \A c \in Cancels : pc[c] \in {"cancelPush", "push", "done"} =>
    arg[c] \cap (queue \cup shown \cup UNION {turn[p] : p \in alive}) = {}

\* Nobody is in the middle of anything, and every pipe was read.
Settled ==
  /\ \A a \in Handlers : pc[a] \in {"idle", "sent", "failed", "done"}
  /\ \A p \in Procs : /\ pc[Scanner(p)] \in {"off", "read", "eof"}
                      /\ pc[Watcher(p)] \in {"off", "wait", "done"}
                      /\ p \in dead => pc[Watcher(p)] # "wait"
                      /\ stdout[p] = <<>>
                      /\ p \in alive => stdin[p] = <<>>
                      /\ p \notin alive => pc[Scanner(p)] # "read"

\* When everything is settled, Session.Queue is claude's own queue: no row of
\* a message that is not waiting, no waiting message without its row (up to
\* the overlapping stop); and the bar, which pushQueueBar re-renders "from the
\* session's pending entries", shows no message that has left, unless an agent
\* read the entries before it left and pushed them afterwards.
QueueMirrorsClaude ==
  Settled /\ ~closed =>
    LET waiting == IF Live(proc) THEN pending[proc] ELSE {}
    IN /\ queue \subseteq waiting
       /\ waiting \subseteq queue \cup exposed
       /\ bar \subseteq queue \cup late

\* When everything is settled, the clients were told last whether the process
\* of the session is alive.
AnnouncedIsTrue ==
  Settled /\ ~closed /\ proc # NoProc =>
    announced = IF Live(proc) THEN "started" ELSE "ended"

\* ensureProcess returns the live process or starts one: a session never has
\* two CLIs running.
OneLiveCli == \A p, q \in alive : p = q

\* watchProcessDeath: "a stale watcher must not fire after" a respawn.
StaleWatcherStaysSilent ==
  [][\A p \in Procs : WatchEnd(p) => proc = p]_vars

\* The queue implements what is promised about messages, that no entry stays
\* in the bar for ever included: every send is started, cancelled, refused,
\* dropped by a stop, or cleared when the process dies.  A message taken by
\* the scan goroutine and not yet broadcast is still queued.
InRender(u) == \E p \in Procs : pc[Scanner(p)] = "render" /\ u \in arg[Scanner(p)]
Fate == INSTANCE MessageFate WITH fate <-
  [u \in Uuids |->
     IF u \in shown THEN "shown"
     ELSE IF u \in queue \/ InRender(u) THEN "queued"
     ELSE IF pc[u] \in {"idle", "ensure", "start", "init", "announce", "add"}
       THEN "unsent" ELSE "gone"]
MessageFates == Fate!Spec
=============================================================================
