------------------------------ MODULE PageLoad ------------------------------
(***************************************************************************)
(* How the messages of one session reach the browsers that show it.        *)
(* Broadcast appends a message to the session's log and queues it for the  *)
(* session's model; the model's goroutine applies it and sends the         *)
(* rendering to every connected client.  A page load (handleEvents)        *)
(* replaces the model by one built from the log, renders it, and then      *)
(* forwards what is sent to its client.  No lock spans these steps.        *)
(*                                                                         *)
(* A page is the sequence of messages it shows.  Streaming deltas, which   *)
(* are not in the log, are left out.                                       *)
(***************************************************************************)
EXTENDS Naturals, Sequences, FiniteSets, SequencesExt

CONSTANTS
  Producers,   \* goroutines that broadcast
  MaxMsgs,     \* bound on the messages they broadcast
  Clients,     \* SSE connections, each loads the page once
  ModelCap,    \* capacity of a model's event channel (256)
  ClientCap    \* capacity of a client's event channel (64)

ASSUME ConstantsAssumption ==
  /\ IsFiniteSet(Clients)
  /\ MaxMsgs \in Nat
  /\ ModelCap \in Nat \ {0}
  /\ ClientCap \in Nat \ {0}

Msgs == Producers \X (1 .. MaxMsgs)
Models == 1 .. Cardinality(Clients)
NoModel == 0

VARIABLES
  log,      \* Session.Log
  model,    \* Session.Model
  built,    \* number of models built so far
  queue,    \* the event channel of each model
  applied,  \* the messages each model was folded from
  work,     \* the message a model's goroutine is pushing, with its number
  run,      \* the state of each model's goroutine
  seq,      \* EventLog.seq
  bpc, bmodel, bcount, \* each producer: where it is, its model, its messages
  cpc,      \* where each connection is
  snap,     \* the log a page load has read
  closing,  \* the model a page load waits for
  lastSeq,  \* the last number covered by the rendered page
  inbox,    \* the event channel of each client
  page,     \* what each client shows
  exposed,  \* (history) messages on their way while a page was loading
  overlap,  \* (history) two page loads overlapped
  dropped,  \* (history) messages dropped at a model's full channel
  overrun   \* (history) messages dropped at a client's full channel

modelVars == <<model, built, queue, applied, work, run>>
producer == <<bpc, bmodel, bcount>>
client == <<cpc, snap, closing, lastSeq, inbox, page>>
history == <<exposed, overlap, dropped, overrun>>
vars == <<log, modelVars, seq, producer, client, history>>

Init ==
  /\ log = <<>>
  /\ model = NoModel
  /\ built = 0
  /\ queue = [g \in Models |-> <<>>]
  /\ applied = [g \in Models |-> <<>>]
  /\ work = [g \in Models |-> <<>>]
  /\ run = [g \in Models |-> "none"]
  /\ seq = 0
  /\ bpc = [b \in Producers |-> "idle"]
  /\ bmodel = [b \in Producers |-> NoModel]
  /\ bcount = [b \in Producers |-> 0]
  /\ cpc = [c \in Clients |-> "idle"]
  /\ snap = [c \in Clients |-> <<>>]
  /\ closing = [c \in Clients |-> NoModel]
  /\ lastSeq = [c \in Clients |-> 0]
  /\ inbox = [c \in Clients |-> <<>>]
  /\ page = [c \in Clients |-> <<>>]
  /\ exposed = {}
  /\ overlap = FALSE
  /\ dropped = {}
  /\ overrun = {}

-----------------------------------------------------------------------------
(* Broadcast.                                                              *)

Current(b) == <<b, bcount[b]>>

\* The messages between the log and the clients; the loads that are between
\* reading the log and rendering the page.
InFlight ==
  {Current(b) : b \in {x \in Producers : bpc[x] # "idle"}}
    \cup (UNION {ToSet(queue[g]) : g \in Models})
    \cup {work[g][1] : g \in {x \in Models : work[x] # <<>>}}
Loading(c) == cpc[c] \in {"close", "wait", "build", "number", "render"}

AppendToLog(b) ==
  LET m == <<b, bcount[b] + 1>> IN
  /\ bpc[b] = "idle"
  /\ Len(log) < MaxMsgs
  /\ bpc' = [bpc EXCEPT ![b] = "read"]
  /\ bcount' = [bcount EXCEPT ![b] = @ + 1]
  /\ log' = Append(log, m)
  /\ exposed' = IF \E c \in Clients : Loading(c) THEN exposed \cup {m} ELSE exposed
  /\ UNCHANGED <<modelVars, seq, bmodel, client, overlap, dropped, overrun>>

ReadModel(b) ==
  /\ bpc[b] = "read"
  /\ bpc' = [bpc EXCEPT ![b] = IF model = NoModel THEN "idle" ELSE "enqueue"]
  /\ bmodel' = [bmodel EXCEPT ![b] = model]
  /\ UNCHANGED <<log, modelVars, seq, bcount, client, history>>

\* sendEvent: a full channel drops the message.
Enqueue(b) ==
  LET g == bmodel[b] IN
  /\ bpc[b] = "enqueue"
  /\ bpc' = [bpc EXCEPT ![b] = "idle"]
  /\ bmodel' = [bmodel EXCEPT ![b] = NoModel]
  /\ IF Len(queue[g]) < ModelCap
       THEN /\ queue' = [queue EXCEPT ![g] = Append(@, Current(b))]
            /\ UNCHANGED dropped
       ELSE /\ dropped' = dropped \cup {Current(b)}
            /\ UNCHANGED queue
  /\ UNCHANGED <<log, model, built, applied, work, run, seq, bcount, client,
                 exposed, overlap, overrun>>

-----------------------------------------------------------------------------
(* The goroutine of a model.                                               *)

\* A goroutine that was told to stop may still choose an event.
Apply(g) ==
  /\ run[g] \in {"running", "stopping"}
  /\ work[g] = <<>>
  /\ queue[g] # <<>>
  /\ work' = [work EXCEPT ![g] = <<Head(queue[g])>>]
  /\ queue' = [queue EXCEPT ![g] = Tail(@)]
  /\ applied' = [applied EXCEPT ![g] = Append(@, Head(queue[g]))]
  /\ UNCHANGED <<log, model, built, run, seq, producer, client, history>>

\* BroadcastToSession: a number from the event log, then the clients.
Number(g) ==
  /\ Len(work[g]) = 1
  /\ seq' = seq + 1
  /\ work' = [work EXCEPT ![g] = Append(@, seq + 1)]
  /\ UNCHANGED <<log, model, built, queue, applied, run, producer, client,
                 history>>

Connected == {c \in Clients : cpc[c] # "idle"}

Send(g) ==
  LET event == work[g]
      full == {c \in Connected : Len(inbox[c]) = ClientCap}
  IN
  /\ Len(event) = 2
  /\ inbox' = [c \in Clients |-> IF c \in Connected \ full
                                 THEN Append(inbox[c], event) ELSE inbox[c]]
  /\ overrun' = overrun \cup (full \X {event[1]})
  /\ work' = [work EXCEPT ![g] = <<>>]
  /\ UNCHANGED <<log, model, built, queue, applied, run, seq, producer, cpc,
                 snap, closing, lastSeq, page, exposed, overlap, dropped>>

Stop(g) ==
  /\ run[g] = "stopping"
  /\ work[g] = <<>>
  /\ run' = [run EXCEPT ![g] = "stopped"]
  /\ UNCHANGED <<log, model, built, queue, applied, work, seq, producer,
                 client, history>>

-----------------------------------------------------------------------------
(* handleEvents: register the client, read the log, close the model, build *)
(* one from what was read, read the event number, render, forward.         *)

Goto(c, from, to) ==
  /\ cpc[c] = from
  /\ cpc' = [cpc EXCEPT ![c] = to]

Connect(c) ==
  /\ Goto(c, "idle", "read")
  /\ UNCHANGED <<log, modelVars, seq, producer, snap, closing, lastSeq, inbox,
                 page, history>>

ReadLog(c) ==
  /\ Goto(c, "read", "close")
  /\ snap' = [snap EXCEPT ![c] = log]
  /\ exposed' = exposed \cup InFlight
  /\ overlap' = (overlap \/ \E d \in Clients : Loading(d))
  /\ UNCHANGED <<log, modelVars, seq, producer, closing, lastSeq, inbox, page,
                 dropped, overrun>>

\* Model.Close: stopCh is closed, which panics if it is closed already, and the
\* goroutine is waited for.
CloseModelGoing(c, next, told) ==
  /\ cpc[c] = "close"
  /\ closing' = [closing EXCEPT ![c] = model]
  /\ IF model = NoModel
       THEN /\ cpc' = [cpc EXCEPT ![c] = "build"]
            /\ UNCHANGED run
       ELSE IF run[model] = "running"
       THEN /\ cpc' = [cpc EXCEPT ![c] = next]
            /\ run' = [run EXCEPT ![model] = told]
       ELSE /\ cpc' = [cpc EXCEPT ![c] = "panicked"]
            /\ UNCHANGED run
  /\ UNCHANGED <<log, model, built, queue, applied, work, seq, producer, snap,
                 lastSeq, inbox, page, history>>

\* wrong: the old goroutine may still push, or is never told to stop
CloseWithoutWait(c) == CloseModelGoing(c, "build", "stopping")
CloseUntold(c) == CloseModelGoing(c, "wait", "running")
CloseModel(c) == CloseModelGoing(c, "wait", "stopping")

Closed(c) ==
  /\ Goto(c, "wait", "build")
  /\ run[closing[c]] = "stopped"
  /\ UNCHANGED <<log, modelVars, seq, producer, snap, closing, lastSeq, inbox,
                 page, history>>

BuildFrom(c, messages) ==
  /\ Goto(c, "build", "number")
  /\ built' = built + 1
  /\ model' = built + 1
  /\ applied' = [applied EXCEPT ![built + 1] = messages]
  /\ run' = [run EXCEPT ![built + 1] = "running"]
  /\ snap' = [snap EXCEPT ![c] = <<>>]
  /\ closing' = [closing EXCEPT ![c] = NoModel]
  /\ UNCHANGED <<log, queue, work, seq, producer, lastSeq, inbox, page,
                 history>>

\* wrong: the old model's messages and the log's are folded together
BuildOnTop(c) ==
  BuildFrom(c, IF closing[c] = NoModel THEN snap[c] ELSE applied[closing[c]] \o snap[c])
Build(c) == BuildFrom(c, snap[c])

ReadNumber(c) ==
  /\ Goto(c, "number", "render")
  /\ lastSeq' = [lastSeq EXCEPT ![c] = seq]
  /\ UNCHANGED <<log, modelVars, seq, producer, snap, closing, inbox, page,
                 history>>

\* RenderFull renders the model the session has by now.
Render(c) ==
  /\ Goto(c, "render", "loop")
  /\ page' = [page EXCEPT ![c] = applied[model]]
  /\ UNCHANGED <<log, modelVars, seq, producer, snap, closing, lastSeq, inbox,
                 history>>

\* "already sent during replay": events up to lastSeq are skipped.
Forward(c) ==
  LET event == Head(inbox[c]) IN
  /\ cpc[c] = "loop"
  /\ inbox[c] # <<>>
  /\ inbox' = [inbox EXCEPT ![c] = Tail(@)]
  /\ page' = IF event[2] <= lastSeq[c] THEN page
             ELSE [page EXCEPT ![c] = Append(@, event[1])]
  /\ UNCHANGED <<log, modelVars, seq, producer, cpc, snap, closing, lastSeq,
                 history>>

-----------------------------------------------------------------------------
ModelStep(g) == Apply(g) \/ Number(g) \/ Send(g) \/ Stop(g)
LoadStep(c) == ReadLog(c) \/ CloseModel(c) \/ Closed(c) \/ Build(c)
               \/ ReadNumber(c) \/ Render(c)

Next ==
  \/ \E b \in Producers : AppendToLog(b) \/ ReadModel(b) \/ Enqueue(b)
  \/ \E g \in Models : ModelStep(g)
  \/ \E c \in Clients : Connect(c) \/ LoadStep(c) \/ Forward(c)

Spec == Init /\ [][Next]_vars

\* Goroutines that can run do run.  Nobody has to broadcast or to connect.
Fairness ==
  /\ \A b \in Producers : WF_vars(ReadModel(b) \/ Enqueue(b))
  /\ \A g \in Models : WF_vars(ModelStep(g))
  /\ \A c \in Clients : WF_vars(LoadStep(c)) /\ WF_vars(Forward(c))

FairSpec == Spec /\ Fairness
-----------------------------------------------------------------------------
TypeOK ==
  /\ log \in Seq(Msgs)
  /\ model \in {NoModel} \cup Models
  /\ built \in {0} \cup Models
  /\ queue \in [Models -> Seq(Msgs)]
  /\ \A g \in Models : Len(queue[g]) <= ModelCap
  /\ applied \in [Models -> Seq(Msgs)]
  /\ work \in [Models -> {<<>>} \cup {<<m>> : m \in Msgs} \cup (Msgs \X Nat)]
  /\ run \in [Models -> {"none", "running", "stopping", "stopped"}]
  /\ seq \in Nat
  /\ bpc \in [Producers -> {"idle", "read", "enqueue"}]
  /\ bmodel \in [Producers -> {NoModel} \cup Models]
  /\ bcount \in [Producers -> 0 .. MaxMsgs]
  /\ cpc \in [Clients -> {"idle", "read", "close", "wait", "build", "number",
                          "render", "loop", "panicked"}]
  /\ snap \in [Clients -> Seq(Msgs)]
  /\ closing \in [Clients -> {NoModel} \cup Models]
  /\ lastSeq \in [Clients -> 0 .. seq]
  /\ inbox \in [Clients -> Seq(Msgs \X Nat)]
  /\ \A c \in Clients : Len(inbox[c]) <= ClientCap
  /\ page \in [Clients -> Seq(Msgs)]
  /\ exposed \subseteq Msgs
  /\ overlap \in BOOLEAN
  /\ dropped \subseteq Msgs
  /\ overrun \subseteq Clients \X Msgs

\* Nobody is in the middle of anything and every channel was read.
Settled ==
  /\ \A b \in Producers : bpc[b] = "idle"
  /\ \A g \in Models : /\ run[g] = "running" => queue[g] = <<>>
                       /\ run[g] # "stopping"
                       /\ work[g] = <<>>
  /\ \A c \in Clients : /\ ~Loading(c)
                        /\ cpc[c] = "loop" => inbox[c] = <<>>

Times(m, s) == Cardinality({i \in DOMAIN s : s[i] = m})

\* A page that was rendered shows every message in the end, whatever it was
\* loaded between: only a message on its way during some page load, or one
\* dropped at a full channel, can be missing.
MissingOnlyIfExposed ==
  Settled => \A c \in Clients : cpc[c] = "loop" =>
    \A m \in ToSet(log) \ (exposed \cup dropped) :
      m \in ToSet(page[c]) \/ <<c, m>> \in overrun

\* lastSeq: a message is not shown twice, once rendered and once forwarded,
\* unless it was on its way during some page load.
ShownTwiceOnlyIfExposed ==
  \A c \in Clients : \A m \in Msgs \ exposed : Times(m, page[c]) <= 1

\* The messages of one broadcaster first appear on a page in the order in which
\* it broadcast them, even if models are replaced in between, unless two loads
\* overlapped: then the goroutines of two models may push side by side.
PageInOrder ==
  ~overlap => \A c \in Clients : \A i, j \in DOMAIN page[c] :
    LET m == page[c][i]  n == page[c][j] IN
    m[1] = n[1] /\ m[2] < n[2] => \E k \in 1 .. j : page[c][k] = m

\* A page is the log: nothing missing, nothing twice, in order, each with the
\* exceptions above.
PageShowsLog == TypeOK /\ MissingOnlyIfExposed /\ ShownTwiceOnlyIfExposed /\ PageInOrder

\* The model that pages are rendered from folds the log: in the end it has
\* applied every message once, with the same exceptions.
ModelFoldsLog ==
  Settled /\ model # NoModel =>
    \A m \in ToSet(log) \ (exposed \cup dropped) : Times(m, applied[model]) = 1

\* A page load ends: closing a model does not wait for ever.  (It may panic, if
\* two loads close the same model.)
LoadEnds == \A c \in Clients : cpc[c] = "read" ~> cpc[c] \in {"loop", "panicked"}

\* SessionModel.Sync: "the closing path replaces the model with one built from
\* the session log, which already holds every enqueued message".
ClosedModelIsCovered ==
  [][\A c \in Clients : Build(c) /\ closing[c] # NoModel =>
       ToSet(queue[closing[c]]) \subseteq ToSet(snap[c])]_vars
=============================================================================
