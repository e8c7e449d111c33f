------------------------- MODULE CommandQueueProofs -------------------------
(***************************************************************************)
(* Proofs about CommandQueue, for any messages, stops, cancels, number of  *)
(* processes and faults.                                                   *)
(***************************************************************************)
EXTENDS CommandQueue, TLAPS

\* A sender that is starting a process has chosen one.
StartsSome ==
  \A u \in Uuids : pc[u] \in {"start", "init", "announce"} => hold[u] \in Procs

TypeInv == TypeOK /\ StartsSome

-----------------------------------------------------------------------------
\* The goroutines are pairwise distinct.
LEMMA AgentsDistinct ==
  /\ Uuids \subseteq Handlers /\ Requests \subseteq Handlers
  /\ Stops \subseteq Requests /\ Cancels \subseteq Requests
  /\ Uuids \cap Requests = {}
  /\ Handlers \subseteq Agents
  /\ \A p \in Procs : Scanner(p) \in Agents /\ Watcher(p) \in Agents
  /\ \A a \in Handlers, p \in Procs : a # Scanner(p) /\ a # Watcher(p)
  /\ \A p, q \in Procs : Scanner(p) # Watcher(q)
  /\ \A p, q \in Procs : Scanner(p) = Scanner(q) => p = q
BY ConstantsAssumption
DEF Handlers, Requests, Agents, Procs, Scanner, Watcher

\* A process is never mistaken for the absence of one.
LEMMA ProcsAreNumbers ==
  MaxProcs \in Nat /\ NoProc \notin Procs /\ \A p \in Procs : p \in Nat
BY ConstantsAssumption DEF Procs, NoProc

\* What the pipes carry.
LEMMA FrameTypes ==
  /\ \A u \in Uuids, of \in SUBSET Uuids :
       \A op \in {"user", "started", "cancelled", "refused"} :
         Frame(op, u, of) \in Frames
  /\ \A a \in Stops, of \in SUBSET Uuids : Frame("interrupt", a, of) \in Frames
  /\ \A a \in Cancels, of \in SUBSET Uuids : Frame("cancel", a, of) \in Frames
  /\ \A a \in Requests, of \in SUBSET Uuids : Frame("reply", a, of) \in Frames
  /\ \A f \in Frames :
       /\ f.of \subseteq Uuids
       /\ f.id \in Handlers
       /\ f.op \in {"user", "started", "cancelled", "refused"} => f.id \in Uuids
       /\ f.op \in {"interrupt", "cancel", "reply"} => f.id \in Requests
       /\ f.op = "interrupt" => f.id \in Stops
       /\ f.op = "cancel" => f.id \in Cancels
BY DEF Frames, Frame, Handlers, Requests

-----------------------------------------------------------------------------
\* The actions by who takes them.  Each lemma says that the types and
\* StartsSome are preserved.

\* SendMessage keeps the types.
LEMMA SendTypes ==
  ASSUME TypeInv, NEW u \in Uuids, SendBegin(u) \/ SendStep(u) \/ StartFails(u)
  PROVE  TypeInv'
<1> USE AgentsDistinct, ProcsAreNumbers
        DEF Goto, session, local, cli, history, PcValues, SendPcs, Release
<1>1. CASE SendBegin(u)
  BY <1>1 DEF SendBegin, TypeInv, TypeOK, StartsSome
<1>2. CASE EnsureLive(u)
  BY <1>2 DEF EnsureLive, TypeInv, TypeOK, StartsSome
<1>3. CASE EnsureFails(u)
  BY <1>3 DEF EnsureFails, TypeInv, TypeOK, StartsSome
<1>4. CASE EnsureStart(u)
  <2>1. spawned + 1 \in Procs /\ spawned' \in 0 .. MaxProcs
    BY <1>4 DEF EnsureStart, TypeInv, TypeOK, Procs
  <2> QED
    BY <1>4, <2>1 DEF EnsureStart, TypeInv, TypeOK, StartsSome
<1>5. CASE StartProcess(u)
  <2>1. hold[u] \in Procs
    BY <1>5 DEF StartProcess, TypeInv, StartsSome
  <2> QED
    BY <1>5, <2>1 DEF StartProcess, TypeInv, TypeOK, StartsSome, ScanPcs
<1>6. CASE StartFails(u)
  BY <1>6 DEF StartFails, StartFailsKilling, Gone, TypeInv, TypeOK, StartsSome
<1>7. CASE SetProc(u)
  BY <1>7 DEF SetProc, TypeInv, TypeOK, StartsSome
<1>8. CASE AnnounceStart(u)
  BY <1>8 DEF AnnounceStart, AnnounceStartAs, TypeInv, TypeOK, StartsSome, WatchPcs
<1>9. CASE AddQueued(u)
  BY <1>9 DEF AddQueued, TypeInv, TypeOK, StartsSome
<1>10. CASE SendUserMessage(u)
  BY <1>10, FrameTypes DEF SendUserMessage, Write, TypeInv, TypeOK, StartsSome
<1>11. CASE SendFails(u)
  BY <1>11 DEF SendFails, SendFailsDropping, TypeInv, TypeOK, StartsSome
<1> QED
  BY <1>1, <1>2, <1>3, <1>4, <1>5, <1>6, <1>7, <1>8, <1>9, <1>10, <1>11
  DEF SendStep

\* So do stops and cancels.
LEMMA RequestTypes ==
  ASSUME TypeInv, NEW a \in Requests,
         \/ a \in Stops /\ (StopBegin(a) \/ StopStep(a))
         \/ a \in Cancels /\ (CancelStep(a) \/ \E u \in Uuids : CancelBegin(a, u))
  PROVE  TypeInv'
<1> USE AgentsDistinct, ProcsAreNumbers
        DEF Goto, session, local, cli, history, PcValues, RequestPcs, Release
<1>1. CASE a \in Stops /\ StopBegin(a)
  BY <1>1 DEF StopBegin, TypeInv, TypeOK, StartsSome
<1>2. CASE a \in Stops /\ StopWrite(a)
  <2>1. Frame("interrupt", a, {}) \in Frames
    BY <1>2, FrameTypes
  <2> QED
    BY <1>2, <2>1 DEF StopWrite, Write, TypeInv, TypeOK, StartsSome
<1>3. CASE a \in Stops /\ StopReconcile(a)
  BY <1>3 DEF StopReconcile, StopReconcileTo, Forget, TypeInv, TypeOK, StartsSome
<1>4. CASE RequestFails(a, "done") \/ RequestFails(a, "cancelPush")
  BY <1>4 DEF RequestFails, Forget, TypeInv, TypeOK, StartsSome
<1>5. CASE a \in Cancels /\ \E u \in Uuids : CancelBegin(a, u)
  BY <1>5 DEF CancelBegin, TypeInv, TypeOK, StartsSome
<1>6. CASE a \in Cancels /\ CancelWrite(a)
  <2>1. arg[a] \subseteq Uuids
    BY DEF TypeInv, TypeOK
  <2>2. Frame("cancel", a, arg[a]) \in Frames
    BY <1>6, <2>1, FrameTypes
  <2> QED
    BY <1>6, <2>2 DEF CancelWrite, Write, TypeInv, TypeOK, StartsSome
<1>7. CASE a \in Cancels /\ CancelResolve(a)
  BY <1>7 DEF CancelResolve, TypeInv, TypeOK, StartsSome
<1> QED
  BY <1>1, <1>2, <1>3, <1>4, <1>5, <1>6, <1>7 DEF StopStep, CancelStep

\* So does the scan goroutine of a process.
LEMMA ScanTypes ==
  ASSUME TypeInv, NEW p \in Procs, ScanStep(p)
  PROVE  TypeInv'
<1> USE AgentsDistinct, ProcsAreNumbers
        DEF Goto, session, local, cli, history, PcValues, ScanPcs
<1> DEFINE f == Head(stdout[p])
<1>1. ASSUME NEW ops, Receive(p, ops)
      PROVE  /\ f \in Frames /\ f.op \in ops
             /\ stdout' \in [Procs -> Seq(Frames)]
             /\ UNCHANGED <<alive, dead, stdin, pending, turn>>
  BY <1>1 DEF Receive, TypeInv, TypeOK
<1>2. CASE ScanReply(p)
  <2>1. Receive(p, {"reply"})
    BY <1>2 DEF ScanReply, ScanReplyOf
  <2>2. /\ f \in Frames /\ f.op \in {"reply"}
        /\ stdout' \in [Procs -> Seq(Frames)]
        /\ UNCHANGED <<alive, dead, stdin, pending, turn>>
    BY <1>1, <2>1
  <2>3. f.id \in Requests /\ f.of \subseteq Uuids
    BY <2>2, FrameTypes
  <2>4. /\ UNCHANGED <<session, hold, snap, history>>
        /\ \/ UNCHANGED <<pc, arg>>
           \/ /\ pc' = [pc EXCEPT ![f.id] = "replied"]
              /\ arg' = [arg EXCEPT ![f.id] = f.of]
    BY <1>2 DEF ScanReply, ScanReplyOf
  <2> HIDE DEF f
  <2>5. "replied" \in PcValues
    BY DEF RequestPcs
  <2>6. /\ pc' \in [Agents -> PcValues]
        /\ arg' \in [Agents -> SUBSET Uuids]
    <3>1. f.id \in Agents
      BY <2>3
    <3>2. pc \in [Agents -> PcValues] /\ arg \in [Agents -> SUBSET Uuids]
      BY DEF TypeInv, TypeOK
    <3> HIDE AgentsDistinct, ProcsAreNumbers DEF PcValues
    <3>3. CASE UNCHANGED <<pc, arg>>
      BY <3>2, <3>3
    <3>4. CASE /\ pc' = [pc EXCEPT ![f.id] = "replied"]
               /\ arg' = [arg EXCEPT ![f.id] = f.of]
      BY <2>3, <2>5, <3>1, <3>2, <3>4
    <3> QED
      BY <2>4, <3>3, <3>4
  <2>7. \A u \in Uuids : pc'[u] = pc[u]
    BY <2>3, <2>4 DEF TypeInv, TypeOK
  <2> HIDE DEF PcValues
  <2>8. StartsSome'
    BY <2>4, <2>7 DEF TypeInv, StartsSome
  <2> QED
    BY <2>2, <2>4, <2>6, <2>8 DEF TypeInv, TypeOK
<1>3. CASE TakeQueued(p)
  <2>1. Receive(p, {"started"})
    BY <1>3 DEF TakeQueued, TakeQueuedFrom
  <2>2. /\ f \in Frames /\ f.op \in {"started"}
        /\ stdout' \in [Procs -> Seq(Frames)]
        /\ UNCHANGED <<alive, dead, stdin, pending, turn>>
    BY <1>1, <2>1
  <2>3. f.id \in Uuids
    BY <2>2, FrameTypes
  <2>4. /\ UNCHANGED <<proc, spawned, shown, bar, announced, closed, hold, snap,
                       late, sentBefore, exposed>>
        /\ \/ /\ pc' = [pc EXCEPT ![Scanner(p)] = "render"]
              /\ arg' = [arg EXCEPT ![Scanner(p)] = {f.id}]
              /\ queue' = queue \ {f.id}
              /\ UNCHANGED ignored
           \/ /\ ignored' = ignored \cup {f.id}
              /\ UNCHANGED <<pc, arg, queue>>
    BY <1>3 DEF TakeQueued, TakeQueuedFrom
  <2> HIDE DEF f
  <2>5. /\ Scanner(p) \in Agents /\ Scanner(p) \notin Uuids
        /\ Uuids \subseteq Agents
        /\ "render" \in PcValues
        /\ pc \in [Agents -> PcValues] /\ arg \in [Agents -> SUBSET Uuids]
        /\ queue \subseteq Uuids /\ ignored \subseteq Uuids
    BY DEF TypeInv, TypeOK
  <2>6. /\ pc' \in [Agents -> PcValues]
        /\ \A u \in Uuids : pc'[u] = pc[u]
        /\ arg' \in [Agents -> SUBSET Uuids]
        /\ queue' \subseteq Uuids /\ ignored' \subseteq Uuids
    <3> HIDE AgentsDistinct, ProcsAreNumbers DEF PcValues
    <3>1. CASE /\ pc' = [pc EXCEPT ![Scanner(p)] = "render"]
               /\ arg' = [arg EXCEPT ![Scanner(p)] = {f.id}]
               /\ queue' = queue \ {f.id}
               /\ UNCHANGED ignored
      BY <2>3, <2>5, <3>1
    <3>2. CASE /\ ignored' = ignored \cup {f.id}
               /\ UNCHANGED <<pc, arg, queue>>
      BY <2>3, <2>5, <3>2
    <3> QED
      BY <2>4, <3>1, <3>2
  <2>7. StartsSome'
    BY <2>4, <2>6 DEF TypeInv, StartsSome
  <2> HIDE AgentsDistinct DEF PcValues
  <2> QED
    BY <2>2, <2>4, <2>6, <2>7 DEF TypeInv, TypeOK
<1>4. CASE RenderStarted(p)
  BY <1>4 DEF RenderStarted, TypeInv, TypeOK, StartsSome
<1>5. CASE ScanDropped(p)
  <2>1. Receive(p, {"cancelled", "refused"})
    BY <1>5 DEF ScanDropped
  <2>2. /\ stdout' \in [Procs -> Seq(Frames)]
        /\ UNCHANGED <<alive, dead, stdin, pending, turn>>
    BY <1>1, <2>1
  <2> QED
    BY <1>5, <2>2 DEF ScanDropped, TypeInv, TypeOK, StartsSome
<1>6. CASE ScanEof(p)
  BY <1>6 DEF ScanEof, TypeInv, TypeOK, StartsSome
<1> QED
  BY <1>2, <1>3, <1>4, <1>5, <1>6 DEF ScanStep

\* So does watchProcessDeath.
LEMMA WatchTypes ==
  ASSUME TypeInv, NEW p \in Procs, WatchStep(p)
  PROVE  TypeInv'
BY AgentsDistinct, ProcsAreNumbers
DEF WatchStep, WatchCheck, WatchClear, WatchEnd, Goto, session, local, cli,
    history, PcValues, WatchPcs, TypeInv, TypeOK, StartsSome

\* So do the pushes of the queue bar.
LEMMA PushTypes ==
  ASSUME TypeInv, NEW a \in Agents, Push(a)
  PROVE  TypeInv'
<1> USE AgentsDistinct
        DEF Goto, session, local, cli, history, PcValues, SendPcs, RequestPcs, ScanPcs
<1>1. CASE PushStart(a)
  BY <1>1 DEF PushStart, PushRead, TypeInv, TypeOK, StartsSome
<1>2. CASE PushAppend(a)
  <2>1. AfterPush(a) \in PcValues \ {"start", "init", "announce"}
    BY DEF AfterPush, WatchPcs
  <2> QED
    BY <1>2, <2>1 DEF PushAppend, TypeInv, TypeOK, StartsSome
<1> QED
  BY <1>1, <1>2 DEF Push

\* So does the CLI.
LEMMA CliTypes ==
  ASSUME TypeInv, NEW p \in Procs, CliStep(p) \/ CliRefuse(p) \/ CliExit(p)
  PROVE  TypeInv'
<1> USE AgentsDistinct, ProcsAreNumbers DEF session, local, history
<1> DEFINE f == Head(stdin[p])
<1>1. CASE CliRead(p)
  <2>1. f \in Frames /\ stdin' \in [Procs -> Seq(Frames)]
    BY <1>1 DEF CliRead, TypeInv, TypeOK
  <2>2. CASE CliUser(p)
    <3>1. f.id \in Uuids
      BY <2>1, <2>2, FrameTypes DEF CliUser
    <3> QED
      BY <1>1, <2>1, <2>2, <3>1 DEF CliRead, CliUser, TypeInv, TypeOK, StartsSome
  <2>3. CASE CliInterrupt(p)
    <3>1. f.id \in Requests
      BY <2>1, <2>3, FrameTypes DEF CliInterrupt
    <3>2. Frame("reply", f.id, pending[p]) \in Frames
      BY <3>1, FrameTypes DEF TypeInv, TypeOK
    <3> QED
      BY <1>1, <2>1, <2>3, <3>2
      DEF CliRead, CliInterrupt, Emit, TypeInv, TypeOK, StartsSome
  <2>4. CASE CliCancel(p)
    <3> DEFINE removed == f.of \cap pending[p]
               answer == <<Frame("reply", f.id, removed)>>
               notice(u) == <<Frame("cancelled", u, {})>>
    <3>1. f.id \in Requests /\ removed \subseteq Uuids
      BY <2>1, <2>4, FrameTypes DEF CliCancel
    <3>2. answer \in Seq(Frames)
      BY <3>1, FrameTypes
    <3>3. \A u \in removed : notice(u) \in Seq(Frames)
      BY <3>1, FrameTypes
    <3>4. \/ Emit(p, answer)
          \/ \E u \in removed : Emit(p, notice(u) \o answer) \/ Emit(p, answer \o notice(u))
      BY <2>4 DEF CliCancel
    <3>5. stdout' \in [Procs -> Seq(Frames)]
      <4> HIDE DEF answer, notice, removed
      <4>1. \E frames \in Seq(Frames) : Emit(p, frames)
        <5>1. \A s, t \in Seq(Frames) : s \o t \in Seq(Frames)
          OBVIOUS
        <5>2. CASE Emit(p, answer)
          BY <5>2, <3>2
        <5>3. CASE \E u \in removed : Emit(p, notice(u) \o answer)
                                      \/ Emit(p, answer \o notice(u))
          <6>1. PICK u \in removed : Emit(p, notice(u) \o answer)
                                     \/ Emit(p, answer \o notice(u))
            BY <5>3
          <6>2. /\ notice(u) \o answer \in Seq(Frames)
                /\ answer \o notice(u) \in Seq(Frames)
            BY <3>2, <3>3, <5>1
          <6> QED
            BY <6>1, <6>2
        <5> QED
          BY <3>4, <5>2, <5>3
      <4> QED
        BY <4>1 DEF Emit, TypeInv, TypeOK
    <3> HIDE DEF answer, notice
    <3>6. /\ pending' = [pending EXCEPT ![p] = @ \ removed]
          /\ UNCHANGED turn
      BY <2>4 DEF CliCancel
    <3>7. pending' \in [Procs -> SUBSET Uuids]
      BY <3>6 DEF TypeInv, TypeOK
    <3>8. /\ stdin' \in [Procs -> Seq(Frames)]
          /\ UNCHANGED <<session, local, alive, dead, history>>
      BY <1>1, <2>1 DEF CliRead
    <3> HIDE DEF removed
    <3> QED
      BY <3>5, <3>6, <3>7, <3>8 DEF TypeInv, TypeOK, StartsSome
  <2> QED
    BY <1>1, <2>2, <2>3, <2>4 DEF CliRead
<1>2. CASE CliStart(p)
  <2>1. PICK u \in pending[p] :
          /\ turn' = [turn EXCEPT ![p] = {u}]
          /\ pending' = [pending EXCEPT ![p] = @ \ {u}]
          /\ Emit(p, <<Frame("started", u, {})>>)
    BY <1>2 DEF CliStart
  <2>2. u \in Uuids
    BY DEF TypeInv, TypeOK
  <2>3. <<Frame("started", u, {})>> \in Seq(Frames)
    BY <2>2, FrameTypes
  <2> QED
    BY <1>2, <2>1, <2>2, <2>3 DEF CliStart, Emit, TypeInv, TypeOK, StartsSome
<1>3. CASE CliFinish(p)
  BY <1>3 DEF CliFinish, TypeInv, TypeOK, StartsSome
<1>4. CASE CliRefuse(p)
  <2>1. PICK u \in pending[p] :
          /\ pending' = [pending EXCEPT ![p] = @ \ {u}]
          /\ Emit(p, <<Frame("refused", u, {})>>)
    BY <1>4 DEF CliRefuse
  <2>2. u \in Uuids
    BY DEF TypeInv, TypeOK
  <2>3. <<Frame("refused", u, {})>> \in Seq(Frames)
    BY <2>2, FrameTypes
  <2> QED
    BY <1>4, <2>1, <2>3 DEF CliRefuse, Emit, TypeInv, TypeOK, StartsSome
<1>5. CASE CliExit(p)
  BY <1>5 DEF CliExit, Gone, TypeInv, TypeOK, StartsSome
<1> QED
  BY <1>1, <1>2, <1>3, <1>4, <1>5 DEF CliStep

\* So does Session.Close.
LEMMA CloseTypes ==
  ASSUME TypeInv, Close
  PROVE  TypeInv'
BY DEF Close, Gone, local, history, TypeInv, TypeOK, StartsSome

-----------------------------------------------------------------------------
\* Every step keeps them.
LEMMA NextTypes ==
  ASSUME TypeInv, [Next]_vars
  PROVE  TypeInv'
<1>1. CASE UNCHANGED vars
  BY <1>1 DEF vars, session, local, cli, history, TypeInv, TypeOK, StartsSome
<1>2. CASE Next
  BY <1>2, AgentsDistinct, SendTypes, RequestTypes, ScanTypes, WatchTypes,
     CliTypes, PushTypes, CloseTypes DEF Next
<1> QED
  BY <1>1, <1>2

\* The types hold in every reachable state.
LEMMA TypeInvariant == Spec => []TypeInv
<1>1. Init => TypeInv
  <2> SUFFICES ASSUME Init PROVE TypeInv
    OBVIOUS
  <2>1. /\ pc \in [Agents -> PcValues]
        /\ \A u \in Uuids : pc[u] = "idle"
    BY AgentsDistinct DEF Init, PcValues, SendPcs, ScanPcs
  <2>2. /\ stdin \in [Procs -> Seq(Frames)]
        /\ stdout \in [Procs -> Seq(Frames)]
    <3>1. <<>> \in Seq(Frames)
      OBVIOUS
    <3> QED
      BY <3>1 DEF Init
  <2>3. /\ spawned \in 0 .. MaxProcs
        /\ hold \in [Handlers -> Procs \cup {NoProc}]
        /\ proc \in Procs \cup {NoProc}
    BY ProcsAreNumbers DEF Init
  <2>4. /\ arg \in [Agents -> SUBSET Uuids] /\ snap \in [Agents -> SUBSET Uuids]
        /\ pending \in [Procs -> SUBSET Uuids] /\ turn \in [Procs -> SUBSET Uuids]
        /\ sentBefore \in [Stops -> SUBSET Uuids]
    BY DEF Init
  <2>5. /\ queue = {} /\ shown = {} /\ bar = {} /\ ignored = {} /\ late = {}
        /\ exposed = {} /\ alive = {} /\ dead = {}
        /\ announced = "none" /\ closed = FALSE
    BY DEF Init
  <2> QED
    BY <2>1, <2>2, <2>3, <2>4, <2>5 DEF TypeInv, TypeOK, StartsSome
<1>2. TypeInv /\ [Next]_vars => TypeInv'
  BY NextTypes
<1> QED
  BY <1>1, <1>2, PTL DEF Spec

\* The variables of CommandQueue keep their types, whatever the messages, the
\* requests, the bound on processes and the faults: in particular nothing but
\* messages is in the queue, the bar and claude's own queue.
THEOREM TypeCorrect == Spec => []TypeOK
<1>1. TypeInv => TypeOK
  BY DEF TypeInv
<1> QED
  BY <1>1, TypeInvariant, PTL

-----------------------------------------------------------------------------
(* One CLI at a time, as long as sends do not overlap.  The inductive      *)
(* invariant follows a process from the decision to start it: while a send *)
(* is starting one, the process the session still points to is gone.       *)

Starting(u) == pc[u] \in {"start", "init"}

OneSend == \A u, v \in InSend : u = v

AliveHasAnOwner ==
  \A p \in alive : p = proc \/ \E u \in Uuids : pc[u] = "init" /\ hold[u] = p

StartsAfresh ==
  \A u \in Uuids : Starting(u) =>
    /\ hold[u] \in Procs /\ hold[u] <= spawned
    /\ proc # hold[u] /\ proc \notin alive

\* A process has no scanner before it is started, and only its scanner closes
\* its Dead channel.
UnstartedIsOff ==
  /\ \A u \in Uuids : pc[u] = "start" => pc[Scanner(hold[u])] = "off"
  /\ \A p \in Procs : p > spawned => pc[Scanner(p)] = "off"
  /\ \A p \in dead : pc[Scanner(p)] # "off"

OneCli ==
  /\ OneSend /\ AliveHasAnOwner /\ StartsAfresh /\ UnstartedIsOff
  /\ proc <= spawned
  /\ alive \cap dead = {}

\* The invariant is what the property asks.
LEMMA OneCliSuffices == TypeOK /\ OneCli => OneLiveCli
<1> SUFFICES ASSUME TypeOK, OneCli, NEW p \in alive, NEW q \in alive PROVE p = q
  BY DEF OneLiveCli
<1>1. CASE p = proc \/ q = proc
  BY <1>1 DEF OneCli, AliveHasAnOwner, StartsAfresh, Starting
<1>2. CASE p # proc /\ q # proc
  <2>1. PICK u \in Uuids : pc[u] = "init" /\ hold[u] = p
    BY <1>2 DEF OneCli, AliveHasAnOwner
  <2>2. PICK v \in Uuids : pc[v] = "init" /\ hold[v] = q
    BY <1>2 DEF OneCli, AliveHasAnOwner
  <2> QED
    BY <2>1, <2>2 DEF OneCli, OneSend, InSend
<1> QED
  BY <1>1, <1>2

\* Steps that neither begin a send nor take part in starting a process.
Calm ==
  /\ UNCHANGED <<proc, spawned, dead>>
  /\ alive' \subseteq alive
  /\ \A u \in Uuids :
       \/ pc'[u] = pc[u] /\ hold'[u] = hold[u]
       \/ /\ pc[u] \notin {"idle", "sent", "failed", "start", "init"}
          /\ pc'[u] \notin {"start", "init"}
  /\ \A p \in Procs : pc'[Scanner(p)] = "off" <=> pc[Scanner(p)] = "off"

\* A step that starts, stores and forgets no process keeps it.
LEMMA CalmKeepsOneCli ==
  ASSUME TypeInv, OneCli, Calm
  PROVE  OneCli'
<1>1. \A u \in Uuids : Starting(u)' => Starting(u) /\ pc'[u] = pc[u] /\ hold'[u] = hold[u]
  BY DEF Calm, Starting
<1>2. \A u \in Uuids : Starting(u) => pc'[u] = pc[u] /\ hold'[u] = hold[u]
  BY DEF Calm, Starting
<1>3. OneSend'
  <2>1. \A u \in Uuids : u \in InSend' => u \in InSend
    BY DEF Calm, InSend
  <2> QED
    BY <2>1 DEF OneCli, OneSend, InSend
<1>4. AliveHasAnOwner'
  BY <1>2 DEF OneCli, Calm, AliveHasAnOwner, Starting
<1>5. StartsAfresh'
  BY <1>1 DEF OneCli, Calm, StartsAfresh
<1>6. UnstartedIsOff'
  <2>1. \A u \in Uuids : pc'[u] = "start" => pc[u] = "start" /\ hold'[u] = hold[u]
                                             /\ hold[u] \in Procs
    BY <1>1 DEF Starting, TypeInv, StartsSome
  <2>2. \A p \in dead : p \in Procs
    BY DEF TypeInv, TypeOK
  <2> QED
    BY <2>1, <2>2 DEF OneCli, Calm, UnstartedIsOff
<1> QED
  BY <1>3, <1>4, <1>5, <1>6 DEF OneCli, Calm

\* Such are the steps of SendMessage but for two.
LEMMA SendCalm ==
  ASSUME TypeInv, NEW u \in Uuids,
         \/ EnsureLive(u) \/ EnsureFails(u) \/ AnnounceStart(u) \/ AddQueued(u)
         \/ SendUserMessage(u) \/ SendFails(u)
  PROVE  Calm
<1> USE AgentsDistinct DEF Calm, Goto, Release, session, cli, TypeInv, TypeOK
<1>1. CASE EnsureLive(u) \/ EnsureFails(u)
  BY <1>1 DEF EnsureLive, EnsureFails
<1>2. CASE AnnounceStart(u)
  <2>1. \A p \in Procs : pc'[Scanner(p)] = pc[Scanner(p)]
    BY <1>2, ConstantsAssumption
    DEF AnnounceStart, AnnounceStartAs, Handlers, Scanner, Watcher
  <2>2. \A v \in Uuids : v # u => pc'[v] = pc[v]
    <3>1. hold[u] \in Procs
      BY <1>2 DEF AnnounceStart, AnnounceStartAs, StartsSome
    <3> QED
      BY <1>2, <3>1 DEF AnnounceStart, AnnounceStartAs, Watcher, Handlers
  <2> QED
    BY <1>2, <2>1, <2>2 DEF AnnounceStart, AnnounceStartAs
<1>3. CASE AddQueued(u)
  BY <1>3 DEF AddQueued
<1>4. CASE SendUserMessage(u)
  BY <1>4 DEF SendUserMessage
<1>5. CASE SendFails(u)
  BY <1>5 DEF SendFails, SendFailsDropping
<1> QED
  BY <1>1, <1>2, <1>3, <1>4, <1>5

\* Such are the steps of everyone else.
LEMMA OthersCalm ==
  ASSUME TypeInv,
         \/ \E a \in Stops : StopBegin(a) \/ StopStep(a)
         \/ \E c \in Cancels : CancelStep(c) \/ \E u \in Uuids : CancelBegin(c, u)
         \/ \E p \in Procs : \/ ScanReply(p) \/ TakeQueued(p) \/ RenderStarted(p)
                             \/ ScanDropped(p) \/ WatchStep(p)
                             \/ CliStep(p) \/ CliRefuse(p) \/ CliExit(p)
         \/ \E a \in Agents : Push(a)
         \/ Close
  PROVE  Calm
<1> USE AgentsDistinct DEF Calm, Goto, session, local, cli, TypeInv, TypeOK
<1>1. CASE \E a \in Stops : StopBegin(a) \/ StopStep(a)
  BY <1>1 DEF StopBegin, StopStep, StopWrite, StopReconcile, StopReconcileTo,
              RequestFails, Release
<1>2. CASE \E c \in Cancels : CancelStep(c) \/ \E u \in Uuids : CancelBegin(c, u)
  BY <1>2 DEF CancelBegin, CancelStep, CancelWrite, CancelResolve, RequestFails, Release
<1>3. CASE \E p \in Procs : ScanReply(p)
  <2>1. PICK p \in Procs : ScanReply(p)
    BY <1>3
  <2>2. Head(stdout[p]) \in Frames /\ Head(stdout[p]).op = "reply"
    BY <2>1 DEF ScanReply, ScanReplyOf, Receive
  <2>3. Head(stdout[p]).id \in Requests
    BY <2>2, FrameTypes
  <2> DEFINE id == Head(stdout[p]).id
  <2>4. /\ UNCHANGED <<proc, spawned, hold, alive, dead>>
        /\ \/ pc' = pc
           \/ pc[id] = "await" /\ pc' = [pc EXCEPT ![id] = "replied"]
    BY <2>1 DEF ScanReply, ScanReplyOf, Receive
  <2> HIDE DEF id
  <2> QED
    BY <2>3, <2>4 DEF id
<1>4. CASE \E p \in Procs : TakeQueued(p) \/ RenderStarted(p) \/ ScanDropped(p)
  BY <1>4 DEF TakeQueued, TakeQueuedFrom, RenderStarted, ScanDropped, Receive
<1>5. CASE \E p \in Procs : WatchStep(p)
  BY <1>5 DEF WatchStep, WatchCheck, WatchClear, WatchEnd
<1>6. CASE \E p \in Procs : CliStep(p) \/ CliRefuse(p) \/ CliExit(p)
  BY <1>6 DEF CliStep, CliRead, CliStart, CliFinish, CliRefuse, CliExit, Gone
<1>7. CASE \E a \in Agents : Push(a)
  <2>1. PICK a \in Agents : Push(a)
    BY <1>7
  <2>2. /\ AfterPush(a) \notin {"start", "init", "off"}
    BY DEF AfterPush
  <2> QED
    BY <2>1, <2>2 DEF Push, PushStart, PushRead, PushAppend
<1>8. CASE Close
  BY <1>8 DEF Close, Gone
<1> QED
  BY <1>1, <1>2, <1>3, <1>4, <1>5, <1>6, <1>7, <1>8

\* The steps of a send that begin it and that start a process.
LEMMA BeginKeepsOneCli ==
  ASSUME TypeInv, OneCli, NEW u \in Uuids, SendBegin(u), "overlap" \notin Faults
  PROVE  OneCli'
<1>1. /\ InSend = {} /\ pc' = [pc EXCEPT ![u] = "ensure"]
      /\ UNCHANGED <<proc, spawned, hold, alive, dead>>
  BY DEF SendBegin, Goto, session, cli
<1>2. \A v \in Uuids : pc[v] \notin {"start", "init"} /\ pc'[v] \notin {"start", "init"}
  BY <1>1, AgentsDistinct DEF InSend, TypeInv, TypeOK
<1>3. OneSend'
  BY <1>1, AgentsDistinct DEF OneSend, InSend, TypeInv, TypeOK
<1>4. \A p \in Procs : pc'[Scanner(p)] = pc[Scanner(p)]
  BY <1>1, AgentsDistinct DEF TypeInv, TypeOK
<1>5. dead \subseteq Procs
  BY DEF TypeInv, TypeOK
<1> QED
  BY <1>1, <1>2, <1>3, <1>4, <1>5
  DEF OneCli, AliveHasAnOwner, StartsAfresh, UnstartedIsOff, Starting

\* EnsureProcess decides to start one: nobody else has.
LEMMA EnsureStartKeepsOneCli ==
  ASSUME TypeInv, OneCli, NEW u \in Uuids, EnsureStart(u)
  PROVE  OneCli'
<1>1. /\ pc[u] = "ensure" /\ pc' = [pc EXCEPT ![u] = "start"]
      /\ spawned' = spawned + 1 /\ spawned + 1 \in Procs
      /\ hold' = [hold EXCEPT ![u] = spawned + 1]
      /\ UNCHANGED <<proc, alive, dead>>
      /\ proc \notin alive
  BY ProcsAreNumbers
  DEF EnsureStart, Goto, cli, Live, Procs, TypeInv, TypeOK, OneCli
<1>2. /\ spawned \in Nat /\ proc \in Nat /\ proc <= spawned
      /\ dead \subseteq Procs /\ alive \subseteq Procs
  BY ProcsAreNumbers DEF TypeInv, TypeOK, OneCli, Procs, NoProc
<1>3. /\ pc'[u] = "start" /\ hold'[u] = spawned + 1
      /\ \A v \in Uuids : v # u => pc'[v] = pc[v] /\ hold'[v] = hold[v]
      /\ \A p \in Procs : pc'[Scanner(p)] = pc[Scanner(p)]
  BY <1>1, AgentsDistinct DEF TypeInv, TypeOK
<1>4. \A v \in Uuids : v # u => pc[v] \in {"idle", "sent", "failed"}
  BY <1>1 DEF OneCli, OneSend, InSend
<1>5. OneSend'
  BY <1>3, <1>4 DEF OneSend, InSend
<1>6. AliveHasAnOwner'
  BY <1>1, <1>3, <1>4 DEF OneCli, AliveHasAnOwner
<1>7. StartsAfresh'
  BY <1>1, <1>2, <1>3, <1>4 DEF StartsAfresh, Starting
<1>8. UnstartedIsOff'
  <2>1. \A p \in Procs : p > spawned => pc[Scanner(p)] = "off"
    BY DEF OneCli, UnstartedIsOff
  <2>2. pc[Scanner(spawned + 1)] = "off"
    BY <2>1, <1>1, <1>2
  <2>3. \A p \in Procs : p > spawned + 1 => p > spawned
    BY <1>2, ProcsAreNumbers
  <2>4. \A v \in Uuids : v # u => pc'[v] # "start"
    BY <1>3, <1>4
  <2> QED
    BY <1>1, <1>2, <1>3, <2>1, <2>2, <2>3, <2>4 DEF OneCli, UnstartedIsOff
<1> QED
  BY <1>1, <1>2, <1>5, <1>6, <1>7, <1>8 DEF OneCli

\* The process starts: no other is alive.
LEMMA StartProcessKeepsOneCli ==
  ASSUME TypeInv, OneCli, NEW u \in Uuids, StartProcess(u)
  PROVE  OneCli'
<1> DEFINE h == hold[u]
<1>1. /\ pc[u] = "start" /\ pc' = [pc EXCEPT ![u] = "init", ![Scanner(h)] = "read"]
      /\ alive' = alive \cup {h}
      /\ UNCHANGED <<proc, spawned, hold, dead>>
  BY DEF StartProcess, session
<1>2. /\ h \in Procs /\ h <= spawned /\ proc # h /\ proc \notin alive
      /\ pc[Scanner(h)] = "off" /\ h \notin dead
  BY <1>1 DEF OneCli, StartsAfresh, Starting, UnstartedIsOff
<1> HIDE DEF h
<1>3. /\ pc'[u] = "init"
      /\ \A v \in Uuids : v # u => pc'[v] = pc[v]
      /\ \A p \in Procs : pc'[Scanner(p)] = "off" => p # h /\ pc[Scanner(p)] = "off"
      /\ \A p \in Procs : p # h => pc'[Scanner(p)] = pc[Scanner(p)]
  BY <1>1, <1>2, AgentsDistinct DEF TypeInv, TypeOK
<1>4. \A v \in Uuids : v # u => pc[v] \in {"idle", "sent", "failed"}
  BY <1>1 DEF OneCli, OneSend, InSend
<1>5. /\ spawned \in Nat /\ dead \subseteq Procs
      /\ \A p \in Procs : p \in Nat
  BY ProcsAreNumbers DEF TypeInv, TypeOK
<1>6. OneSend'
  BY <1>3, <1>4 DEF OneSend, InSend
<1>7. AliveHasAnOwner'
  BY <1>1, <1>3, <1>4 DEF OneCli, AliveHasAnOwner, h
<1>8. StartsAfresh'
  BY <1>1, <1>2, <1>3, <1>4 DEF StartsAfresh, Starting, h
<1>9. UnstartedIsOff'
  <2>1. \A v \in Uuids : pc'[v] # "start"
    BY <1>3, <1>4
  <2>2. \A p \in Procs : p > spawned => p # h
    BY <1>2, <1>5
  <2> QED
    BY <1>1, <1>3, <1>5, <2>1, <2>2 DEF OneCli, UnstartedIsOff
<1> QED
  BY <1>1, <1>2, <1>6, <1>7, <1>8, <1>9 DEF OneCli

\* A started process becomes the session's, or is killed.
LEMMA StartedKeepsOneCli ==
  ASSUME TypeInv, OneCli, NEW u \in Uuids, SetProc(u) \/ StartFails(u)
  PROVE  OneCli'
<1>1. /\ pc[u] = "init"
      /\ UNCHANGED <<spawned, dead>>
      /\ \/ /\ pc' = [pc EXCEPT ![u] = "announce"]
            /\ proc' = hold[u]
            /\ UNCHANGED <<hold, alive>>
         \/ /\ pc' = [pc EXCEPT ![u] = "failed"]
            /\ hold' = [hold EXCEPT ![u] = NoProc]
            /\ alive' = alive \ {hold[u]}
            /\ UNCHANGED proc
  BY DEF SetProc, StartFails, StartFailsKilling, Gone, Release, Goto, session, cli
<1>2. /\ hold[u] \in Procs /\ hold[u] <= spawned /\ proc \notin alive
  BY <1>1 DEF OneCli, StartsAfresh, Starting
<1>3. /\ pc'[u] \in {"announce", "failed"}
      /\ \A v \in Uuids : v # u => pc'[v] = pc[v]
      /\ \A p \in Procs : pc'[Scanner(p)] = pc[Scanner(p)]
  BY <1>1, AgentsDistinct DEF TypeInv, TypeOK
<1>4. \A v \in Uuids : v # u => pc[v] \in {"idle", "sent", "failed"}
  BY <1>1 DEF OneCli, OneSend, InSend
<1>5. dead \subseteq Procs
  BY DEF TypeInv, TypeOK
<1>6. OneSend'
  BY <1>3, <1>4 DEF OneSend, InSend
<1>7. \A p \in alive : p = hold[u]
  BY <1>2, <1>4 DEF OneCli, AliveHasAnOwner
<1>8. AliveHasAnOwner'
  BY <1>1, <1>7 DEF AliveHasAnOwner
<1>9. StartsAfresh' /\ UnstartedIsOff'
  BY <1>1, <1>3, <1>4, <1>5 DEF OneCli, StartsAfresh, UnstartedIsOff, Starting
<1> QED
  BY <1>1, <1>2, <1>6, <1>8, <1>9 DEF OneCli

\* Only a process that has a scanner, and whose CLI has exited, becomes dead.
LEMMA ScanEofKeepsOneCli ==
  ASSUME TypeInv, OneCli, NEW p \in Procs, ScanEof(p)
  PROVE  OneCli'
<1>1. /\ p \notin alive /\ pc[Scanner(p)] = "read"
      /\ pc' = [pc EXCEPT ![Scanner(p)] = "eof"]
      /\ dead' = dead \cup {p}
      /\ UNCHANGED <<proc, spawned, hold, alive>>
  BY DEF ScanEof, Goto, session
<1>2. /\ \A u \in Uuids : pc'[u] = pc[u]
      /\ \A q \in Procs : pc'[Scanner(q)] = "off" <=> pc[Scanner(q)] = "off"
  BY <1>1, AgentsDistinct DEF TypeInv, TypeOK
<1>3. OneSend' /\ AliveHasAnOwner' /\ StartsAfresh'
  BY <1>1, <1>2
  DEF OneCli, OneSend, InSend, AliveHasAnOwner, StartsAfresh, Starting
<1>4. UnstartedIsOff'
  BY <1>1, <1>2 DEF OneCli, UnstartedIsOff, TypeInv, TypeOK, StartsSome
<1> QED
  BY <1>1, <1>3, <1>4 DEF OneCli

\* The invariant holds as long as no send starts while another is under way.
LEMMA OneCliInvariant ==
  ASSUME "overlap" \notin Faults
  PROVE  Spec => []OneCli
<1>1. Init => OneCli
  <2> SUFFICES ASSUME Init PROVE OneCli
    OBVIOUS
  <2>1. \A u \in Uuids : pc[u] = "idle"
    BY AgentsDistinct DEF Init
  <2>2. \A p \in Procs : pc[Scanner(p)] = "off"
    BY AgentsDistinct DEF Init
  <2>3. alive = {} /\ dead = {} /\ proc = 0 /\ spawned = 0
    BY DEF Init, NoProc
  <2> QED
    BY <2>1, <2>2, <2>3
    DEF OneCli, OneSend, InSend, AliveHasAnOwner, StartsAfresh, UnstartedIsOff, Starting
<1>2. TypeInv /\ OneCli /\ [Next]_vars => OneCli'
  <2> SUFFICES ASSUME TypeInv, OneCli, [Next]_vars PROVE OneCli'
    OBVIOUS
  <2>1. CASE UNCHANGED vars
    <3>1. Calm
      BY <2>1 DEF vars, session, local, cli, Calm
    <3> QED
      BY <3>1, CalmKeepsOneCli
  <2>2. CASE \E u \in Uuids : SendBegin(u) \/ SendStep(u) \/ StartFails(u)
    BY <2>2, BeginKeepsOneCli, EnsureStartKeepsOneCli, StartProcessKeepsOneCli,
       StartedKeepsOneCli, SendCalm, CalmKeepsOneCli DEF SendStep
  <2>3. CASE \E p \in Procs : ScanEof(p)
    BY <2>3, ScanEofKeepsOneCli
  <2>4. CASE \/ \E a \in Stops : StopBegin(a) \/ StopStep(a)
             \/ \E c \in Cancels : CancelStep(c) \/ \E u \in Uuids : CancelBegin(c, u)
             \/ \E p \in Procs : \/ ScanReply(p) \/ TakeQueued(p) \/ RenderStarted(p)
                                 \/ ScanDropped(p) \/ WatchStep(p)
                                 \/ CliStep(p) \/ CliRefuse(p) \/ CliExit(p)
             \/ \E a \in Agents : Push(a)
             \/ Close
    BY <2>4, OthersCalm, CalmKeepsOneCli
  <2> QED
    BY <2>1, <2>2, <2>3, <2>4 DEF Next, ScanStep
<1> QED
  BY <1>1, <1>2, TypeInvariant, PTL DEF Spec

\* ensureProcess "returns the live process, spawning a fresh claude if there
\* is none": as long as no send starts while another one is in its handler,
\* the session never has two CLIs running, whatever fails, however many
\* processes die and whenever the stops, cancels and the close come.
THEOREM OneCliWithoutOverlap ==
  ASSUME "overlap" \notin Faults
  PROVE  Spec => []OneLiveCli
<1>1. TypeInv /\ OneCli => OneLiveCli
  BY OneCliSuffices DEF TypeInv
<1> QED
  BY <1>1, TypeInvariant, OneCliInvariant, PTL
-----------------------------------------------------------------------------
(* CommandQueue implements the steps of MessageFate, for any messages,     *)
(* requests, processes and faults.  That a queued message does not stay    *)
(* queued for ever is left to TLC.                                         *)

Unsent == {"idle", "ensure", "start", "init", "announce", "add"}

\* What CommandQueue substitutes for MessageFate's variable.
Fates ==
  [u \in Uuids |->
     IF u \in shown THEN "shown"
     ELSE IF u \in queue \/ InRender(u) THEN "queued"
     ELSE IF pc[u] \in Unsent THEN "unsent" ELSE "gone"]

Rendering == {u \in Uuids : \E p \in Procs : /\ pc[Scanner(p)] = "render"
                                             /\ u \in arg[Scanner(p)]}

\* A message that was registered has been sent by its handler, or is about to
\* be: it is never registered a second time.  TakeQueued takes one at a time.
RegisteredOnce ==
  \A u \in Uuids : u \in shown \cup queue \cup Rendering => pc[u] \notin Unsent
RendersOne ==
  \A p \in Procs : pc[Scanner(p)] = "render" => \E u \in Uuids : arg[Scanner(p)] = {u}
FateInv == RegisteredOnce /\ RendersOne

\* A step that registers and shows nothing.
Quiet ==
  /\ shown' = shown /\ queue' \subseteq queue
  /\ Rendering' \subseteq Rendering \cup queue
  /\ \A u \in Uuids : pc[u] \notin Unsent => pc'[u] \notin Unsent
  /\ \A p \in Procs : pc'[Scanner(p)] = "render" =>
       \/ pc[Scanner(p)] = "render" /\ arg'[Scanner(p)] = arg[Scanner(p)]
       \/ \E u \in Uuids : arg'[Scanner(p)] = {u}

\* The scan goroutines stay where they are, and keep what they hold.
ScannersStay ==
  \A p \in Procs : /\ pc'[Scanner(p)] = "render" <=> pc[Scanner(p)] = "render"
                   /\ arg'[Scanner(p)] = arg[Scanner(p)]

-----------------------------------------------------------------------------
\* The fate of a message.
LEMMA FateIs ==
  \A u \in Uuids :
    Fates[u] = IF u \in shown THEN "shown"
               ELSE IF u \in queue \cup Rendering THEN "queued"
               ELSE IF pc[u] \in Unsent THEN "unsent" ELSE "gone"
BY DEF Fates, Rendering, InRender

\* The steps of MessageFate, taken by the fates in CommandQueue.
LEMMA EnqueueStep ==
  ASSUME NEW u \in Uuids, Fates[u] = "unsent", Fates' = [Fates EXCEPT ![u] = "queued"]
  PROVE  Fate!Next
<1>1. Fate!Enqueue(u)
  BY DEF Fate!Enqueue, Fates, Unsent
<1> QED
  BY <1>1 DEF Fate!Next

\* A message that was queued is shown.
LEMMA ShowStep ==
  ASSUME NEW u \in Uuids, Fates[u] = "queued", Fates' = [Fates EXCEPT ![u] = "shown"]
  PROVE  Fate!Next
<1>1. Fate!Show(u)
  BY DEF Fate!Show, Fates, Unsent
<1> QED
  BY <1>1 DEF Fate!Next

\* Some messages that were not shown yet leave for good.
LEMMA LeaveStep ==
  ASSUME NEW S \in SUBSET Uuids, \A u \in S : Fates[u] \in {"unsent", "queued"},
         Fates' = [u \in Uuids |-> IF u \in S THEN "gone" ELSE Fates[u]]
  PROVE  Fate!Next
<1>1. Fate!Leave(S)
  BY DEF Fate!Leave, Fates, Unsent
<1> QED
  BY <1>1 DEF Fate!Next

\* The same, one step later.
LEMMA FateIsNext ==
  \A u \in Uuids :
    Fates'[u] = IF u \in shown' THEN "shown"
                ELSE IF u \in queue' \cup Rendering' THEN "queued"
                ELSE IF pc'[u] \in Unsent THEN "unsent" ELSE "gone"
BY DEF Fates, Rendering, InRender, Unsent

-----------------------------------------------------------------------------
\* A quiet step keeps the invariant, and messages leave in it, if anything.
LEMMA QuietKeepsInv ==
  ASSUME FateInv, Quiet
  PROVE  FateInv'
<1>1. RegisteredOnce'
  BY DEF FateInv, RegisteredOnce, Quiet
<1>2. RendersOne'
  BY DEF FateInv, RendersOne, Quiet
<1> QED
  BY <1>1, <1>2 DEF FateInv

\* A quiet step is one of MessageFate: messages leave in it, or it stutters.
LEMMA QuietLeaves ==
  ASSUME FateInv, Quiet
  PROVE  Fate!Next
<1> DEFINE S == {u \in Uuids : Fates'[u] # Fates[u]}
<1>1. \A u \in S : Fates[u] \in {"unsent", "queued"} /\ Fates'[u] = "gone"
  BY FateIs, FateIsNext DEF FateInv, RegisteredOnce, Quiet
<1>2. Fates' = [u \in Uuids |-> Fates'[u]]
  BY DEF Fates
<1>3. Fates' = [u \in Uuids |-> IF u \in S THEN "gone" ELSE Fates[u]]
  BY <1>1, <1>2
<1> HIDE DEF S
<1>4. S \in SUBSET Uuids
  BY DEF S
<1> QED
  BY <1>1, <1>3, <1>4, LeaveStep

-----------------------------------------------------------------------------
\* SendMessage registers a message: it is queued.
LEMMA AddQueuedEnqueues ==
  ASSUME TypeInv, FateInv, NEW u \in Uuids, AddQueued(u)
  PROVE  Fate!Next /\ FateInv'
<1> USE AgentsDistinct
<1>1. /\ pc[u] = "add" /\ pc'[u] \in {"send", "addPush"}
      /\ \A a \in Agents : a # u => pc'[a] = pc[a]
      /\ queue' = queue \cup {u} /\ shown' = shown /\ arg' = arg
  BY DEF AddQueued, Goto, TypeInv, TypeOK
<1>2. \A p \in Procs : pc'[Scanner(p)] = pc[Scanner(p)]
  BY <1>1
<1>3. Rendering' = Rendering
  BY <1>1, <1>2 DEF Rendering
<1>4. Fates[u] = "unsent" /\ Fates'[u] = "queued"
  BY <1>1, FateIs, FateIsNext DEF FateInv, RegisteredOnce, Unsent
<1>5. \A v \in Uuids : v # u => Fates'[v] = Fates[v]
  BY <1>1, <1>3, FateIs, FateIsNext
<1>6. Fates' = [Fates EXCEPT ![u] = "queued"]
  BY <1>4, <1>5 DEF Fates
<1>7. FateInv'
  BY <1>1, <1>2, <1>3 DEF FateInv, RegisteredOnce, RendersOne, Unsent
<1> QED
  BY <1>4, <1>6, <1>7, EnqueueStep

\* handleCommandLifecycle broadcasts the bubble of a message it took: it is
\* shown.  That of a closed session is gone.
LEMMA RenderStartedShows ==
  ASSUME TypeInv, FateInv, NEW p \in Procs, RenderStarted(p)
  PROVE  Fate!Next /\ FateInv'
<1> USE AgentsDistinct
<1>1. /\ pc[Scanner(p)] = "render" /\ pc'[Scanner(p)] = "scanPush"
      /\ \A a \in Agents : a # Scanner(p) => pc'[a] = pc[a] /\ arg'[a] = arg[a]
      /\ queue' = queue
      /\ shown' = IF closed THEN shown ELSE shown \cup arg[Scanner(p)]
  BY DEF RenderStarted, Goto, TypeInv, TypeOK
<1>2. PICK u \in Uuids : arg[Scanner(p)] = {u}
  BY <1>1 DEF FateInv, RendersOne
<1>3. /\ u \in Rendering /\ Rendering' \subseteq Rendering
      /\ Rendering \subseteq Rendering' \cup {u}
  BY <1>1, <1>2 DEF Rendering
<1>4. \A v \in Uuids : pc'[v] = pc[v]
  BY <1>1
<1>5. CASE shown' = shown
  <2>1. Quiet
    BY <1>1, <1>3, <1>4, <1>5 DEF Quiet
  <2> QED
    BY <2>1, QuietKeepsInv, QuietLeaves
<1>6. CASE shown' # shown
  <2>1. shown' = shown \cup {u} /\ u \notin shown
    BY <1>1, <1>2, <1>6
  <2>2. Fates[u] = "queued" /\ Fates'[u] = "shown"
    BY <1>3, <2>1, FateIs, FateIsNext
  <2>3. \A v \in Uuids : v # u => Fates'[v] = Fates[v]
    BY <1>1, <1>3, <1>4, <2>1, FateIs, FateIsNext
  <2>4. Fates' = [Fates EXCEPT ![u] = "shown"]
    BY <2>2, <2>3 DEF Fates
  <2>5. FateInv'
    BY <1>1, <1>3, <1>4, <2>1 DEF FateInv, RegisteredOnce, RendersOne
  <2> QED
    BY <2>2, <2>4, <2>5, ShowStep
<1> QED
  BY <1>5, <1>6

-----------------------------------------------------------------------------
\* A step after which the scan goroutines hold no message they did not hold.
Aside ==
  /\ shown' = shown /\ queue' \subseteq queue
  /\ \A u \in Uuids : pc[u] \notin Unsent => pc'[u] \notin Unsent
  /\ \A p \in Procs : pc'[Scanner(p)] = "render" =>
       pc[Scanner(p)] = "render" /\ arg'[Scanner(p)] = arg[Scanner(p)]

\* A step that touches neither shown nor what is rendered is quiet.
LEMMA AsideIsQuiet ==
  ASSUME Aside
  PROVE  Quiet
BY DEF Aside, Quiet, Rendering

\* All other steps but TakeQueued are such, by the goroutine that takes them.
LEMMA SendAside ==
  ASSUME TypeInv, NEW u \in Uuids,
         \/ SendBegin(u) \/ EnsureLive(u) \/ EnsureFails(u) \/ EnsureStart(u)
         \/ StartProcess(u) \/ StartFails(u) \/ SetProc(u) \/ AnnounceStart(u)
         \/ SendUserMessage(u) \/ SendFails(u)
  PROVE  Aside
<1> USE AgentsDistinct
<1>1. /\ shown' = shown /\ queue' \subseteq queue
      /\ \A q \in Procs : arg'[Scanner(q)] = arg[Scanner(q)]
  BY DEF SendBegin, EnsureLive, EnsureFails, EnsureStart, StartProcess, StartFails,
         StartFailsKilling, SetProc, AnnounceStart, AnnounceStartAs, SendUserMessage,
         SendFails, SendFailsDropping, session, local, TypeInv, TypeOK
<1>2. \A v \in Uuids : pc[v] \notin Unsent => pc'[v] \notin Unsent
  BY DEF SendBegin, EnsureLive, EnsureFails, EnsureStart, StartProcess, StartFails,
         StartFailsKilling, SetProc, AnnounceStart, AnnounceStartAs, SendUserMessage,
         SendFails, SendFailsDropping, Goto, Unsent, TypeInv, TypeOK, StartsSome
<1>3. \A q \in Procs : pc'[Scanner(q)] = "render" => pc[Scanner(q)] = "render"
  BY DEF SendBegin, EnsureLive, EnsureFails, EnsureStart, StartProcess, StartFails,
         StartFailsKilling, SetProc, AnnounceStart, AnnounceStartAs, SendUserMessage,
         SendFails, SendFailsDropping, Goto, TypeInv, TypeOK, StartsSome
<1> QED
  BY <1>1, <1>2, <1>3 DEF Aside

\* So are the steps of stops and cancels.
LEMMA RequestAside ==
  ASSUME TypeInv,
         \/ \E a \in Stops : StopBegin(a) \/ StopStep(a)
         \/ \E c \in Cancels : CancelStep(c) \/ \E u \in Uuids : CancelBegin(c, u)
  PROVE  Aside
<1> USE AgentsDistinct DEF TypeInv, TypeOK, Goto
<1>1. ASSUME NEW a \in Requests, NEW to,
             pc' = [pc EXCEPT ![a] = to] /\ shown' = shown /\ queue' \subseteq queue
             /\ (arg' = arg \/ \E m : arg' = [arg EXCEPT ![a] = m])
      PROVE  Aside
  BY <1>1 DEF Aside
<1>2. CASE \E a \in Stops : StopBegin(a) \/ StopStep(a)
  BY <1>1, <1>2
  DEF StopBegin, StopStep, StopWrite, StopReconcile, StopReconcileTo, RequestFails, session
<1>3. CASE \E c \in Cancels : CancelStep(c) \/ \E u \in Uuids : CancelBegin(c, u)
  BY <1>1, <1>3
  DEF CancelBegin, CancelStep, CancelWrite, CancelResolve, RequestFails, session
<1> QED
  BY <1>2, <1>3

\* So are those of the scan goroutines but for the two that take a message and show it.
LEMMA ScanAside ==
  ASSUME TypeInv, NEW p \in Procs,
         ScanReply(p) \/ ScanDropped(p) \/ ScanEof(p)
  PROVE  Aside
<1> USE AgentsDistinct DEF TypeInv, TypeOK, Goto, session
<1>1. CASE ScanReply(p)
  <2>1. Head(stdout[p]).id \in Requests
    BY <1>1, FrameTypes DEF ScanReply, ScanReplyOf, Receive
  <2>2. /\ \A u \in Uuids : pc'[u] = pc[u]
        /\ \A q \in Procs : /\ pc'[Scanner(q)] = pc[Scanner(q)]
                            /\ arg'[Scanner(q)] = arg[Scanner(q)]
        /\ shown' = shown /\ queue' = queue
    BY <1>1, <2>1 DEF ScanReply, ScanReplyOf
  <2> QED
    BY <2>2 DEF Aside
<1>2. CASE ScanDropped(p)
  BY <1>2 DEF Aside, ScanDropped
<1>3. CASE ScanEof(p)
  BY <1>3 DEF Aside, ScanEof
<1> QED
  BY <1>1, <1>2, <1>3

\* TakeQueued takes a message from the queue to the scan goroutine.
LEMMA TakeQueuedQuiet ==
  ASSUME TypeInv, NEW p \in Procs, TakeQueued(p)
  PROVE  Quiet
<1> USE AgentsDistinct DEF TypeInv, TypeOK, Goto, session
<1>1. /\ shown' = shown /\ queue' \subseteq queue
      /\ \A u \in Uuids : pc'[u] = pc[u]
      /\ \A q \in Procs : q # p => /\ pc'[Scanner(q)] = pc[Scanner(q)]
                                   /\ arg'[Scanner(q)] = arg[Scanner(q)]
  BY DEF TakeQueued, TakeQueuedFrom
<1>2. \/ pc' = pc /\ arg' = arg
      \/ \E u \in queue : arg'[Scanner(p)] = {u}
  BY DEF TakeQueued, TakeQueuedFrom
<1>3. Rendering' \subseteq Rendering \cup queue
  BY <1>1, <1>2 DEF Rendering
<1> QED
  BY <1>1, <1>2, <1>3 DEF Quiet

\* So are those of the watchers, the CLIs and the close.
LEMMA RestAside ==
  ASSUME TypeInv,
         \/ \E p \in Procs : WatchStep(p) \/ CliStep(p) \/ CliRefuse(p) \/ CliExit(p)
         \/ \E a \in Agents : Push(a)
         \/ Close
         \/ UNCHANGED vars
  PROVE  Aside
<1> USE AgentsDistinct DEF TypeInv, TypeOK, Goto, session, local
<1>1. CASE \E p \in Procs : WatchStep(p)
  BY <1>1 DEF Aside, WatchStep, WatchCheck, WatchClear, WatchEnd
<1>2. CASE \E p \in Procs : CliStep(p) \/ CliRefuse(p) \/ CliExit(p)
  BY <1>2 DEF Aside, CliStep, CliRead, CliStart, CliFinish, CliRefuse, CliExit
<1>3. CASE \E a \in Agents : Push(a)
  <2>1. PICK a \in Agents : Push(a)
    BY <1>3
  <2>2. /\ shown' = shown /\ queue' = queue /\ arg' = arg
        /\ \A b \in Agents : b # a => pc'[b] = pc[b]
    BY <2>1 DEF Push, PushStart, PushRead, PushAppend
  <2>3. pc[a] \notin Unsent \cup {"render"} /\ pc'[a] \notin Unsent \cup {"render"}
    BY <2>1 DEF Push, PushStart, PushRead, PushAppend, AfterPush, Unsent
  <2> QED
    BY <2>2, <2>3 DEF Aside
<1>4. CASE Close \/ UNCHANGED vars
  BY <1>4 DEF Aside, Close, vars
<1> QED
  BY <1>1, <1>2, <1>3, <1>4

-----------------------------------------------------------------------------
\* Every step is one of MessageFate and keeps the invariant.
LEMMA FateInductive ==
  ASSUME TypeInv, FateInv, [Next]_vars
  PROVE  Fate!Next /\ FateInv'
<1>1. CASE \E u \in Uuids : AddQueued(u)
  BY <1>1, AddQueuedEnqueues
<1>2. CASE \E p \in Procs : RenderStarted(p)
  BY <1>2, RenderStartedShows
<1>3. CASE ~ (\E u \in Uuids : AddQueued(u)) /\ ~ (\E p \in Procs : RenderStarted(p))
  <2>1. Aside \/ \E p \in Procs : TakeQueued(p)
    BY <1>3, SendAside, RequestAside, ScanAside, RestAside DEF Next, SendStep, ScanStep
  <2>2. Quiet
    BY <2>1, AsideIsQuiet, TakeQueuedQuiet
  <2> QED
    BY <2>2, QuietKeepsInv, QuietLeaves
<1> QED
  BY <1>1, <1>2, <1>3

\* No message is registered at first.
LEMMA InitFates == Init => FateInv /\ Fate!Init
<1> SUFFICES ASSUME Init PROVE FateInv /\ Fate!Init
  OBVIOUS
<1>1. /\ \A u \in Uuids : pc[u] = "idle"
      /\ \A p \in Procs : pc[Scanner(p)] = "off"
      /\ queue = {} /\ shown = {}
  BY AgentsDistinct DEF Init
<1>2. Rendering = {}
  BY <1>1 DEF Rendering
<1>3. FateInv
  BY <1>1, <1>2 DEF FateInv, RegisteredOnce, RendersOne
<1>4. Fate!Init
  BY <1>1 DEF Fate!Init, InRender
<1> QED
  BY <1>3, <1>4

\* A message is registered once, and taken once.
LEMMA FateInvariant == Spec => []FateInv
<1>1. TypeInv /\ FateInv /\ [Next]_vars => FateInv'
  BY FateInductive
<1> QED
  BY <1>1, InitFates, TypeInvariant, PTL DEF Spec

\* Session.Queue, the scan goroutines and the pages implement what a user is
\* promised: a message is queued once, is shown only from the queue, and one
\* that left is neither queued nor shown again, however sends, stops, cancels,
\* deaths and the close of the session interleave.
THEOREM QueueImplementsFates == Spec => Fate!Safety
<1>1. TypeInv /\ FateInv /\ [Next]_vars => FateInv' /\ Fate!Next
  BY FateInductive
<1> QED
  BY <1>1, InitFates, TypeInvariant, PTL DEF Spec, Fate!Safety

-----------------------------------------------------------------------------
(* A cancelled message stays cancelled, as long as sends do not overlap.   *)


\* The messages on their way to each CLI, and those it says it started.
SentTo ==
  [p \in Procs |-> {u \in Uuids : \E i \in 1 .. Len(stdin[p]) :
                                    stdin[p][i].op = "user" /\ stdin[p][i].id = u}]
StartedBy ==
  [p \in Procs |-> {u \in Uuids : \E i \in 1 .. Len(stdout[p]) :
                                    stdout[p][i].op = "started" /\ stdout[p][i].id = u}]

\* What claude may still start, and what it did start.
Ahead == {u \in Uuids : \E p \in Procs : u \in SentTo[p] \cup pending[p]}
Running == {u \in Uuids : \E p \in Procs : u \in turn[p] \cup StartedBy[p]}
Begun == Running \cup Rendering \cup shown

\* A message that will never be started: its handler is done, or can only
\* fail, and neither claude nor the scan goroutine holds it.
Finished ==
  {u \in Uuids : /\ pc[u] \notin Unsent
                 /\ hold[u] \in alive => pc[u] \in {"sent", "failed"}
                 /\ u \notin Ahead \cup Begun}

\* The messages whose cancel claude has confirmed in an answer nobody read yet.
Confirmed ==
  {u \in Uuids : \E p \in Procs : \E i \in 1 .. Len(stdout[p]) :
     /\ stdout[p][i].op = "reply" /\ stdout[p][i].id \in Cancels
     /\ u \in stdout[p][i].of}

-----------------------------------------------------------------------------
(* The inductive invariant.  A message goes to one process, once, and from *)
(* there to its turn: it is in one place at a time.                        *)

WrittenOnce ==
  \A p \in Procs : \A i, j \in 1 .. Len(stdin[p]) :
    /\ stdin[p][i].op = "user" /\ stdin[p][j].op = "user"
    /\ stdin[p][i].id = stdin[p][j].id
    => i = j
SentOnce == WrittenOnce /\ \A p \in Procs : SentTo[p] \cap pending[p] = {}

OnePlace ==
  /\ \A u \in Ahead \cup Begun : pc[u] = "sent"
  /\ Ahead \cap Begun = {}
  /\ queue \cap (Rendering \cup shown) = {}

\* Only the process of the session holds messages, and not once it is dead.
Held == [p \in Procs |-> SentTo[p] \cup pending[p] \cup turn[p] \cup StartedBy[p]]
HeldByProc ==
  /\ \A p \in Procs : Held[p] # {} => p = proc
  /\ \A p \in Procs \ alive : stdin[p] = <<>> /\ pending[p] = {} /\ turn[p] = {}
  /\ \A p \in dead : stdout[p] = <<>>
  /\ \A u \in Uuids : Starting(u) => proc = NoProc \/ proc \in dead

\* What a cancel was told, or is about to be told, has left for good.
After == {"cancelPush", "push", "done"}
CancelPcs == {"idle", "write", "await", "replied", "drop"} \cup After
CancelsHold ==
  /\ \A c \in Cancels : pc[c] \in CancelPcs
  /\ \A c \in Cancels : pc[c] \in {"replied", "drop"} \cup After => arg[c] \subseteq Finished
  /\ \A c \in Cancels : pc[c] \in After => arg[c] \cap queue = {}
  /\ Confirmed \subseteq Finished

Base == TypeInv /\ FateInv /\ OneCli
CancelInv == SentOnce /\ OnePlace /\ HeldByProc /\ CancelsHold

-----------------------------------------------------------------------------
(* The pipes.                                                              *)

\* The CLI is sent one more frame.
LEMMA StdinWritten ==
  ASSUME TypeInv, NEW p \in Procs, NEW f \in Frames, Write(p, f)
  PROVE  /\ \A q \in Procs : q # p => SentTo'[q] = SentTo[q]
         /\ SentTo'[p] = SentTo[p] \cup (IF f.op = "user" THEN {f.id} ELSE {})
         /\ WrittenOnce /\ (f.op = "user" => f.id \notin SentTo[p]) => WrittenOnce'
<1> USE DEF TypeInv, TypeOK, Write
<1>1. /\ Len(stdin'[p]) = Len(stdin[p]) + 1
      /\ \A i \in 1 .. Len(stdin[p]) : stdin'[p][i] = stdin[p][i]
      /\ stdin'[p][Len(stdin[p]) + 1] = f
  OBVIOUS
<1>2. \A q \in Procs : q # p => stdin'[q] = stdin[q]
  OBVIOUS
<1>3. Len(stdin[p]) \in Nat /\ (f.op = "user" => f.id \in Uuids)
  BY FrameTypes
<1> HIDE DEF TypeInv, TypeOK, Write
<1>4. SentTo'[p] = SentTo[p] \cup (IF f.op = "user" THEN {f.id} ELSE {})
  <2> DEFINE n == Len(stdin[p])
  <2>1. \A u \in Uuids :
          (\E i \in 1 .. Len(stdin'[p]) : stdin'[p][i].op = "user" /\ stdin'[p][i].id = u)
          <=> \/ \E i \in 1 .. n : stdin[p][i].op = "user" /\ stdin[p][i].id = u
              \/ f.op = "user" /\ f.id = u
    <3>1. n \in Nat /\ n + 1 \in 1 .. n + 1 /\ \A i \in 1 .. n : i \in 1 .. n + 1
      BY <1>3
    <3>2. \A i \in 1 .. n + 1 : i \in 1 .. n \/ i = n + 1
      BY <3>1
    <3> QED
      BY <1>1, <3>1, <3>2
  <2> QED
    BY <1>3, <2>1 DEF SentTo
<1>5. ASSUME WrittenOnce, f.op = "user" => f.id \notin SentTo[p]
      PROVE  WrittenOnce'
  <2> SUFFICES ASSUME NEW q \in Procs, NEW i \in 1 .. Len(stdin'[q]), NEW j \in 1 .. Len(stdin'[q]),
                      stdin'[q][i].op = "user", stdin'[q][j].op = "user",
                      stdin'[q][i].id = stdin'[q][j].id
               PROVE  i = j
    BY DEF WrittenOnce
  <2>1. CASE q # p
    BY <1>2, <1>5, <2>1 DEF WrittenOnce
  <2>2. CASE q = p
    <3> DEFINE n == Len(stdin[p])
    <3>1. /\ i \in 1 .. n \/ i = n + 1
          /\ j \in 1 .. n \/ j = n + 1
      BY <1>1, <1>3, <2>2
    <3>2. ASSUME i \in 1 .. n, j = n + 1 PROVE FALSE
      BY <1>1, <1>3, <1>5, <2>2, <3>2 DEF SentTo
    <3>3. ASSUME j \in 1 .. n, i = n + 1 PROVE FALSE
      BY <1>1, <1>3, <1>5, <2>2, <3>3 DEF SentTo
    <3>4. CASE i \in 1 .. n /\ j \in 1 .. n
      BY <1>1, <1>5, <2>2, <3>4 DEF WrittenOnce
    <3> QED
      BY <3>1, <3>2, <3>3, <3>4
  <2> QED
    BY <2>1, <2>2
<1> QED
  BY <1>2, <1>4, <1>5 DEF SentTo

\* The CLI takes the first frame.
LEMMA StdinRead ==
  ASSUME TypeInv, NEW p \in Procs, stdin[p] # <<>>,
         stdin' = [stdin EXCEPT ![p] = Tail(@)]
  PROVE  /\ \A q \in Procs : SentTo'[q] \subseteq SentTo[q]
         /\ WrittenOnce => WrittenOnce'
         /\ Head(stdin[p]) \in Frames
         /\ Head(stdin[p]).op = "user" =>
              /\ Head(stdin[p]).id \in SentTo[p]
              /\ WrittenOnce => Head(stdin[p]).id \notin SentTo'[p]
<1> USE DEF TypeInv, TypeOK
<1>1. /\ Len(stdin[p]) \in Nat \ {0} /\ Len(stdin'[p]) = Len(stdin[p]) - 1
      /\ \A i \in 1 .. Len(stdin'[p]) : stdin'[p][i] = stdin[p][i + 1]
      /\ Head(stdin[p]) = stdin[p][1] /\ Head(stdin[p]) \in Frames
  OBVIOUS
<1>2. \A q \in Procs : q # p => stdin'[q] = stdin[q]
  OBVIOUS
<1>3. Head(stdin[p]).op = "user" => Head(stdin[p]).id \in Uuids
  BY <1>1, FrameTypes
<1> HIDE DEF TypeInv, TypeOK
<1>4. \A q \in Procs : SentTo'[q] \subseteq SentTo[q]
  BY <1>1, <1>2 DEF SentTo
<1>5. WrittenOnce => WrittenOnce'
  <2> SUFFICES ASSUME WrittenOnce, NEW q \in Procs,
                      NEW i \in 1 .. Len(stdin'[q]), NEW j \in 1 .. Len(stdin'[q]),
                      stdin'[q][i].op = "user", stdin'[q][j].op = "user",
                      stdin'[q][i].id = stdin'[q][j].id
               PROVE  i = j
    BY DEF WrittenOnce
  <2>1. CASE q # p
    BY <1>2, <2>1 DEF WrittenOnce
  <2>2. CASE q = p
    <3>1. i + 1 \in 1 .. Len(stdin[p]) /\ j + 1 \in 1 .. Len(stdin[p])
      BY <1>1, <2>2
    <3>2. i + 1 = j + 1
      BY <1>1, <2>2, <3>1 DEF WrittenOnce
    <3> QED
      BY <3>2
  <2> QED
    BY <2>1, <2>2
<1>6. ASSUME Head(stdin[p]).op = "user"
      PROVE  /\ Head(stdin[p]).id \in SentTo[p]
             /\ WrittenOnce => Head(stdin[p]).id \notin SentTo'[p]
  BY <1>1, <1>3, <1>6 DEF SentTo, WrittenOnce
<1> QED
  BY <1>1, <1>4, <1>5, <1>6

\* The scan goroutine takes the first frame.
LEMMA StdoutRead ==
  ASSUME TypeInv, NEW p \in Procs, NEW ops, Receive(p, ops)
  PROVE  /\ \A q \in Procs : StartedBy'[q] \subseteq StartedBy[q]
         /\ Confirmed' \subseteq Confirmed
         /\ Head(stdout[p]) \in Frames
         /\ Head(stdout[p]).op = "started" => Head(stdout[p]).id \in StartedBy[p]
         /\ Head(stdout[p]).op = "reply" /\ Head(stdout[p]).id \in Cancels =>
              Head(stdout[p]).of \subseteq Confirmed
<1> USE DEF TypeInv, TypeOK, Receive
<1>1. /\ Len(stdout[p]) \in Nat \ {0} /\ Len(stdout'[p]) = Len(stdout[p]) - 1
      /\ \A i \in 1 .. Len(stdout'[p]) : stdout'[p][i] = stdout[p][i + 1]
      /\ Head(stdout[p]) = stdout[p][1] /\ Head(stdout[p]) \in Frames
  OBVIOUS
<1>2. \A q \in Procs : q # p => stdout'[q] = stdout[q]
  OBVIOUS
<1>3. /\ Head(stdout[p]).op = "started" => Head(stdout[p]).id \in Uuids
      /\ Head(stdout[p]).of \subseteq Uuids
  BY <1>1, FrameTypes
<1> HIDE DEF TypeInv, TypeOK, Receive
<1>4. \A q \in Procs : StartedBy'[q] \subseteq StartedBy[q]
  BY <1>1, <1>2 DEF StartedBy
<1>5. Confirmed' \subseteq Confirmed
  <2>1. \A q \in Procs : \A i \in 1 .. Len(stdout'[q]) :
          \E j \in 1 .. Len(stdout[q]) : stdout'[q][i] = stdout[q][j]
    <3> TAKE q \in Procs
    <3> TAKE i \in 1 .. Len(stdout'[q])
    <3>1. CASE q = p
      <4>1. i + 1 \in 1 .. Len(stdout[p])
        BY <1>1, <3>1
      <4> QED
        BY <1>1, <3>1, <4>1
    <3>2. CASE q # p
      BY <1>2, <3>2
    <3> QED
      BY <3>1, <3>2
  <2> QED
    BY <2>1 DEF Confirmed
<1>6. Head(stdout[p]).op = "started" => Head(stdout[p]).id \in StartedBy[p]
  BY <1>1, <1>3 DEF StartedBy
<1>7. Head(stdout[p]).op = "reply" /\ Head(stdout[p]).id \in Cancels =>
        Head(stdout[p]).of \subseteq Confirmed
  BY <1>1, <1>3 DEF Confirmed
<1> QED
  BY <1>1, <1>4, <1>5, <1>6, <1>7

\* The CLI writes frames: of messages it started, and of cancels it confirms.
LEMMA StdoutWritten ==
  ASSUME TypeInv, NEW p \in Procs, NEW fs \in Seq(Frames), Emit(p, fs)
  PROVE  /\ \A q \in Procs : q # p => StartedBy'[q] = StartedBy[q]
         /\ \A u \in StartedBy'[p] \ StartedBy[p] : \E i \in 1 .. Len(fs) :
              fs[i].op = "started" /\ fs[i].id = u
         /\ \A u \in Confirmed' \ Confirmed : \E i \in 1 .. Len(fs) :
              fs[i].op = "reply" /\ fs[i].id \in Cancels /\ u \in fs[i].of
<1> USE DEF TypeInv, TypeOK, Emit
<1> DEFINE n == Len(stdout[p])
<1>1. /\ n \in Nat /\ Len(fs) \in Nat /\ Len(stdout'[p]) = n + Len(fs)
      /\ \A i \in 1 .. n + Len(fs) :
           stdout'[p][i] = IF i <= n THEN stdout[p][i] ELSE fs[i - n]
  OBVIOUS
<1>2. \A q \in Procs : q # p => stdout'[q] = stdout[q]
  OBVIOUS
<1> HIDE DEF TypeInv, TypeOK, Emit
<1>3. \A i \in 1 .. Len(stdout'[p]) :
        \/ i \in 1 .. n /\ stdout'[p][i] = stdout[p][i]
        \/ \E j \in 1 .. Len(fs) : stdout'[p][i] = fs[j]
  <2> TAKE i \in 1 .. Len(stdout'[p])
  <2>1. CASE i <= n
    BY <1>1, <2>1
  <2>2. CASE i > n
    <3>1. i - n \in 1 .. Len(fs) /\ stdout'[p][i] = fs[i - n]
      BY <1>1, <2>2
    <3> QED
      BY <3>1
  <2> QED
    BY <1>1, <2>1, <2>2
<1>4. \A u \in StartedBy'[p] \ StartedBy[p] : \E i \in 1 .. Len(fs) :
        fs[i].op = "started" /\ fs[i].id = u
  BY <1>3 DEF StartedBy
<1>5. \A u \in Confirmed' \ Confirmed : \E i \in 1 .. Len(fs) :
        fs[i].op = "reply" /\ fs[i].id \in Cancels /\ u \in fs[i].of
  <2> TAKE u \in Confirmed' \ Confirmed
  <2>1. PICK q \in Procs : \E i \in 1 .. Len(stdout'[q]) :
          /\ stdout'[q][i].op = "reply" /\ stdout'[q][i].id \in Cancels
          /\ u \in stdout'[q][i].of
    BY DEF Confirmed
  <2>2. u \in Uuids
    BY DEF Confirmed
  <2>3. CASE q = p
    BY <1>3, <2>1, <2>2, <2>3 DEF Confirmed
  <2>4. CASE q # p
    BY <1>2, <2>1, <2>2, <2>4 DEF Confirmed
  <2> QED
    BY <2>3, <2>4
<1> QED
  BY <1>2, <1>4, <1>5 DEF StartedBy

\* It writes one frame, which neither starts a message nor confirms a cancel.
LEMMA StdoutSilent ==
  ASSUME TypeInv, NEW p \in Procs, NEW f \in Frames, Emit(p, <<f>>), f.op # "started",
         f.op = "reply" => f.id \notin Cancels
  PROVE  /\ \A q \in Procs : StartedBy'[q] \subseteq StartedBy[q]
         /\ Confirmed' \subseteq Confirmed
<1> DEFINE fs == <<f>>
<1>1. fs \in Seq(Frames) /\ Len(fs) = 1 /\ fs[1] = f /\ Emit(p, fs)
  OBVIOUS
<1> HIDE DEF fs
<1>2. /\ ~ \E i \in 1 .. Len(fs) : fs[i].op = "started"
      /\ ~ \E i \in 1 .. Len(fs) : fs[i].op = "reply" /\ fs[i].id \in Cancels
  BY <1>1
<1> QED
  BY <1>1, <1>2, StdoutWritten

-----------------------------------------------------------------------------
(* Where messages go in a step.                                            *)

\* No message gets ahead, and no cancel is confirmed.
Draining ==
  /\ \A p \in Procs : /\ SentTo'[p] \subseteq SentTo[p]
                      /\ pending'[p] \subseteq pending[p]
                      /\ turn'[p] \subseteq turn[p]
                      /\ StartedBy'[p] \subseteq StartedBy[p]
  /\ WrittenOnce => WrittenOnce'
  /\ Confirmed' \subseteq Confirmed

\* The steps of MovesMessages are those of a message from place to place.
MovesMessages ==
  \/ \E u \in Uuids : SendUserMessage(u)
  \/ \E p \in Procs : CliStart(p) \/ (CliRead(p) /\ (CliUser(p) \/ CliCancel(p)))

\* The pipes and claude's memory are left alone.
LEMMA UntouchedDrains ==
  ASSUME UNCHANGED <<stdin, stdout, pending, turn>>
  PROVE  Draining
BY DEF Draining, SentTo, StartedBy, Confirmed, WrittenOnce

\* CLIs end.
LEMMA GoneDrains ==
  ASSUME TypeInv, NEW ps, Gone(ps)
  PROVE  Draining
<1>1. \A p \in Procs : /\ stdin'[p] = <<>> \/ stdin'[p] = stdin[p]
                       /\ pending'[p] \subseteq pending[p] /\ turn'[p] \subseteq turn[p]
  BY DEF Gone, TypeInv, TypeOK
<1>2. \A p \in Procs : SentTo'[p] \subseteq SentTo[p]
  BY <1>1 DEF SentTo
<1>3. WrittenOnce => WrittenOnce'
  BY <1>1 DEF WrittenOnce
<1>4. UNCHANGED stdout
  BY DEF Gone
<1> QED
  BY <1>1, <1>2, <1>3, <1>4 DEF Draining, StartedBy, Confirmed

\* A request is written.
LEMMA RequestDrains ==
  ASSUME TypeInv, NEW p \in Procs, NEW f \in Frames, f.op # "user", Write(p, f),
         UNCHANGED <<stdout, pending, turn>>
  PROVE  Draining
BY StdinWritten DEF Draining, StartedBy, Confirmed

\* The scan goroutine reads.
LEMMA ReceiveDrains ==
  ASSUME TypeInv, NEW p \in Procs, NEW ops, Receive(p, ops)
  PROVE  Draining
<1>1. UNCHANGED <<stdin, pending, turn>>
  BY DEF Receive
<1> QED
  BY <1>1, StdoutRead DEF Draining, SentTo, WrittenOnce

\* The CLI answers an interrupt.
LEMMA InterruptDrains ==
  ASSUME TypeInv, NEW p \in Procs, CliRead(p), CliInterrupt(p)
  PROVE  Draining
<1> DEFINE f == Head(stdin[p])
           reply == Frame("reply", f.id, pending[p])
<1>1. stdin[p] # <<>> /\ stdin' = [stdin EXCEPT ![p] = Tail(@)]
  BY DEF CliRead
<1>2. f \in Frames /\ f.id \in Stops
  BY <1>1, StdinRead, FrameTypes DEF CliInterrupt
<1>3. f.id \notin Cancels /\ pending[p] \subseteq Uuids
  BY <1>2, ConstantsAssumption DEF TypeInv, TypeOK
<1>4. reply \in Frames /\ reply.op = "reply" /\ reply.id = f.id /\ Emit(p, <<reply>>)
  BY <1>2, <1>3, FrameTypes, AgentsDistinct DEF CliInterrupt, Frame
<1> HIDE DEF reply, f
<1>5. /\ \A q \in Procs : StartedBy'[q] \subseteq StartedBy[q]
      /\ Confirmed' \subseteq Confirmed
  BY <1>3, <1>4, StdoutSilent
<1>6. /\ \A q \in Procs : SentTo'[q] \subseteq SentTo[q]
      /\ WrittenOnce => WrittenOnce'
  BY <1>1, StdinRead
<1>7. pending' = pending /\ \A q \in Procs : turn'[q] \subseteq turn[q]
  BY DEF CliInterrupt, TypeInv, TypeOK
<1> QED
  BY <1>5, <1>6, <1>7 DEF Draining

\* The CLI refuses a message.
LEMMA RefuseDrains ==
  ASSUME TypeInv, NEW p \in Procs, CliRefuse(p)
  PROVE  Draining
<1>1. PICK u \in pending[p] : /\ pending' = [pending EXCEPT ![p] = @ \ {u}]
                              /\ Emit(p, <<Frame("refused", u, {})>>)
  BY DEF CliRefuse
<1> DEFINE notice == Frame("refused", u, {})
<1>2. u \in Uuids
  BY DEF TypeInv, TypeOK
<1>3. notice \in Frames /\ notice.op = "refused" /\ Emit(p, <<notice>>)
  BY <1>1, <1>2, FrameTypes DEF Frame
<1> HIDE DEF notice
<1>4. /\ \A q \in Procs : StartedBy'[q] \subseteq StartedBy[q]
      /\ Confirmed' \subseteq Confirmed
  BY <1>3, StdoutSilent
<1>5. /\ UNCHANGED <<stdin, turn>>
      /\ \A q \in Procs : pending'[q] \subseteq pending[q]
  BY <1>1 DEF CliRefuse, TypeInv, TypeOK
<1> QED
  BY <1>4, <1>5 DEF Draining, SentTo, WrittenOnce

\* So every step drains but for the four that move a message.
LEMMA OthersDrain ==
  ASSUME TypeInv, [Next]_vars, ~ MovesMessages
  PROVE  Draining
<1> USE DEF cli
<1>1. CASE UNCHANGED vars
  BY <1>1, UntouchedDrains DEF vars
<1>2. CASE \E u \in Uuids : SendBegin(u) \/ SendStep(u) \/ StartFails(u)
  BY <1>2, UntouchedDrains, GoneDrains
  DEF MovesMessages, SendBegin, SendStep, StartFails, StartFailsKilling, EnsureLive, EnsureFails,
      EnsureStart, StartProcess, SetProc, AnnounceStart, AnnounceStartAs, AddQueued, SendFails,
      SendFailsDropping
<1>3. CASE \E a \in Stops : StopBegin(a) \/ StopStep(a)
  <2>1. PICK a \in Stops : StopBegin(a) \/ StopStep(a)
    BY <1>3
  <2>2. CASE StopWrite(a)
    <3>1. Frame("interrupt", a, {}) \in Frames /\ Frame("interrupt", a, {}).op # "user"
      BY FrameTypes DEF Frame
    <3>2. hold[a] \in Procs
      BY <2>2 DEF StopWrite, TypeInv, TypeOK
    <3> QED
      BY <2>2, <3>1, <3>2, RequestDrains DEF StopWrite
  <2> QED
    BY <2>1, <2>2, UntouchedDrains
    DEF StopBegin, StopStep, StopReconcile, StopReconcileTo, RequestFails
<1>4. CASE \E c \in Cancels : CancelStep(c) \/ \E u \in Uuids : CancelBegin(c, u)
  <2>1. PICK c \in Cancels : CancelStep(c) \/ \E u \in Uuids : CancelBegin(c, u)
    BY <1>4
  <2>2. CASE CancelWrite(c)
    <3>1. arg[c] \subseteq Uuids
      BY AgentsDistinct DEF TypeInv, TypeOK
    <3>2. Frame("cancel", c, arg[c]) \in Frames /\ Frame("cancel", c, arg[c]).op # "user"
      BY <3>1, FrameTypes DEF Frame
    <3>3. hold[c] \in Procs
      BY <2>2 DEF CancelWrite, TypeInv, TypeOK
    <3> QED
      BY <2>2, <3>2, <3>3, RequestDrains DEF CancelWrite
  <2> QED
    BY <2>1, <2>2, UntouchedDrains DEF CancelBegin, CancelStep, CancelResolve, RequestFails
<1>5. CASE \E p \in Procs : ScanStep(p) \/ WatchStep(p)
  BY <1>5, ReceiveDrains, UntouchedDrains
  DEF ScanStep, ScanReply, ScanReplyOf, TakeQueued, TakeQueuedFrom, RenderStarted, ScanDropped,
      ScanEof, WatchStep, WatchCheck, WatchClear, WatchEnd
<1>6. CASE \E p \in Procs : CliStep(p) \/ CliRefuse(p) \/ CliExit(p)
  <2>1. PICK p \in Procs : CliStep(p) \/ CliRefuse(p) \/ CliExit(p)
    BY <1>6
  <2>2. CASE CliRead(p)
    BY <2>2, InterruptDrains DEF CliRead, MovesMessages
  <2>3. CASE CliFinish(p)
    <3>1. /\ UNCHANGED <<stdin, stdout, pending>>
          /\ \A q \in Procs : turn'[q] \subseteq turn[q]
      BY <2>3 DEF CliFinish, TypeInv, TypeOK
    <3> QED
      BY <3>1 DEF Draining, SentTo, StartedBy, Confirmed, WrittenOnce
  <2>4. CASE CliRefuse(p) \/ CliExit(p)
    BY <2>4, RefuseDrains, GoneDrains DEF CliExit
  <2>5. ~ CliStart(p)
    BY DEF MovesMessages
  <2> QED
    BY <2>1, <2>2, <2>3, <2>4, <2>5 DEF CliStep
<1>7. CASE (\E a \in Agents : Push(a)) \/ Close
  BY <1>7, UntouchedDrains, GoneDrains DEF Push, PushStart, PushRead, PushAppend, Close
<1> QED
  BY <1>1, <1>2, <1>3, <1>4, <1>5, <1>6, <1>7 DEF Next

-----------------------------------------------------------------------------
(* Where the handlers and the scan goroutines go.                          *)

\* The handler of a message that was registered does not begin again; only
\* one that could already write to a CLI can after the step.
GoesOn ==
  \A u \in Uuids :
    /\ pc[u] = "sent" => pc'[u] = "sent"
    /\ pc[u] \notin Unsent => pc'[u] \notin Unsent
    /\ pc[u] \notin Unsent /\ hold'[u] \in alive' =>
         \/ pc'[u] \in {"sent", "failed"}
         \/ hold[u] \in alive /\ pc[u] \notin {"sent", "failed"}

\* Handlers that stay where they are go on.
LEMMA StayingGoesOn ==
  ASSUME \A u \in Uuids : pc'[u] = pc[u] /\ hold'[u] = hold[u], alive' \subseteq alive
  PROVE  GoesOn
BY DEF GoesOn

\* SendMessage goes on: one that holds a running process did not end.
LEMMA SendersGoOn ==
  ASSUME Base, NEW v \in Uuids, SendBegin(v) \/ SendStep(v) \/ StartFails(v)
  PROVE  GoesOn
<1> USE AgentsDistinct DEF Goto, Unsent, GoesOn, session, local, cli, Base, TypeInv, TypeOK
<1>1. CASE \/ SendBegin(v) \/ EnsureLive(v) \/ EnsureFails(v) \/ EnsureStart(v) \/ SetProc(v)
           \/ AddQueued(v)
  BY <1>1 DEF SendBegin, EnsureLive, EnsureFails, EnsureStart, SetProc, AddQueued
<1>2. CASE StartProcess(v)
  <2>1. /\ pc[v] = "start" /\ v \in InSend /\ hold' = hold /\ alive' = alive \cup {hold[v]}
        /\ \A u \in Uuids : pc'[u] = IF u = v THEN "init" ELSE pc[u]
    BY <1>2, ConstantsAssumption DEF StartProcess, InSend, StartsSome
  <2>2. ASSUME NEW u \in Uuids, pc[u] \notin Unsent, pc[u] \notin {"sent", "failed"}
        PROVE  FALSE
    BY <2>1, <2>2 DEF OneCli, OneSend, InSend
  <2> QED
    BY <2>1, <2>2
<1>3. CASE StartFails(v)
  BY <1>3, ProcsAreNumbers DEF StartFails, StartFailsKilling, Gone, Release
<1>4. CASE AnnounceStart(v)
  <2>1. /\ pc[v] = "announce" /\ hold' = hold /\ alive' = alive
        /\ \A u \in Uuids : pc'[u] = IF u = v THEN "add" ELSE pc[u]
    BY <1>4 DEF AnnounceStart, AnnounceStartAs, StartsSome
  <2> QED
    BY <2>1
<1>5. CASE SendUserMessage(v) \/ SendFails(v)
  BY <1>5, ProcsAreNumbers DEF SendUserMessage, SendFails, SendFailsDropping, Release
<1> QED
  BY <1>1, <1>2, <1>3, <1>4, <1>5 DEF SendStep

\* No step takes a handler back to before its send.
LEMMA AllGoOn ==
  ASSUME Base, [Next]_vars
  PROVE  GoesOn
<1> USE AgentsDistinct DEF Goto, session, local, cli, Base, TypeInv, TypeOK
<1>1. CASE UNCHANGED vars
  BY <1>1, StayingGoesOn DEF vars
<1>2. CASE \E u \in Uuids : SendBegin(u) \/ SendStep(u) \/ StartFails(u)
  BY <1>2, SendersGoOn
<1>3. CASE \E a \in Stops : StopBegin(a) \/ StopStep(a)
  <2>1. (\A u \in Uuids : pc'[u] = pc[u] /\ hold'[u] = hold[u]) /\ alive' = alive
    BY <1>3 DEF StopBegin, StopStep, StopWrite, StopReconcile, StopReconcileTo, RequestFails, Release
  <2> QED
    BY <2>1, StayingGoesOn
<1>4. CASE \E c \in Cancels : CancelStep(c) \/ \E u \in Uuids : CancelBegin(c, u)
  <2>1. (\A u \in Uuids : pc'[u] = pc[u] /\ hold'[u] = hold[u]) /\ alive' = alive
    BY <1>4 DEF CancelBegin, CancelStep, CancelWrite, CancelResolve, RequestFails, Release
  <2> QED
    BY <2>1, StayingGoesOn
<1>5. CASE \E p \in Procs : ScanStep(p)
  <2>1. PICK p \in Procs : ScanStep(p)
    BY <1>5
  <2>2. CASE ScanReply(p)
    <3>1. Head(stdout[p]).id \in Requests
      BY <2>2, FrameTypes DEF ScanReply, ScanReplyOf, Receive
    <3>2. (\A u \in Uuids : pc'[u] = pc[u] /\ hold'[u] = hold[u]) /\ alive' = alive
      BY <2>2, <3>1 DEF ScanReply, ScanReplyOf, Receive
    <3> QED
      BY <3>2, StayingGoesOn
  <2>3. CASE TakeQueued(p) \/ RenderStarted(p) \/ ScanDropped(p) \/ ScanEof(p)
    <3>1. (\A u \in Uuids : pc'[u] = pc[u] /\ hold'[u] = hold[u]) /\ alive' = alive
      BY <2>3 DEF TakeQueued, TakeQueuedFrom, RenderStarted, ScanDropped, ScanEof, Receive
    <3> QED
      BY <3>1, StayingGoesOn
  <2> QED
    BY <2>1, <2>2, <2>3 DEF ScanStep
<1>6. CASE \E p \in Procs : WatchStep(p) \/ CliStep(p) \/ CliRefuse(p) \/ CliExit(p)
  <2>1. (\A u \in Uuids : pc'[u] = pc[u] /\ hold'[u] = hold[u]) /\ alive' \subseteq alive
    BY <1>6 DEF WatchStep, WatchCheck, WatchClear, WatchEnd, CliStep, CliRead, CliStart, CliFinish,
                CliRefuse, CliExit, Gone
  <2> QED
    BY <2>1, StayingGoesOn
<1>7. CASE \E a \in Agents : Push(a)
  <2>1. PICK a \in Agents : Push(a)
    BY <1>7
  <2>2. /\ hold' = hold /\ alive' = alive
        /\ \A b \in Agents : b # a => pc'[b] = pc[b]
    BY <2>1 DEF Push, PushStart, PushRead, PushAppend
  <2>3. pc[a] \notin Unsent \cup {"sent", "failed"} /\ pc'[a] \notin Unsent
    BY <2>1 DEF Push, PushStart, PushRead, PushAppend, AfterPush, Unsent
  <2> QED
    BY <2>2, <2>3 DEF GoesOn
<1>8. CASE Close
  BY <1>8, StayingGoesOn DEF Close, Gone
<1> QED
  BY <1>1, <1>2, <1>3, <1>4, <1>5, <1>6, <1>7, <1>8 DEF Next

\* A message is taken from the queue when claude says that it started.
LEMMA RendersWhatRuns ==
  ASSUME Base, OnePlace, [Next]_vars
  PROVE  /\ Rendering' \cup shown' \subseteq Rendering \cup shown \cup Running
         /\ queue' \cap (Rendering' \cup shown') = {}
<1> USE AgentsDistinct
<1>1. CASE Aside
  <2>1. Rendering' \subseteq Rendering /\ shown' = shown /\ queue' \subseteq queue
    BY <1>1 DEF Aside, Rendering
  <2> QED
    BY <2>1 DEF OnePlace
<1>2. CASE \E u \in Uuids : AddQueued(u)
  <2>1. PICK u \in Uuids : AddQueued(u)
    BY <1>2
  <2>2. /\ pc[u] = "add" /\ \A p \in Procs : pc'[Scanner(p)] = pc[Scanner(p)]
        /\ queue' = queue \cup {u} /\ shown' = shown /\ arg' = arg
    BY <2>1 DEF AddQueued, Goto, Base, TypeInv, TypeOK
  <2>3. Rendering' = Rendering
    BY <2>2 DEF Rendering
  <2>4. u \notin Rendering \cup shown
    BY <2>2 DEF OnePlace, Begun
  <2> QED
    BY <2>2, <2>3, <2>4 DEF OnePlace
<1>3. CASE \E p \in Procs : RenderStarted(p)
  <2>1. PICK p \in Procs : RenderStarted(p)
    BY <1>3
  <2>2. /\ pc[Scanner(p)] = "render" /\ pc'[Scanner(p)] = "scanPush"
        /\ \A a \in Agents : a # Scanner(p) => pc'[a] = pc[a] /\ arg'[a] = arg[a]
        /\ queue' = queue
        /\ shown' \subseteq shown \cup arg[Scanner(p)] /\ arg[Scanner(p)] \subseteq Uuids
    BY <2>1 DEF RenderStarted, Goto, Base, TypeInv, TypeOK
  <2>3. Rendering' \subseteq Rendering /\ arg[Scanner(p)] \subseteq Rendering
    BY <2>2 DEF Rendering
  <2> QED
    BY <2>2, <2>3 DEF OnePlace
<1>4. CASE \E p \in Procs : TakeQueued(p)
  <2>1. PICK p \in Procs : TakeQueued(p)
    BY <1>4
  <2> DEFINE u == Head(stdout[p]).id
  <2>2. u \in StartedBy[p]
    BY <2>1, StdoutRead DEF TakeQueued, TakeQueuedFrom, Receive, Base
  <2>3. u \in Running
    BY <2>2 DEF Running, StartedBy
  <2>4. /\ shown' = shown /\ queue' \subseteq queue
        /\ \A q \in Procs : q # p => /\ pc'[Scanner(q)] = pc[Scanner(q)]
                                     /\ arg'[Scanner(q)] = arg[Scanner(q)]
        /\ \/ pc' = pc /\ arg' = arg
           \/ arg'[Scanner(p)] = {u} /\ queue' = queue \ {u}
    BY <2>1 DEF TakeQueued, TakeQueuedFrom, Base, TypeInv, TypeOK
  <2> HIDE DEF u
  <2>5. \/ Rendering' \subseteq Rendering
        \/ Rendering' \subseteq Rendering \cup {u} /\ queue' = queue \ {u}
    BY <2>4 DEF Rendering
  <2> QED
    BY <2>3, <2>4, <2>5 DEF OnePlace, Running
<1> QED
  BY <1>1, <1>2, <1>3, <1>4, SendAside, RequestAside, ScanAside, RestAside
  DEF Next, SendStep, ScanStep, Base

-----------------------------------------------------------------------------
(* The steps that move a message.                                          *)

\* SendUserMessage puts a new message ahead of everything.
LEMMA SendMoves ==
  ASSUME Base, OnePlace, SentOnce, NEW u \in Uuids, SendUserMessage(u)
  PROVE  /\ SentOnce'
         /\ Ahead' = Ahead \cup {u} /\ Begun' \subseteq Begun /\ u \notin Ahead \cup Begun
         /\ Confirmed' = Confirmed
         /\ \A p \in Procs : Held'[p] \subseteq Held[p] \cup (IF p = hold[u] THEN {u} ELSE {})
<1> DEFINE f == Frame("user", u, {u})
<1>1. /\ pc[u] = "send" /\ hold[u] \in Procs /\ Write(hold[u], f)
      /\ UNCHANGED <<shown, arg, stdout, pending, turn>>
      /\ \A p \in Procs : pc'[Scanner(p)] = pc[Scanner(p)]
  BY AgentsDistinct
  DEF SendUserMessage, Goto, session, Base, TypeInv, TypeOK
<1>2. f \in Frames /\ f.op = "user" /\ f.id = u
  BY FrameTypes DEF Frame
<1> HIDE DEF f
<1>3. u \notin Ahead \cup Begun
  BY <1>1 DEF OnePlace
<1>4. \A p \in Procs : u \notin SentTo[p] \cup pending[p]
  BY <1>3 DEF Ahead
<1>5. /\ \A q \in Procs : q # hold[u] => SentTo'[q] = SentTo[q]
      /\ SentTo'[hold[u]] = SentTo[hold[u]] \cup {u}
      /\ WrittenOnce'
  BY <1>1, <1>2, <1>4, StdinWritten DEF SentOnce, Base
<1>6. SentOnce'
  BY <1>1, <1>4, <1>5 DEF SentOnce
<1>7. Ahead' = Ahead \cup {u}
  BY <1>1, <1>5 DEF Ahead
<1>8. Begun' \subseteq Begun /\ Confirmed' = Confirmed
  BY <1>1 DEF Begun, Running, Rendering, StartedBy, Confirmed
<1>9. \A p \in Procs : Held'[p] \subseteq Held[p] \cup (IF p = hold[u] THEN {u} ELSE {})
  BY <1>1, <1>5 DEF Held, StartedBy
<1> QED
  BY <1>3, <1>6, <1>7, <1>8, <1>9

\* The CLI takes a message from stdin: it is pending.
LEMMA UserMoves ==
  ASSUME Base, SentOnce, NEW p \in Procs, CliRead(p), CliUser(p)
  PROVE  /\ SentOnce'
         /\ Ahead' \subseteq Ahead /\ Running' = Running /\ Confirmed' = Confirmed
         /\ \A q \in Procs : Held'[q] \subseteq Held[q]
<1> DEFINE u == Head(stdin[p]).id
<1>1. /\ stdin[p] # <<>> /\ stdin' = [stdin EXCEPT ![p] = Tail(@)]
      /\ Head(stdin[p]).op = "user" /\ UNCHANGED <<stdout, turn>>
      /\ pending' = [pending EXCEPT ![p] = @ \cup {u}]
  BY DEF CliRead, CliUser
<1>2. /\ \A q \in Procs : SentTo'[q] \subseteq SentTo[q]
      /\ WrittenOnce' /\ u \in SentTo[p] /\ u \notin SentTo'[p]
  BY <1>1, StdinRead DEF SentOnce, Base
<1>3. \A q \in Procs : pending'[q] = IF q = p THEN pending[p] \cup {u} ELSE pending[q]
  BY <1>1 DEF Base, TypeInv, TypeOK
<1> HIDE DEF u
<1>4. SentOnce'
  BY <1>2, <1>3 DEF SentOnce
<1>5. Ahead' \subseteq Ahead
  BY <1>2, <1>3 DEF Ahead
<1>6. Running' = Running /\ Confirmed' = Confirmed
  BY <1>1 DEF Running, StartedBy, Confirmed
<1>7. \A q \in Procs : Held'[q] \subseteq Held[q]
  BY <1>1, <1>2, <1>3 DEF Held, StartedBy
<1> QED
  BY <1>4, <1>5, <1>6, <1>7

\* A message that is cancelled was waiting, and is nowhere afterwards.
LEMMA CancelMoves ==
  ASSUME Base, SentOnce, OnePlace, HeldByProc, NEW p \in Procs, CliRead(p), CliCancel(p)
  PROVE  /\ SentOnce'
         /\ Ahead' \subseteq Ahead /\ Running' \subseteq Running
         /\ Confirmed' \subseteq Confirmed \cup (Ahead \ Ahead')
         /\ \A q \in Procs : Held'[q] \subseteq Held[q]
<1> DEFINE f == Head(stdin[p])
           removed == f.of \cap pending[p]
           reply == Frame("reply", f.id, removed)
           notice(u) == Frame("cancelled", u, {})
<1>1. /\ stdin[p] # <<>> /\ stdin' = [stdin EXCEPT ![p] = Tail(@)]
      /\ f.op = "cancel" /\ UNCHANGED turn
      /\ pending' = [pending EXCEPT ![p] = @ \ removed]
  BY DEF CliRead, CliCancel
<1>2. /\ \A q \in Procs : SentTo'[q] \subseteq SentTo[q]
      /\ WrittenOnce' /\ f \in Frames
  BY <1>1, StdinRead DEF SentOnce, Base
<1>3. /\ \A q \in Procs : pending'[q] = IF q = p THEN pending[p] \ removed ELSE pending[q]
      /\ removed \subseteq Uuids /\ removed \subseteq pending[p]
  BY <1>1 DEF Base, TypeInv, TypeOK
<1>4. /\ reply \in Frames /\ reply.op = "reply" /\ reply.of = removed
      /\ \A u \in removed : notice(u) \in Frames /\ notice(u).op = "cancelled"
  BY <1>1, <1>2, <1>3, FrameTypes, AgentsDistinct DEF Frame
<1>5. \/ Emit(p, <<reply>>)
      \/ \E u \in removed : \/ Emit(p, <<notice(u)>> \o <<reply>>)
                            \/ Emit(p, <<reply>> \o <<notice(u)>>)
  BY DEF CliCancel
<1> HIDE DEF f, removed, reply, notice
<1> DEFINE Told(fs) == \A i \in 1 .. Len(fs) : fs[i] = reply \/ fs[i].op = "cancelled"
<1>6. \E fs \in Seq(Frames) : Emit(p, fs) /\ Told(fs)
  <2>1. CASE Emit(p, <<reply>>)
    <3>1. <<reply>> \in Seq(Frames) /\ Told(<<reply>>)
      BY <1>4
    <3> QED
      BY <2>1, <3>1
  <2>2. CASE ~ Emit(p, <<reply>>)
    <3>1. PICK u \in removed : \/ Emit(p, <<notice(u)>> \o <<reply>>)
                               \/ Emit(p, <<reply>> \o <<notice(u)>>)
      BY <1>5, <2>2
    <3> DEFINE n == notice(u)
    <3>2. n \in Frames /\ n.op = "cancelled"
      BY <1>4
    <3>3. Emit(p, <<n>> \o <<reply>>) \/ Emit(p, <<reply>> \o <<n>>)
      BY <3>1
    <3> HIDE DEF n
    <3>4. /\ <<n>> \o <<reply>> \in Seq(Frames) /\ Told(<<n>> \o <<reply>>)
          /\ <<reply>> \o <<n>> \in Seq(Frames) /\ Told(<<reply>> \o <<n>>)
      BY <1>4, <3>2
    <3> QED
      BY <3>3, <3>4
  <2> QED
    BY <2>1, <2>2
<1>7. /\ \A q \in Procs : StartedBy'[q] \subseteq StartedBy[q]
      /\ Confirmed' \subseteq Confirmed \cup removed
  BY <1>4, <1>6, StdoutWritten DEF Base
<1>8. SentOnce'
  BY <1>2, <1>3 DEF SentOnce
<1>9. Ahead' \subseteq Ahead
  BY <1>2, <1>3 DEF Ahead
<1>10. removed \subseteq Ahead \ Ahead'
  <2> SUFFICES ASSUME NEW u \in removed PROVE u \in Ahead /\ u \notin Ahead'
    OBVIOUS
  <2>1. u \in pending[p] /\ u \notin SentTo[p] /\ u \notin pending'[p]
    BY <1>3 DEF SentOnce
  <2>2. u \in Ahead
    BY <1>3, <2>1 DEF Ahead
  <2>3. \A q \in Procs : q # p => SentTo[q] = {} /\ pending[q] = {}
    BY <2>1 DEF HeldByProc, Held
  <2> QED
    BY <1>2, <1>3, <2>1, <2>2, <2>3 DEF Ahead
<1>11. Running' \subseteq Running
  BY <1>1, <1>7 DEF Running
<1>12. \A q \in Procs : Held'[q] \subseteq Held[q]
  BY <1>1, <1>2, <1>3, <1>7 DEF Held
<1> QED
  BY <1>7, <1>8, <1>9, <1>10, <1>11, <1>12

\* The CLI starts a pending message: it is running.
LEMMA StartMoves ==
  ASSUME Base, SentOnce, HeldByProc, NEW p \in Procs, CliStart(p)
  PROVE  /\ SentOnce'
         /\ Ahead' \subseteq Ahead /\ Running' \subseteq Running \cup (Ahead \ Ahead')
         /\ Confirmed' \subseteq Confirmed
         /\ \A q \in Procs : Held'[q] \subseteq Held[q]
<1>1. PICK u \in pending[p] : /\ turn' = [turn EXCEPT ![p] = {u}]
                              /\ pending' = [pending EXCEPT ![p] = @ \ {u}]
                              /\ Emit(p, <<Frame("started", u, {})>>)
  BY DEF CliStart
<1> DEFINE f == Frame("started", u, {})
           fs == <<f>>
<1>2. u \in Uuids /\ UNCHANGED stdin
  BY DEF CliStart, Base, TypeInv, TypeOK
<1>3. f \in Frames /\ f.op = "started" /\ f.id = u
  BY <1>2, FrameTypes DEF Frame
<1> HIDE DEF f
<1>4. fs \in Seq(Frames) /\ Emit(p, fs) /\ \A i \in 1 .. Len(fs) : fs[i] = f
  BY <1>1, <1>3 DEF f
<1> HIDE DEF fs
<1>5. /\ \A q \in Procs : q # p => StartedBy'[q] = StartedBy[q]
      /\ StartedBy'[p] \subseteq StartedBy[p] \cup {u}
      /\ Confirmed' \subseteq Confirmed
  BY <1>3, <1>4, StdoutWritten DEF Base
<1>6. /\ \A q \in Procs : pending'[q] = IF q = p THEN pending[p] \ {u} ELSE pending[q]
      /\ \A q \in Procs : turn'[q] = IF q = p THEN {u} ELSE turn[q]
      /\ SentTo' = SentTo /\ WrittenOnce' = WrittenOnce
  BY <1>1, <1>2 DEF Base, TypeInv, TypeOK, SentTo, WrittenOnce
<1>7. SentOnce'
  BY <1>6 DEF SentOnce
<1>8. Ahead' \subseteq Ahead
  BY <1>6 DEF Ahead
<1>9. u \in Ahead \ Ahead'
  <2>1. u \notin SentTo[p] /\ \A q \in Procs : q # p => SentTo[q] = {} /\ pending[q] = {}
    BY DEF SentOnce, HeldByProc, Held
  <2> QED
    BY <1>2, <1>6, <2>1 DEF Ahead
<1>10. Running' \subseteq Running \cup {u}
  BY <1>5, <1>6 DEF Running
<1>11. \A q \in Procs : Held'[q] \subseteq Held[q]
  BY <1>5, <1>6 DEF Held
<1> QED
  BY <1>5, <1>7, <1>8, <1>9, <1>10, <1>11

-----------------------------------------------------------------------------
(* The invariant, part by part.                                            *)

\* A step sends a message to the CLI, or moves messages onward.
MovesOnward ==
  /\ Ahead' \subseteq Ahead
  /\ Running' \subseteq Running \cup (Ahead \ Ahead')
  /\ Confirmed' \subseteq Confirmed \cup ((Ahead \ Ahead') \ Running')
  /\ \A p \in Procs : Held'[p] \subseteq Held[p]

\* Apart from a send, messages only go from ahead to running.
LEMMA MessagesMove ==
  ASSUME Base, SentOnce, OnePlace, HeldByProc, [Next]_vars
  PROVE  SentOnce' /\ (MovesOnward \/ \E u \in Uuids : SendUserMessage(u))
<1>1. CASE \E u \in Uuids : SendUserMessage(u)
  BY <1>1, SendMoves
<1>2. CASE \E p \in Procs : CliStart(p)
  BY <1>2, StartMoves DEF MovesOnward
<1>3. CASE \E p \in Procs : CliRead(p) /\ CliUser(p)
  BY <1>3, UserMoves DEF MovesOnward
<1>4. CASE \E p \in Procs : CliRead(p) /\ CliCancel(p)
  <2>1. /\ SentOnce'
        /\ Ahead' \subseteq Ahead /\ Running' \subseteq Running
        /\ Confirmed' \subseteq Confirmed \cup (Ahead \ Ahead')
        /\ \A q \in Procs : Held'[q] \subseteq Held[q]
    BY <1>4, CancelMoves
  <2> QED
    BY <2>1 DEF MovesOnward, OnePlace, Begun
<1>5. CASE ~ MovesMessages
  <2>1. Draining
    BY <1>5, OthersDrain DEF Base
  <2>2. SentOnce'
    BY <2>1 DEF Draining, SentOnce
  <2>3. MovesOnward
    BY <2>1 DEF Draining, MovesOnward, Ahead, Running, Held
  <2> QED
    BY <2>2, <2>3
<1> QED
  BY <1>1, <1>2, <1>3, <1>4, <1>5 DEF MovesMessages

\* A finished message stays finished.
LEMMA FinishedStays ==
  ASSUME Base, SentOnce, OnePlace, HeldByProc, [Next]_vars
  PROVE  Finished \subseteq Finished'
<1> SUFFICES ASSUME NEW u \in Finished PROVE u \in Finished'
  OBVIOUS
<1>1. /\ u \in Uuids /\ pc[u] \notin Unsent /\ u \notin Ahead \cup Begun
      /\ hold[u] \in alive => pc[u] \in {"sent", "failed"}
  BY DEF Finished
<1>2. /\ pc'[u] \notin Unsent
      /\ hold'[u] \in alive' => pc'[u] \in {"sent", "failed"}
  BY <1>1, AllGoOn DEF GoesOn
<1>3. u \notin Ahead' \cup Begun'
  <2>1. CASE MovesOnward
    BY <1>1, <2>1, RendersWhatRuns DEF MovesOnward, Begun
  <2>2. CASE \E v \in Uuids : SendUserMessage(v)
    <3>1. PICK v \in Uuids : SendUserMessage(v)
      BY <2>2
    <3>2. v # u
      BY <1>1, <3>1 DEF SendUserMessage, Goto
    <3> QED
      BY <1>1, <3>1, <3>2, SendMoves
  <2> QED
    BY <2>1, <2>2, MessagesMove
<1> QED
  BY <1>1, <1>2, <1>3 DEF Finished

\* The three parts of the invariant that are about places, step by step.
LEMMA OnePlaceInductive ==
  ASSUME Base, SentOnce, OnePlace, HeldByProc, [Next]_vars
  PROVE  OnePlace'
<1>1. CASE MovesOnward
  <2>1. Ahead' \subseteq Ahead /\ Begun' \subseteq Begun \cup (Ahead \ Ahead')
    BY <1>1, RendersWhatRuns DEF MovesOnward, Begun
  <2>2. Ahead \cup Begun \subseteq Uuids
    BY DEF Ahead, Begun, Running, Rendering, Base, TypeInv, TypeOK
  <2>3. \A u \in Ahead' \cup Begun' : pc'[u] = "sent"
    BY <2>1, <2>2, AllGoOn DEF OnePlace, GoesOn
  <2> QED
    BY <2>1, <2>3, RendersWhatRuns DEF OnePlace
<1>2. CASE \E v \in Uuids : SendUserMessage(v)
  <2>1. PICK v \in Uuids : SendUserMessage(v)
    BY <1>2
  <2>2. Ahead' = Ahead \cup {v} /\ Begun' \subseteq Begun /\ v \notin Ahead \cup Begun
    BY <2>1, SendMoves
  <2>3. Ahead \cup Begun \subseteq Uuids
    BY DEF Ahead, Begun, Running, Rendering, Base, TypeInv, TypeOK
  <2>4. pc'[v] = "sent"
    BY <2>1, AgentsDistinct DEF SendUserMessage, Goto, Base, TypeInv, TypeOK
  <2>5. \A u \in Ahead' \cup Begun' : pc'[u] = "sent"
    BY <2>2, <2>3, <2>4, AllGoOn DEF OnePlace, GoesOn
  <2> QED
    BY <2>2, <2>5, RendersWhatRuns DEF OnePlace
<1> QED
  BY <1>1, <1>2, MessagesMove

\* A process that is gone is not written to, and one that is dead was read.
LEMMA GoneStaysDry ==
  ASSUME Base, HeldByProc, [Next]_vars
  PROVE  /\ \A p \in Procs \ alive' : stdin'[p] = <<>> /\ pending'[p] = {} /\ turn'[p] = {}
         /\ \A p \in dead' : stdout'[p] = <<>>
<1> USE AgentsDistinct DEF Base, TypeInv, TypeOK, HeldByProc, OneCli
<1>1. CASE UNCHANGED cli
  BY <1>1 DEF cli
<1>2. CASE \E ps : Gone(ps)
  BY <1>2 DEF Gone
<1>3. CASE \E p \in alive :
             /\ UNCHANGED <<alive, dead>>
             /\ \A q \in Procs : q # p => /\ stdin'[q] = stdin[q] /\ stdout'[q] = stdout[q]
                                          /\ pending'[q] = pending[q] /\ turn'[q] = turn[q]
  BY <1>3
<1>4. CASE \E p \in Procs : \E ops : Receive(p, ops)
  BY <1>4 DEF Receive
<1>5. CASE \E p \in Procs : ScanEof(p)
  BY <1>5 DEF ScanEof
<1>6. CASE \E u \in Uuids : StartProcess(u)
  BY <1>6 DEF StartProcess
<1>7. CASE \E u \in Uuids : SendBegin(u) \/ SendStep(u) \/ StartFails(u)
  <2>1. PICK u \in Uuids : SendBegin(u) \/ SendStep(u) \/ StartFails(u)
    BY <1>7
  <2>2. CASE SendUserMessage(u)
    BY <1>3, <2>2 DEF SendUserMessage, Write
  <2>3. CASE StartFails(u)
    BY <1>2, <2>3 DEF StartFails, StartFailsKilling
  <2> QED
    BY <1>1, <1>6, <2>1, <2>2, <2>3
    DEF SendBegin, SendStep, EnsureLive, EnsureFails, EnsureStart,
        SetProc, AnnounceStart, AnnounceStartAs, AddQueued, SendFails, SendFailsDropping
<1>8. CASE \E a \in Stops : StopBegin(a) \/ StopStep(a)
  <2>1. CASE \E a \in Stops : StopWrite(a)
    BY <1>3, <2>1 DEF StopWrite, Write
  <2> QED
    BY <1>1, <1>8, <2>1 DEF StopBegin, StopStep, StopReconcile, StopReconcileTo, RequestFails
<1>9. CASE \E c \in Cancels : CancelStep(c) \/ \E u \in Uuids : CancelBegin(c, u)
  <2>1. CASE \E c \in Cancels : CancelWrite(c)
    BY <1>3, <2>1 DEF CancelWrite, Write
  <2> QED
    BY <1>1, <1>9, <2>1 DEF CancelBegin, CancelStep, CancelResolve, RequestFails
<1>10. CASE \E p \in Procs : ScanStep(p) \/ WatchStep(p)
  BY <1>1, <1>4, <1>5, <1>10
  DEF ScanStep, ScanReply, ScanReplyOf, TakeQueued, TakeQueuedFrom, RenderStarted, ScanDropped,
      WatchStep, WatchCheck, WatchClear, WatchEnd
<1>11. CASE \E p \in Procs : CliStep(p) \/ CliRefuse(p) \/ CliExit(p)
  <2>1. PICK p \in Procs : CliStep(p) \/ CliRefuse(p) \/ CliExit(p)
    BY <1>11
  <2>2. CASE CliRead(p)
    <3>1. /\ p \in alive /\ UNCHANGED <<alive, dead>>
          /\ CliUser(p) \/ CliInterrupt(p) \/ CliCancel(p)
          /\ \A q \in Procs : q # p => stdin'[q] = stdin[q]
      BY <2>2 DEF CliRead
    <3>2. \A q \in Procs : q # p => stdout'[q] = stdout[q]
      <4>1. UNCHANGED stdout \/ \E fs : Emit(p, fs)
        <5>1. CASE CliUser(p) \/ CliInterrupt(p)
          BY <5>1 DEF CliUser, CliInterrupt
        <5>2. CASE CliCancel(p)
          BY <5>2 DEF CliCancel
        <5> QED
          BY <3>1, <5>1, <5>2
      <4> QED
        BY <4>1 DEF Emit
    <3>3. \A q \in Procs : q # p => pending'[q] = pending[q] /\ turn'[q] = turn[q]
      BY <3>1 DEF CliUser, CliInterrupt, CliCancel
    <3> QED
      BY <1>3, <3>1, <3>2, <3>3
  <2>3. CASE CliStart(p) \/ CliFinish(p) \/ CliRefuse(p)
    BY <1>3, <2>3 DEF CliStart, CliFinish, CliRefuse, Emit
  <2> QED
    BY <1>2, <2>1, <2>2, <2>3 DEF CliStep, CliExit
<1>12. CASE (\E a \in Agents : Push(a)) \/ Close \/ UNCHANGED vars
  BY <1>1, <1>2, <1>12 DEF Push, PushStart, PushRead, PushAppend, Close, vars
<1> QED
  BY <1>7, <1>8, <1>9, <1>10, <1>11, <1>12 DEF Next

\* While a send starts a process, the one of the session is gone.
LEMMA ProcMoves ==
  ASSUME Base, HeldByProc, [Next]_vars
  PROVE  /\ proc' = proc \/ \E u \in Uuids : Starting(u) /\ proc' = hold[u]
         /\ \A u \in Uuids : Starting(u)' => proc' = NoProc \/ proc' \in dead'
<1> USE AgentsDistinct DEF Base, Starting, Goto
<1>1. CASE Calm
  BY <1>1 DEF Calm, HeldByProc
<1>2. CASE \E u \in Uuids : SendBegin(u) \/ StartFails(u)
  BY <1>2 DEF SendBegin, StartFails, StartFailsKilling, Gone, session, cli, HeldByProc, TypeInv,
              TypeOK
<1>3. CASE \E u \in Uuids : EnsureStart(u)
  BY <1>3 DEF EnsureStart, Live, cli
<1>4. CASE \E u \in Uuids : StartProcess(u)
  <2>1. PICK u \in Uuids : StartProcess(u)
    BY <1>4
  <2>2. /\ proc' = proc /\ dead' = dead /\ pc[u] = "start"
        /\ \A v \in Uuids : v # u => pc'[v] = pc[v]
    BY <2>1 DEF StartProcess, session, TypeInv, TypeOK, StartsSome
  <2> QED
    BY <2>2 DEF HeldByProc
<1>5. CASE \E u \in Uuids : SetProc(u)
  <2>1. PICK u \in Uuids : SetProc(u)
    BY <1>5
  <2>2. /\ pc[u] = "init" /\ proc' = hold[u] /\ pc'[u] = "announce"
        /\ \A v \in Uuids : v # u => pc'[v] = pc[v]
    BY <2>1 DEF SetProc, TypeInv, TypeOK
  <2>3. \A v \in Uuids : ~ Starting(v)'
    BY <2>2 DEF OneCli, OneSend, InSend
  <2> QED
    BY <2>2, <2>3
<1>6. CASE \E p \in Procs : ScanEof(p)
  <2>1. proc' = proc /\ dead \subseteq dead' /\ \A u \in Uuids : pc'[u] = pc[u]
    BY <1>6 DEF ScanEof, session, TypeInv, TypeOK
  <2> QED
    BY <2>1 DEF HeldByProc
<1>7. CASE UNCHANGED vars
  BY <1>7 DEF vars, session, local, cli, HeldByProc
<1> QED
  BY <1>1, <1>2, <1>3, <1>4, <1>5, <1>6, <1>7, SendCalm, OthersCalm DEF Next, SendStep, ScanStep

\* A process that is not running and was read holds no message.
LEMMA DeadHoldsNothing ==
  ASSUME Base, HeldByProc, proc = NoProc \/ proc \in dead
  PROVE  \A p \in Procs : Held[p] = {}
<1> SUFFICES ASSUME NEW p \in Procs, Held[p] # {} PROVE FALSE
  OBVIOUS
<1>1. p = proc /\ p \in dead
  BY ProcsAreNumbers DEF HeldByProc
<1>2. p \notin alive
  BY <1>1 DEF Base, OneCli
<1>3. stdin[p] = <<>> /\ stdout[p] = <<>> /\ pending[p] = {} /\ turn[p] = {}
  BY <1>1, <1>2 DEF HeldByProc
<1>4. SentTo[p] = {} /\ StartedBy[p] = {}
  BY <1>3 DEF SentTo, StartedBy
<1> QED
  BY <1>3, <1>4 DEF Held

\* Only the process of the session holds messages, after any step.
LEMMA HeldByProcInductive ==
  ASSUME Base, SentOnce, OnePlace, HeldByProc, [Next]_vars
  PROVE  HeldByProc'
<1>1. \A p \in Procs : Held'[p] # {} => p = proc'
  <2>1. CASE \E u \in Uuids : SendUserMessage(u)
    <3>1. PICK u \in Uuids : SendUserMessage(u)
      BY <2>1
    <3>2. pc[u] = "send" /\ hold[u] \in alive /\ proc' = proc
      BY <3>1 DEF SendUserMessage, Goto, session
    <3>3. hold[u] = proc
      BY <3>2 DEF Base, OneCli, AliveHasAnOwner, OneSend, InSend
    <3> QED
      BY <3>1, <3>2, <3>3, SendMoves DEF HeldByProc
  <2>2. CASE MovesOnward
    <3>1. CASE proc' = proc
      BY <2>2, <3>1 DEF MovesOnward, HeldByProc
    <3>2. CASE \E u \in Uuids : Starting(u)
      <4>1. \A p \in Procs : Held[p] = {}
        BY <3>2, DeadHoldsNothing DEF HeldByProc
      <4> QED
        BY <2>2, <4>1 DEF MovesOnward
    <3> QED
      BY <3>1, <3>2, ProcMoves
  <2> QED
    BY <2>1, <2>2, MessagesMove
<1> QED
  BY <1>1, GoneStaysDry, ProcMoves DEF HeldByProc

-----------------------------------------------------------------------------
(* Cancels.                                                                *)

\* An entry whose process is gone will not be started.
LEMMA DroppedIsFinished ==
  ASSUME Base, OnePlace, HeldByProc, ~ Live(proc), NEW u \in queue
  PROVE  u \in Finished
<1>1. u \in Uuids /\ pc[u] \notin Unsent /\ u \notin Rendering \cup shown
  BY DEF Base, FateInv, RegisteredOnce, OnePlace, TypeInv, TypeOK
<1>2. \A p \in Procs : Held[p] = {}
  BY DeadHoldsNothing DEF Live
<1>3. u \notin Ahead \cup Begun
  BY <1>1, <1>2 DEF Ahead, Begun, Running, Held
<1>4. proc \notin alive
  BY ProcsAreNumbers DEF Live, Base, OneCli, TypeInv, TypeOK
<1>5. hold[u] \in alive => pc[u] \in {"sent", "failed"}
  BY <1>1, <1>4 DEF Base, OneCli, AliveHasAnOwner, OneSend, InSend, Unsent
<1> QED
  BY <1>1, <1>3, <1>5 DEF Finished

\* Where a step takes a cancel.
LEMMA CancelsMove ==
  ASSUME Base, [Next]_vars, NEW c \in Cancels, pc[c] \in CancelPcs
  PROVE  \/ pc'[c] = pc[c] /\ arg'[c] = arg[c]
         \/ pc'[c] \in After /\ arg'[c] = {}
         \/ /\ pc[c] \in {"replied", "drop"} /\ pc'[c] \in After
            /\ arg'[c] = arg[c] /\ queue' \cap arg[c] = {}
         \/ pc[c] \in After /\ pc'[c] \in After /\ arg'[c] = arg[c]
         \/ pc'[c] = "replied" /\ arg'[c] \subseteq Confirmed
         \/ pc'[c] \in {"write", "await"}
         \/ pc'[c] = "drop" /\ ~ Live(proc) /\ arg'[c] \subseteq queue
<1> USE AgentsDistinct DEF Base, TypeInv, TypeOK, Goto, session, local
<1>1. CASE UNCHANGED vars
  BY <1>1 DEF vars
<1>2. CASE \E u \in Uuids : SendBegin(u) \/ SendStep(u) \/ StartFails(u)
  <2>1. pc'[c] = pc[c] /\ arg'[c] = arg[c]
    BY <1>2, ConstantsAssumption
    DEF SendBegin, SendStep, StartFails, StartFailsKilling, EnsureLive, EnsureFails, EnsureStart,
        StartProcess, SetProc, AnnounceStart, AnnounceStartAs, AddQueued, SendUserMessage,
        SendFails, SendFailsDropping, StartsSome
  <2> QED
    BY <2>1
<1>3. CASE \E a \in Stops : StopBegin(a) \/ StopStep(a)
  <2>1. pc'[c] = pc[c] /\ arg'[c] = arg[c]
    BY <1>3, ConstantsAssumption
    DEF StopBegin, StopStep, StopWrite, StopReconcile, StopReconcileTo, RequestFails
  <2> QED
    BY <2>1
<1>4. CASE \E d \in Cancels : CancelStep(d) \/ \E u \in Uuids : CancelBegin(d, u)
  <2>1. PICK d \in Cancels : CancelStep(d) \/ \E u \in Uuids : CancelBegin(d, u)
    BY <1>4
  <2>2. CASE d # c
    <3>1. pc'[c] = pc[c] /\ arg'[c] = arg[c]
      BY <2>1, <2>2
      DEF CancelStep, CancelBegin, CancelWrite, CancelResolve, RequestFails
    <3> QED
      BY <3>1
  <2>3. CASE d = c
    BY <2>1, <2>3
    DEF CancelStep, CancelBegin, CancelWrite, CancelResolve, RequestFails, After
  <2> QED
    BY <2>2, <2>3
<1>5. CASE \E p \in Procs : ScanStep(p)
  <2>1. PICK p \in Procs : ScanStep(p)
    BY <1>5
  <2>2. CASE ScanReply(p)
    <3>1. Head(stdout[p]).op = "reply" /\ Receive(p, {"reply"})
      BY <2>2 DEF ScanReply, ScanReplyOf, Receive
    <3>2. Head(stdout[p]).id = c => Head(stdout[p]).of \subseteq Confirmed
      BY <3>1, StdoutRead
    <3> QED
      BY <2>2, <3>2 DEF ScanReply, ScanReplyOf
  <2>3. CASE TakeQueued(p) \/ RenderStarted(p) \/ ScanDropped(p) \/ ScanEof(p)
    BY <2>3 DEF TakeQueued, TakeQueuedFrom, RenderStarted, ScanDropped, ScanEof
  <2> QED
    BY <2>1, <2>2, <2>3 DEF ScanStep
<1>6. CASE \E p \in Procs : WatchStep(p) \/ CliStep(p) \/ CliRefuse(p) \/ CliExit(p)
  <2>1. pc'[c] = pc[c] /\ arg'[c] = arg[c]
    BY <1>6 DEF WatchStep, WatchCheck, WatchClear, WatchEnd, CliStep, CliRead, CliStart, CliFinish,
                CliRefuse, CliExit
  <2> QED
    BY <2>1
<1>7. CASE \E a \in Agents : Push(a)
  <2>1. PICK a \in Agents : Push(a)
    BY <1>7
  <2>2. arg' = arg /\ (a # c => pc'[c] = pc[c])
    BY <2>1 DEF Push, PushStart, PushRead, PushAppend
  <2>3. a = c => pc[c] \in After /\ pc'[c] \in After
    BY <2>1 DEF Push, PushStart, PushRead, PushAppend, AfterPush, After, CancelPcs
  <2> QED
    BY <2>2, <2>3
<1>8. CASE Close
  BY <1>8 DEF Close
<1> QED
  BY <1>1, <1>2, <1>3, <1>4, <1>5, <1>6, <1>7, <1>8 DEF Next

\* No message that was registered comes back to the queue.
LEMMA QueueTakesNew ==
  ASSUME Base, [Next]_vars
  PROVE  \A u \in queue' \ queue : u \in Uuids /\ pc[u] \in Unsent
<1>1. CASE Aside \/ \E p \in Procs : RenderStarted(p) \/ TakeQueued(p)
  BY <1>1 DEF Aside, RenderStarted, TakeQueued, TakeQueuedFrom
<1>2. CASE \E u \in Uuids : AddQueued(u)
  BY <1>2 DEF AddQueued, Goto, Unsent
<1> QED
  BY <1>1, <1>2, SendAside, RequestAside, ScanAside, RestAside
  DEF Next, SendStep, ScanStep, Base

\* What a cancel was told has left stays away.
LEMMA CancelsHoldInductive ==
  ASSUME Base, CancelInv, [Next]_vars
  PROVE  CancelsHold'
<1> USE DEF CancelInv
<1>1. Finished \subseteq Finished'
  BY FinishedStays
<1>2. Confirmed' \subseteq Finished'
  <2>1. CASE \E u \in Uuids : SendUserMessage(u)
    BY <1>1, <2>1, SendMoves DEF CancelsHold
  <2>2. CASE MovesOnward
    <3> SUFFICES ASSUME NEW u \in (Ahead \ Ahead') \ Running' PROVE u \in Finished'
      BY <1>1, <2>2 DEF MovesOnward, CancelsHold
    <3>1. u \in Uuids /\ pc[u] = "sent" /\ u \notin Rendering \cup shown \cup Running
      BY DEF OnePlace, Ahead, Begun
    <3>2. pc'[u] = "sent"
      BY <3>1, AllGoOn DEF GoesOn
    <3>3. u \notin Begun'
      BY <3>1, RendersWhatRuns DEF Begun
    <3> QED
      BY <3>1, <3>2, <3>3 DEF Finished, Unsent
  <2> QED
    BY <2>1, <2>2, MessagesMove
<1>3. ASSUME NEW c \in Cancels, pc[c] \in After
      PROVE  arg[c] \cap queue' = {}
  BY <1>3, QueueTakesNew DEF CancelsHold, Finished
<1>4. ASSUME NEW c \in Cancels
      PROVE  /\ pc'[c] \in CancelPcs
             /\ pc'[c] \in {"replied", "drop"} \cup After => arg'[c] \subseteq Finished'
             /\ pc'[c] \in After => arg'[c] \cap queue' = {}
  <2>1. CASE (pc'[c] = pc[c]) /\ (arg'[c] = arg[c])
    BY <1>1, <1>3, <2>1 DEF CancelsHold
  <2>2. CASE (pc'[c] = "drop") /\ ~ Live(proc) /\ (arg'[c] \subseteq queue)
    BY <1>1, <2>2, DroppedIsFinished DEF CancelPcs, After
  <2>3. CASE pc'[c] \in {"write", "await"} \/ (pc'[c] \in After /\ arg'[c] = {})
    BY <2>3 DEF CancelPcs, After
  <2>4. CASE pc'[c] = "replied" /\ arg'[c] \subseteq Confirmed
    BY <1>1, <2>4 DEF CancelPcs, After, CancelsHold
  <2>5. CASE /\ pc[c] \in {"replied", "drop"} \cup After /\ pc'[c] \in After
             /\ arg'[c] = arg[c]
             /\ pc[c] \in After \/ queue' \cap arg[c] = {}
    BY <1>1, <1>3, <2>5 DEF CancelPcs, CancelsHold
  <2> QED
    BY <2>1, <2>2, <2>3, <2>4, <2>5, CancelsMove DEF CancelsHold
<1> QED
  BY <1>2, <1>4 DEF CancelsHold

-----------------------------------------------------------------------------
\* No message is anywhere at first.
LEMMA InitCancels == Init => CancelInv
<1> SUFFICES ASSUME Init PROVE CancelInv
  OBVIOUS
<1>1. /\ \A a \in Handlers : pc[a] = "idle"
      /\ \A p \in Procs : pc[Scanner(p)] = "off"
      /\ \A p \in Procs : /\ stdin[p] = <<>> /\ stdout[p] = <<>>
                          /\ pending[p] = {} /\ turn[p] = {}
      /\ queue = {} /\ shown = {} /\ dead = {} /\ alive = {} /\ proc = NoProc
  BY AgentsDistinct DEF Init
<1>2. /\ \A p \in Procs : SentTo[p] = {} /\ StartedBy[p] = {}
      /\ Rendering = {} /\ WrittenOnce /\ Confirmed = {}
  BY <1>1 DEF SentTo, StartedBy, Rendering, WrittenOnce, Confirmed
<1>3. Ahead = {} /\ Begun = {} /\ \A p \in Procs : Held[p] = {}
  BY <1>1, <1>2 DEF Ahead, Begun, Running, Held
<1>4. \A c \in Cancels : pc[c] = "idle"
  BY <1>1, AgentsDistinct
<1>5. \A u \in Uuids : ~ Starting(u)
  BY <1>1, AgentsDistinct DEF Starting
<1> QED
  BY <1>1, <1>2, <1>3, <1>4, <1>5
  DEF CancelInv, SentOnce, OnePlace, HeldByProc, CancelsHold, CancelPcs, After

\* handleCancelQueue: as long as sends do not overlap, an entry whose cancel
\* claude confirmed, or whose process was gone, is never started, shown or
\* queued again, however stops, deaths, lost answers and the close interleave.
THEOREM CancelsAreFinal ==
  ASSUME "overlap" \notin Faults
  PROVE  Spec => []CancelledIsFinal
<1>1. Base /\ CancelInv /\ [Next]_vars => CancelInv'
  BY MessagesMove, OnePlaceInductive, HeldByProcInductive, CancelsHoldInductive DEF CancelInv
<1>2. Base /\ CancelInv => CancelledIsFinal
  <2> SUFFICES ASSUME Base, CancelInv, NEW c \in Cancels, pc[c] \in After
               PROVE  arg[c] \cap (queue \cup shown \cup UNION {turn[p] : p \in alive}) = {}
    BY DEF CancelledIsFinal, After
  <2>1. arg[c] \subseteq Finished /\ arg[c] \cap queue = {}
    BY DEF CancelInv, CancelsHold
  <2>2. alive \subseteq Procs
    BY DEF Base, TypeInv, TypeOK
  <2>3. \A p \in alive : turn[p] \cap Finished = {}
    BY <2>2 DEF Finished, Begun, Running
  <2>4. shown \cap Finished = {}
    BY DEF Finished, Begun
  <2> QED
    BY <2>1, <2>3, <2>4
<1>3. Spec => []Base
  BY TypeInvariant, OneCliInvariant, FateInvariant, PTL DEF Base
<1> QED
  BY <1>1, <1>2, <1>3, InitCancels, PTL DEF Spec
-----------------------------------------------------------------------------
(***************************************************************************)
(* The mirror: the queue bar shows claude's queue, the clients know whether *)
(* the session's process runs, and no bubble is lost but to a stop that    *)
(* overlapped the send, as long as sends do not overlap and no process     *)
(* comes up before the watcher of the last one ran.                        *)
(***************************************************************************)

-----------------------------------------------------------------------------
(* Processes, their goroutines and their pipes.                            *)

\* The watcher of a process looks after the session's process; the one of a
\* process that has one, except while its send is about to start it.
WatchersRight ==
  /\ \A p \in Procs : pc[Watcher(p)] \in WatchPcs
  /\ \A p \in Procs : pc[Watcher(p)] \notin {"off", "done"} => p = proc
  /\ \A p \in Procs : pc[Watcher(p)] \notin {"off", "wait"} => p \in dead
  /\ \A p \in Procs : p > spawned => pc[Watcher(p)] = "off"
  /\ \A u \in Uuids : pc[u] \in {"start", "init", "announce"} =>
       pc[Watcher(hold[u])] = "off"
  /\ \A u \in Uuids : pc[u] = "announce" => hold[u] = proc
  /\ proc # NoProc /\ pc[Watcher(proc)] = "off" => \E u \in Uuids : pc[u] = "announce"

\* What the clients were told last.
ToldRight ==
  ~ closed /\ proc # NoProc /\ pc[Watcher(proc)] # "off" =>
    announced = IF pc[Watcher(proc)] = "done" THEN "ended" ELSE "started"

\* A process that was started keeps its scanner, which closes Dead.
ScannersRight ==
  /\ proc # NoProc => pc[Scanner(proc)] # "off"
  /\ \A a \in Requests : hold[a] # NoProc => pc[Scanner(hold[a])] # "off"
  /\ \A u \in Uuids : pc[u] = "init" => pc[Scanner(hold[u])] # "off"
  /\ \A p \in Procs : pc[Scanner(p)] = "eof" => p \in dead

\* Only the process of the session is written to, and writes.
PipesOfProc ==
  /\ \A a \in Requests : hold[a] \in alive => hold[a] = proc
  /\ \A p \in Procs : p # proc => stdin[p] = <<>> /\ stdout[p] = <<>>

-----------------------------------------------------------------------------
(* Frames in the pipes.                                                    *)

Carried(s) == {s[i] : i \in 1 .. Len(s)}
In == UNION {Carried(stdin[p]) : p \in Procs}
Out == UNION {Carried(stdout[p]) : p \in Procs}

\* No frame of the first component comes before one of the second.
Avoids(s, bad) == \A i, j \in 1 .. Len(s) : i < j => <<s[i], s[j]>> \notin bad

\* A message that is started twice; one that a stop was written after, and
\* that comes after the stop; and one that was neither waiting when claude
\* answered the stop nor started by then.
Twice == {x \in Frames \X Frames :
            x[1].op = "started" /\ x[2].op = "started" /\ x[1].id = x[2].id}
Overtaken == {x \in Frames \X Frames :
            /\ x[1].op = "interrupt" /\ x[2].op = "user"
            /\ x[2].id \in sentBefore[x[1].id]}
Revived == {x \in Frames \X Frames :
            /\ x[1].op = "reply" /\ x[1].id \in Stops /\ x[2].op = "started"
            /\ x[2].id \in sentBefore[x[1].id] \ x[1].of}

PipesInOrder ==
  \A p \in Procs : /\ Avoids(stdin[p], Overtaken)
                   /\ Avoids(stdout[p], Twice)
                   /\ Avoids(stdout[p], Revived)

\* A stop is written once, and what it knows was sent before.
StopsAskOnce ==
  /\ \A a \in Stops : sentBefore[a] \subseteq {u \in Uuids : pc[u] = "sent"}
  /\ \A f \in In : f.op = "interrupt" => pc[f.id] \notin {"idle", "write"}
  /\ \A f \in Out : f.op = "reply" /\ f.id \in Stops => pc[f.id] \notin {"idle", "write"}

\* A message that claude has, or that is about to be written to it.
Started == UNION {StartedBy[p] : p \in Procs}
Owed == Ahead \cup Started \cup
        {u \in Uuids : pc[u] \notin Unsent \cup {"sent", "failed"} /\ hold[u] \in alive}

\* What an answer to a stop leaves out has been started, or will not be.
AnswersRight ==
  /\ \A f \in Out : f.op = "reply" /\ f.id \in Stops =>
       (sentBefore[f.id] \ f.of) \cap Ahead = {}
  /\ \A a \in Stops : pc[a] = "replied" => (sentBefore[a] \ arg[a]) \cap Owed = {}

\* A message claude says it dropped is finished.
Dropped == {u \in Uuids : \E f \in Out : f.op \in {"cancelled", "refused"} /\ f.id = u}
DropsFinal == Dropped \subseteq Finished

StopInv == PipesInOrder /\ StopsAskOnce /\ AnswersRight /\ DropsFinal

\* What claude has is in the queue, but for the overlapping stop.
EntriesKept == Owed \subseteq queue \cup exposed

-----------------------------------------------------------------------------
(* Entries and rows.                                                       *)

\* A cancel is about one message; a sender that failed holds its own.
CancelsOne ==
  /\ \A c \in Cancels : pc[c] = "write" => \E u \in Uuids : arg[c] = {u}
  /\ \A f \in In : f.op = "cancel" => \E u \in Uuids : f.of = {u}
FailuresMarked ==
  \A u \in Uuids : arg[u] # {} => pc[u] \in {"failPush", "push", "failed"}

\* The handler of the message is about to write it.
Writing == {u \in Uuids : \/ pc[u] \in {"addPush", "send"}
                          \/ pc[u] = "push" /\ arg[u] = {}}
\* The watcher of the session's process is about to clear the queue.
Clearing == /\ proc # NoProc /\ proc \notin alive
            /\ pc[Watcher(proc)] \in {"off", "wait", "clear"}

EntriesWait == Clearing \/ queue \subseteq Writing \cup Ahead \cup Started \cup Dropped

\* Whoever removes an entry pushes the bar.
BarFollows ==
  \/ closed
  \/ bar \subseteq queue \cup late
  \/ \E a \in Agents : pc[a] \in {"failPush", "stopPush", "cancelPush", "render",
                                  "scanPush", "endPush", "push"}

MirrorInv ==
  /\ WatchersRight /\ ToldRight /\ ScannersRight /\ PipesOfProc
  /\ StopInv /\ EntriesKept
  /\ BubbleLostOnlyToOverlappingStop
  /\ CancelsOne /\ FailuresMarked /\ EntriesWait /\ BarFollows
-----------------------------------------------------------------------------
(* Watchers.                                                               *)

Choosing == {"start", "init", "announce"}
Reporting == {"clear", "endPush", "push", "end"}

\* A step after which the session has the process it had, and its watcher has
\* as much to say, or has cleared the queue.
WatchersStay ==
  /\ UNCHANGED <<proc, spawned, announced>>
  /\ dead \subseteq dead' /\ (closed => closed')
  /\ \A p \in Procs : \/ pc'[Watcher(p)] = pc[Watcher(p)]
                      \/ /\ pc[Watcher(p)] \in Reporting /\ pc'[Watcher(p)] \in Reporting
                         /\ pc[Watcher(p)] = "clear" => queue' = {}
  /\ \A u \in Uuids : pc'[u] \in Choosing => pc[u] \in Choosing /\ hold'[u] = hold[u]
  /\ \A u \in Uuids : pc'[u] = "announce" <=> pc[u] = "announce"

\* It keeps what watchers are for.
LEMMA StayKeepsWatchers ==
  ASSUME TypeInv, WatchersRight, ToldRight, WatchersStay
  PROVE  WatchersRight' /\ ToldRight'
<1> USE DEF WatchersStay
<1>1. /\ \A p \in Procs : pc'[Watcher(p)] \in WatchPcs
      /\ \A p \in Procs : pc'[Watcher(p)] \notin {"off", "done"} => p = proc'
      /\ \A p \in Procs : pc'[Watcher(p)] \notin {"off", "wait"} => p \in dead'
      /\ \A p \in Procs : p > spawned' => pc'[Watcher(p)] = "off"
  BY DEF WatchersRight, WatchPcs, Reporting
<1>2. \A p \in Procs : pc'[Watcher(p)] = "off" <=> pc[Watcher(p)] = "off"
  BY DEF Reporting
<1>3. \A p \in Procs : pc'[Watcher(p)] = "done" <=> pc[Watcher(p)] = "done"
  BY DEF Reporting
<1>4. proc \in Procs \cup {NoProc}
  BY DEF TypeInv, TypeOK
<1>5. ASSUME NEW u \in Uuids, pc'[u] \in Choosing
      PROVE  pc'[Watcher(hold'[u])] = "off"
  <2>1. pc[u] \in Choosing /\ hold'[u] = hold[u] /\ hold[u] \in Procs
    BY <1>5 DEF TypeInv, StartsSome, Choosing
  <2> QED
    BY <1>2, <2>1 DEF WatchersRight, Choosing
<1>6. \A u \in Uuids : pc'[u] = "announce" => hold'[u] = proc'
  BY DEF WatchersRight, Choosing
<1>7. proc' # NoProc /\ pc'[Watcher(proc')] = "off" => \E u \in Uuids : pc'[u] = "announce"
  BY <1>2, <1>4 DEF WatchersRight
<1>8. WatchersRight'
  BY <1>1, <1>5, <1>6, <1>7 DEF WatchersRight, Choosing
<1>9. ToldRight'
  BY <1>2, <1>3, <1>4 DEF ToldRight
<1> QED
  BY <1>8, <1>9

\* Such are the steps of a send but for three.
LEMMA SendWatchersStay ==
  ASSUME TypeInv, NEW u \in Uuids,
         \/ SendBegin(u) \/ EnsureLive(u) \/ EnsureFails(u) \/ StartProcess(u)
         \/ StartFails(u) \/ AddQueued(u) \/ SendUserMessage(u) \/ SendFails(u)
  PROVE  WatchersStay
<1> USE AgentsDistinct DEF WatchersStay, Choosing, Goto, session, local, cli, TypeInv, TypeOK
<1>1. CASE SendBegin(u) \/ EnsureLive(u) \/ EnsureFails(u) \/ AddQueued(u)
  BY <1>1 DEF SendBegin, EnsureLive, EnsureFails, AddQueued
<1>2. CASE StartProcess(u)
  <2>1. /\ \A p \in Procs : pc'[Watcher(p)] = pc[Watcher(p)]
        /\ \A v \in Uuids : pc'[v] = IF v = u THEN "init" ELSE pc[v]
    BY <1>2 DEF StartProcess, StartsSome
  <2> QED
    BY <1>2, <2>1 DEF StartProcess
<1>3. CASE StartFails(u)
  BY <1>3 DEF StartFails, StartFailsKilling, Gone, Release
<1>4. CASE SendUserMessage(u) \/ SendFails(u)
  BY <1>4 DEF SendUserMessage, SendFails, SendFailsDropping, Release
<1> QED
  BY <1>1, <1>2, <1>3, <1>4

\* Such are the steps of everyone else but for two of the watchers'.
LEMMA OthersWatchersStay ==
  ASSUME TypeInv, WatchersRight,
         \/ \E a \in Stops : StopBegin(a) \/ StopStep(a)
         \/ \E c \in Cancels : CancelStep(c) \/ \E u \in Uuids : CancelBegin(c, u)
         \/ \E p \in Procs : ScanStep(p) \/ WatchClear(p) \/ CliStep(p) \/ CliRefuse(p)
                             \/ CliExit(p)
         \/ \E a \in Agents : Push(a)
         \/ Close
         \/ UNCHANGED vars
  PROVE  WatchersStay
<1> USE AgentsDistinct DEF Goto, session, local, cli, TypeInv, TypeOK
<1>1. ASSUME /\ UNCHANGED <<proc, spawned, announced>>
             /\ dead \subseteq dead' /\ (closed => closed')
             /\ \A p \in Procs : pc'[Watcher(p)] = pc[Watcher(p)]
             /\ \A u \in Uuids : pc'[u] = pc[u] /\ hold'[u] = hold[u]
      PROVE  WatchersStay
  BY <1>1 DEF WatchersStay
<1>2. CASE \E a \in Stops : StopBegin(a) \/ StopStep(a)
  BY <1>1, <1>2 DEF StopBegin, StopStep, StopWrite, StopReconcile, StopReconcileTo,
                    RequestFails, Release
<1>3. CASE \E c \in Cancels : CancelStep(c) \/ \E u \in Uuids : CancelBegin(c, u)
  BY <1>1, <1>3 DEF CancelBegin, CancelStep, CancelWrite, CancelResolve, RequestFails, Release
<1>4. CASE \E p \in Procs : ScanReply(p)
  <2>1. PICK p \in Procs : ScanReply(p)
    BY <1>4
  <2> DEFINE id == Head(stdout[p]).id
  <2>2. id \in Requests
    BY <2>1, FrameTypes DEF ScanReply, ScanReplyOf, Receive
  <2>3. /\ UNCHANGED <<proc, spawned, announced, closed, hold, dead>>
        /\ pc' = pc \/ pc' = [pc EXCEPT ![id] = "replied"]
    BY <2>1 DEF ScanReply, ScanReplyOf, Receive
  <2> HIDE DEF id
  <2> QED
    BY <1>1, <2>2, <2>3
<1>5. CASE \E p \in Procs : TakeQueued(p) \/ RenderStarted(p) \/ ScanDropped(p) \/ ScanEof(p)
  BY <1>1, <1>5 DEF TakeQueued, TakeQueuedFrom, RenderStarted, ScanDropped, ScanEof, Receive
<1>6. CASE \E p \in Procs : WatchClear(p)
  BY <1>6 DEF WatchClear, WatchersStay, Reporting
<1>7. CASE \E p \in Procs : CliStep(p) \/ CliRefuse(p) \/ CliExit(p)
  BY <1>1, <1>7 DEF CliStep, CliRead, CliStart, CliFinish, CliRefuse, CliExit, Gone
<1>8. CASE \E a \in Agents : Push(a)
  <2>1. PICK a \in Agents : Push(a)
    BY <1>8
  <2>2. /\ UNCHANGED <<proc, spawned, announced, closed, hold, dead>>
        /\ \A b \in Agents : b # a => pc'[b] = pc[b]
    BY <2>1 DEF Push, PushStart, PushRead, PushAppend
  <2>3. pc[a] \notin Choosing /\ pc'[a] \notin Choosing
    BY <2>1 DEF Push, PushStart, PushRead, PushAppend, AfterPush, Choosing
  <2>4. ASSUME NEW p \in Procs, a = Watcher(p)
        PROVE  /\ pc[Watcher(p)] \in Reporting \ {"clear"}
               /\ pc'[Watcher(p)] \in Reporting
    <3>1. pc[a] \in WatchPcs /\ AfterPush(a) = "end"
      BY <2>4 DEF AfterPush, Watcher, WatchersRight
    <3> QED
      BY <2>1, <2>4, <3>1 DEF Push, PushStart, PushRead, PushAppend, WatchPcs, Reporting
  <2> QED
    BY <2>2, <2>3, <2>4 DEF WatchersStay, Choosing
<1>9. CASE Close
  BY <1>1, <1>9 DEF Close, Gone
<1>10. CASE UNCHANGED vars
  BY <1>1, <1>10 DEF vars
<1> QED
  BY <1>2, <1>3, <1>4, <1>5, <1>6, <1>7, <1>8, <1>9, <1>10 DEF ScanStep

\* EnsureProcess chooses a process that has no watcher yet.
LEMMA EnsureStartKeepsWatchers ==
  ASSUME TypeInv, WatchersRight, ToldRight, NEW u \in Uuids, EnsureStart(u)
  PROVE  WatchersRight' /\ ToldRight'
<1> USE AgentsDistinct, ProcsAreNumbers
<1>1. /\ spawned' = spawned + 1 /\ spawned + 1 \in Procs
      /\ hold' = [hold EXCEPT ![u] = spawned + 1]
      /\ pc' = [pc EXCEPT ![u] = "start"] /\ pc[u] = "ensure"
      /\ UNCHANGED <<proc, announced, closed, dead>>
  BY DEF EnsureStart, Goto, cli, TypeInv, TypeOK, Procs
<1>2. /\ \A p \in Procs : pc'[Watcher(p)] = pc[Watcher(p)]
      /\ \A v \in Uuids : v # u => pc'[v] = pc[v] /\ hold'[v] = hold[v]
      /\ pc'[u] = "start" /\ hold'[u] = spawned + 1
      /\ spawned \in Nat /\ proc \in Procs \cup {NoProc}
  BY <1>1 DEF TypeInv, TypeOK
<1>3. pc[Watcher(spawned + 1)] = "off"
  BY <1>1, <1>2 DEF WatchersRight
<1>4. \A v \in Uuids : v # u /\ pc[v] \in Choosing => hold[v] \in Procs
  BY DEF TypeInv, StartsSome, Choosing
<1>5. \A v \in Uuids : pc'[v] \in Choosing => pc'[Watcher(hold'[v])] = "off"
  BY <1>1, <1>2, <1>3, <1>4 DEF WatchersRight, Choosing
<1>6. \A p \in Procs : p > spawned' => pc'[Watcher(p)] = "off"
  <2>1. \A p \in Procs : p > spawned + 1 => p > spawned
    BY <1>2
  <2> QED
    BY <1>1, <1>2, <2>1 DEF WatchersRight
<1>7. proc' # NoProc /\ pc'[Watcher(proc')] = "off" => \E v \in Uuids : pc'[v] = "announce"
  BY <1>1, <1>2 DEF WatchersRight
<1>8. WatchersRight'
  BY <1>1, <1>2, <1>5, <1>6, <1>7 DEF WatchersRight, Choosing
<1>9. ToldRight'
  BY <1>1, <1>2 DEF ToldRight
<1> QED
  BY <1>8, <1>9

\* A new process becomes the session's after the watcher of the last one.
LEMMA SetProcKeepsWatchers ==
  ASSUME Base, HeldByProc, "lateWatcher" \notin Faults, WatchersRight, ToldRight,
         NEW u \in Uuids, SetProc(u)
  PROVE  /\ WatchersRight' /\ ToldRight'
         /\ proc # NoProc => pc[Watcher(proc)] = "done"
<1> USE AgentsDistinct, ProcsAreNumbers
<1>1. /\ pc[u] = "init" /\ pc' = [pc EXCEPT ![u] = "announce"] /\ proc' = hold[u]
      /\ UNCHANGED <<spawned, announced, closed, hold, dead>>
      /\ \A p \in dead : pc[Watcher(p)] \in {"off", "done"}
  BY DEF SetProc, Goto, cli
<1>2. /\ \A p \in Procs : pc'[Watcher(p)] = pc[Watcher(p)]
      /\ \A v \in Uuids : v # u => pc'[v] = pc[v]
      /\ pc'[u] = "announce"
      /\ proc \in Procs \cup {NoProc} /\ hold[u] \in Procs
  BY <1>1 DEF Base, TypeInv, TypeOK, StartsSome
<1>3. \A v \in Uuids : v # u => pc[v] \in {"idle", "sent", "failed"}
  BY <1>1 DEF Base, OneCli, OneSend, InSend
<1>4. ~ \E v \in Uuids : pc[v] = "announce"
  BY <1>1, <1>3
<1>5. proc # NoProc => pc[Watcher(proc)] = "done"
  BY <1>1, <1>2, <1>4 DEF HeldByProc, Starting, WatchersRight
<1>6. pc[Watcher(hold[u])] = "off"
  BY <1>1 DEF WatchersRight
<1>7. \A p \in Procs : pc[Watcher(p)] \in {"off", "done"}
  BY <1>2, <1>5 DEF WatchersRight
<1>8. WatchersRight'
  BY <1>1, <1>2, <1>3, <1>6, <1>7 DEF WatchersRight
<1>9. ToldRight'
  BY <1>1, <1>2, <1>6 DEF ToldRight
<1> QED
  BY <1>5, <1>8, <1>9

\* The clients are told that it started, and its watcher starts.
LEMMA AnnounceKeepsWatchers ==
  ASSUME Base, WatchersRight, ToldRight, NEW u \in Uuids, AnnounceStart(u)
  PROVE  WatchersRight' /\ ToldRight'
<1> USE AgentsDistinct, ProcsAreNumbers
<1>1. /\ pc[u] = "announce" /\ pc' = [pc EXCEPT ![u] = "add", ![Watcher(hold[u])] = "wait"]
      /\ announced' = IF closed THEN announced ELSE "started"
      /\ UNCHANGED <<proc, spawned, closed, hold, dead>>
  BY DEF AnnounceStart, AnnounceStartAs, cli
<1>2. hold[u] = proc /\ proc \in Procs /\ proc <= spawned
  BY <1>1 DEF WatchersRight, Base, TypeInv, StartsSome, OneCli
<1>3. /\ \A p \in Procs : pc'[Watcher(p)] = IF p = proc THEN "wait" ELSE pc[Watcher(p)]
      /\ \A v \in Uuids : v # u => pc'[v] = pc[v]
      /\ pc'[u] = "add"
  <2>1. \A p, q \in Procs : Watcher(p) = Watcher(q) => p = q
    BY DEF Watcher
  <2> QED
    BY <1>1, <1>2, <2>1 DEF Base, TypeInv, TypeOK
<1>4. \A v \in Uuids : v # u => pc[v] \in {"idle", "sent", "failed"}
  BY <1>1 DEF Base, OneCli, OneSend, InSend
<1>5. spawned \in Nat /\ \A p \in Procs : p > spawned => p # proc
  BY <1>2 DEF Base, TypeInv, TypeOK
<1> HIDE AgentsDistinct, ProcsAreNumbers
<1>6. \A v \in Uuids : pc'[v] \notin {"start", "init", "announce"}
  BY <1>3, <1>4
<1>7. pc'[Watcher(proc')] = "wait"
  BY <1>1, <1>2, <1>3
<1>8. /\ \A p \in Procs : pc'[Watcher(p)] \in WatchPcs
      /\ \A p \in Procs : pc'[Watcher(p)] \notin {"off", "done"} => p = proc'
      /\ \A p \in Procs : pc'[Watcher(p)] \notin {"off", "wait"} => p \in dead'
      /\ \A p \in Procs : p > spawned' => pc'[Watcher(p)] = "off"
  <2>1. proc' = proc /\ spawned' = spawned /\ dead' = dead
    BY <1>1
  <2> QED
    BY <1>3, <1>5, <2>1 DEF WatchersRight, WatchPcs
<1>9. WatchersRight'
  BY <1>6, <1>7, <1>8 DEF WatchersRight
<1>10. ~ closed' => announced' = "started"
  <2>1. closed \in BOOLEAN /\ closed' = closed
    BY <1>1 DEF Base, TypeInv, TypeOK
  <2> QED
    BY <1>1, <2>1
<1>11. ToldRight'
  BY <1>7, <1>10 DEF ToldRight
<1> QED
  BY <1>9, <1>11

\* The watcher finds the process dead, and tells the clients at its end.
LEMMA WatchKeepsWatchers ==
  ASSUME Base, WatchersRight, ToldRight, NEW p \in Procs, WatchCheck(p) \/ WatchEnd(p)
  PROVE  /\ WatchersRight' /\ ToldRight'
         /\ proc = p
<1> USE AgentsDistinct, ProcsAreNumbers
<1>1. /\ pc[Watcher(p)] \in {"wait", "end"} /\ p = proc
      /\ UNCHANGED <<proc, spawned, closed, hold, dead>>
      /\ \/ /\ pc' = [pc EXCEPT ![Watcher(p)] = "clear"] /\ p \in dead
            /\ announced' = announced /\ pc[Watcher(p)] = "wait"
         \/ /\ pc' = [pc EXCEPT ![Watcher(p)] = "done"] /\ pc[Watcher(p)] = "end"
            /\ announced' = IF closed THEN announced ELSE "ended"
  BY DEF WatchCheck, WatchEnd, Goto, session, cli, WatchersRight
<1>2. /\ \A q \in Procs : q # p => pc'[Watcher(q)] = pc[Watcher(q)]
      /\ \A v \in Uuids : pc'[v] = pc[v]
      /\ pc'[Watcher(p)] \in {"clear", "done"} /\ p \in dead
  <2>1. \A q \in Procs : Watcher(p) = Watcher(q) => p = q
    BY DEF Watcher
  <2> QED
    BY <1>1, <2>1 DEF WatchersRight, Base, TypeInv, TypeOK
<1>3. \A v \in Uuids : pc[v] \in Choosing => hold[v] \in Procs /\ hold[v] # p
  <2>1. pc[Watcher(p)] # "off"
    BY <1>1
  <2> QED
    BY <2>1 DEF WatchersRight, Base, TypeInv, StartsSome, Choosing
<1>4. p <= spawned /\ spawned \in Nat
  BY <1>1 DEF Base, OneCli, TypeInv, TypeOK
<1>5. \A q \in Procs : q > spawned => q # p
  BY <1>4
<1>6. WatchersRight'
  BY <1>1, <1>2, <1>3, <1>5 DEF WatchersRight, WatchPcs, Choosing
<1>7. ToldRight'
  BY <1>1, <1>2 DEF ToldRight, Base, TypeInv, TypeOK
<1> QED
  BY <1>1, <1>6, <1>7

\* So every step keeps them.
LEMMA WatchersInductive ==
  ASSUME Base, HeldByProc, "lateWatcher" \notin Faults, WatchersRight, ToldRight, [Next]_vars
  PROVE  WatchersRight' /\ ToldRight'
<1> USE DEF Base
<1>1. CASE \E u \in Uuids : EnsureStart(u) \/ SetProc(u) \/ AnnounceStart(u)
  BY <1>1, EnsureStartKeepsWatchers, SetProcKeepsWatchers, AnnounceKeepsWatchers
<1>2. CASE \E p \in Procs : WatchCheck(p) \/ WatchEnd(p)
  BY <1>2, WatchKeepsWatchers
<1>3. CASE WatchersStay
  BY <1>3, StayKeepsWatchers
<1> QED
  BY <1>1, <1>2, <1>3, SendWatchersStay, OthersWatchersStay DEF Next, SendStep, WatchStep

-----------------------------------------------------------------------------
(* What a step does to the pipes.                                          *)

\* A queue of frames grows at its end.
LEMMA CarriedGrows ==
  ASSUME NEW S, NEW s \in Seq(S), NEW t \in Seq(S), NEW bad
  PROVE  /\ Carried(s \o t) = Carried(s) \cup Carried(t)
         /\ Avoids(s, bad) /\ Avoids(t, bad) /\ (\A f \in Carried(s), g \in Carried(t) : <<f, g>> \notin bad)
              => Avoids(s \o t, bad)
<1> DEFINE m == Len(s)
           n == Len(t)
           st == s \o t
<1>1. /\ m \in Nat /\ n \in Nat /\ Len(st) = m + n
      /\ \A i \in 1 .. m : st[i] = s[i]
      /\ \A i \in 1 .. m + n : i > m => st[i] = t[i - m]
      /\ \A i \in 1 .. n : st[m + i] = t[i]
  OBVIOUS
<1> HIDE DEF m, n, st
<1>2. Carried(s) = {s[i] : i \in 1 .. m} /\ Carried(t) = {t[i] : i \in 1 .. n}
  BY DEF Carried, m, n
<1>3. Carried(st) = {st[i] : i \in 1 .. m + n}
  BY <1>1 DEF Carried
<1>4. \A i \in 1 .. m + n : \/ i \in 1 .. m /\ st[i] = s[i]
                            \/ i > m /\ i - m \in 1 .. n /\ st[i] = t[i - m]
  BY <1>1
<1>5. Carried(st) \subseteq Carried(s) \cup Carried(t)
  BY <1>2, <1>3, <1>4
<1>6. Carried(s) \subseteq Carried(st)
  <2>1. \A i \in 1 .. m : i \in 1 .. m + n
    BY <1>1
  <2> QED
    BY <1>1, <1>2, <1>3, <2>1
<1>7. Carried(t) \subseteq Carried(st)
  <2>1. \A i \in 1 .. n : m + i \in 1 .. m + n
    BY <1>1
  <2> QED
    BY <1>1, <1>2, <1>3, <2>1
<1>8. ASSUME Avoids(s, bad), Avoids(t, bad),
             \A f \in Carried(s), g \in Carried(t) : <<f, g>> \notin bad
      PROVE  Avoids(st, bad)
  <2> SUFFICES ASSUME NEW i \in 1 .. m + n, NEW j \in 1 .. m + n, i < j
               PROVE  <<st[i], st[j]>> \notin bad
    BY <1>1 DEF Avoids
  <2>1. CASE i \in 1 .. m /\ j \in 1 .. m
    BY <1>1, <1>8, <2>1 DEF Avoids, m
  <2>2. CASE i > m /\ j > m
    <3>1. i - m \in 1 .. n /\ j - m \in 1 .. n /\ i - m < j - m
      BY <1>1, <2>2
    <3>2. st[i] = t[i - m] /\ st[j] = t[j - m]
      BY <1>1, <2>2
    <3>3. \A k, l \in 1 .. n : k < l => <<t[k], t[l]>> \notin bad
      BY <1>8 DEF Avoids, n
    <3>4. <<t[i - m], t[j - m]>> \notin bad
      BY <3>1, <3>3
    <3> QED
      BY <1>1, <3>2, <3>4
  <2>3. CASE i \in 1 .. m /\ j > m
    <3>1. i \in 1 .. m /\ st[i] = s[i] /\ j - m \in 1 .. n /\ st[j] = t[j - m]
      BY <1>1, <2>3
    <3>2. st[i] \in Carried(s) /\ st[j] \in Carried(t)
      BY <1>2, <3>1
    <3> QED
      BY <1>8, <3>2
  <2> QED
    BY <1>1, <2>1, <2>2, <2>3
<1> QED
  BY <1>5, <1>6, <1>7, <1>8 DEF st

\* It shrinks at its head.
LEMMA CarriedShrinks ==
  ASSUME NEW S, NEW s \in Seq(S), s # <<>>, NEW bad
  PROVE  /\ Carried(s) = {Head(s)} \cup Carried(Tail(s)) /\ Head(s) \in S
         /\ Avoids(s, bad) => /\ Avoids(Tail(s), bad)
                              /\ \A g \in Carried(Tail(s)) : <<Head(s), g>> \notin bad
<1> DEFINE n == Len(s)
           t == Tail(s)
<1>1. /\ n \in Nat \ {0} /\ Len(t) = n - 1 /\ t \in Seq(S)
      /\ \A i \in 1 .. n - 1 : t[i] = s[i + 1] /\ i + 1 \in 1 .. n
      /\ Head(s) = s[1] /\ 1 \in 1 .. n /\ Head(s) \in S
  OBVIOUS
<1> HIDE DEF n, t
<1>2. Carried(s) = {s[i] : i \in 1 .. n} /\ Carried(t) = {t[i] : i \in 1 .. n - 1}
  BY <1>1 DEF Carried, n
<1>3. {Head(s)} \cup Carried(t) \subseteq Carried(s)
  BY <1>1, <1>2
<1>4. Carried(s) \subseteq {Head(s)} \cup Carried(t)
  <2>1. \A i \in 1 .. n : i = 1 \/ (i - 1 \in 1 .. n - 1 /\ t[i - 1] = s[i])
    <3> SUFFICES ASSUME NEW i \in 1 .. n, i # 1
                 PROVE  i - 1 \in 1 .. n - 1 /\ t[i - 1] = s[i]
      OBVIOUS
    <3>1. i - 1 \in 1 .. n - 1 /\ (i - 1) + 1 = i
      BY <1>1
    <3>2. t[i - 1] = s[(i - 1) + 1]
      BY <1>1, <3>1
    <3> QED
      BY <1>1, <3>1, <3>2
  <2>2. ASSUME NEW i \in 1 .. n
        PROVE  s[i] \in {Head(s)} \cup Carried(t)
    <3>1. CASE i = 1
      BY <1>1, <3>1
    <3>2. CASE i - 1 \in 1 .. n - 1 /\ t[i - 1] = s[i]
      BY <1>2, <3>2
    <3> QED
      BY <2>1, <3>1, <3>2
  <2> QED
    BY <1>2, <2>2
<1>5. ASSUME Avoids(s, bad)
      PROVE  Avoids(t, bad) /\ \A g \in Carried(t) : <<Head(s), g>> \notin bad
  <2>1. ASSUME NEW i \in 1 .. n - 1, NEW j \in 1 .. n - 1, i < j
        PROVE  <<t[i], t[j]>> \notin bad
    <3>1. i + 1 \in 1 .. n /\ j + 1 \in 1 .. n /\ i + 1 < j + 1
      BY <1>1, <2>1
    <3> QED
      BY <1>1, <1>5, <3>1 DEF Avoids, n
  <2>2. ASSUME NEW j \in 1 .. n - 1
        PROVE  <<Head(s), t[j]>> \notin bad
    <3>1. j + 1 \in 1 .. n /\ 1 < j + 1
      BY <1>1
    <3> QED
      BY <1>1, <1>5, <3>1 DEF Avoids, n
  <2> QED
    BY <1>1, <1>2, <2>1, <2>2 DEF Avoids
<1> QED
  BY <1>1, <1>3, <1>4, <1>5 DEF t

\* What is on the pipes.
LEMMA PipesCarry ==
  ASSUME TypeInv
  PROVE  /\ In \subseteq Frames /\ Out \subseteq Frames
         /\ Ahead = {u \in Uuids : \/ \E f \in In : f.op = "user" /\ f.id = u
                                   \/ \E p \in Procs : u \in pending[p]}
         /\ Started = {u \in Uuids : \E f \in Out : f.op = "started" /\ f.id = u}
         /\ \A p \in Procs : stdin[p] = <<>> => Carried(stdin[p]) = {}
         /\ \A p \in Procs : stdout[p] = <<>> => Carried(stdout[p]) = {}
<1>1. \A p \in Procs : stdin[p] \in Seq(Frames) /\ stdout[p] \in Seq(Frames)
  BY DEF TypeInv, TypeOK
<1>2. \A p \in Procs : Carried(stdin[p]) \subseteq Frames /\ Carried(stdout[p]) \subseteq Frames
  BY <1>1 DEF Carried
<1>3. In \subseteq Frames /\ Out \subseteq Frames
  BY <1>2 DEF In, Out
<1>4. \A p \in Procs : SentTo[p] = {u \in Uuids : \E f \in Carried(stdin[p]) :
                                                    f.op = "user" /\ f.id = u}
  BY DEF SentTo, Carried
<1>5. \A p \in Procs : StartedBy[p] = {u \in Uuids : \E f \in Carried(stdout[p]) :
                                                       f.op = "started" /\ f.id = u}
  BY DEF StartedBy, Carried
<1>6. Ahead = {u \in Uuids : \/ \E f \in In : f.op = "user" /\ f.id = u
                             \/ \E p \in Procs : u \in pending[p]}
  BY <1>4 DEF Ahead, In
<1>7. Started = {u \in Uuids : \E f \in Out : f.op = "started" /\ f.id = u}
  BY <1>5 DEF Started, Out
<1>8. /\ \A p \in Procs : stdin[p] = <<>> => Carried(stdin[p]) = {}
      /\ \A p \in Procs : stdout[p] = <<>> => Carried(stdout[p]) = {}
  BY DEF Carried
<1> QED
  BY <1>3, <1>6, <1>7, <1>8

\* A frame is written to stdin.
LEMMA InWritten ==
  ASSUME TypeInv, NEW p \in Procs, NEW f \in Frames, Write(p, f)
  PROVE  /\ In' = In \cup {f}
         /\ Carried(stdin'[p]) = Carried(stdin[p]) \cup {f}
         /\ \A q \in Procs : q # p => stdin'[q] = stdin[q]
         /\ \A bad : /\ Avoids(stdin[p], bad)
                     /\ \A g \in Carried(stdin[p]) : <<g, f>> \notin bad
                     => Avoids(stdin'[p], bad)
<1>1. stdin[p] \in Seq(Frames) /\ stdin \in [Procs -> Seq(Frames)]
  BY DEF TypeInv, TypeOK
<1>2. /\ stdin'[p] = stdin[p] \o <<f>> /\ <<f>> \in Seq(Frames)
      /\ \A q \in Procs : q # p => stdin'[q] = stdin[q]
  BY <1>1 DEF Write
<1>3. Carried(<<f>>) = {f} /\ \A bad : Avoids(<<f>>, bad)
  BY DEF Carried, Avoids
<1>4. Carried(stdin'[p]) = Carried(stdin[p]) \cup {f}
  BY <1>1, <1>2, <1>3, CarriedGrows
<1>5. In' = In \cup {f}
  BY <1>2, <1>4 DEF In
<1>6. ASSUME NEW bad, Avoids(stdin[p], bad), \A g \in Carried(stdin[p]) : <<g, f>> \notin bad
      PROVE  Avoids(stdin'[p], bad)
  BY <1>1, <1>2, <1>3, <1>6, CarriedGrows
<1> QED
  BY <1>2, <1>4, <1>5, <1>6

\* The CLI reads one.
LEMMA InRead ==
  ASSUME TypeInv, NEW p \in Procs, CliRead(p)
  PROVE  /\ In' \subseteq In /\ Head(stdin[p]) \in In /\ Head(stdin[p]) \in Frames
         /\ In \subseteq In' \cup {Head(stdin[p])}
         /\ stdin[p] # <<>>
         /\ \A q \in Procs : q # p => stdin'[q] = stdin[q]
         /\ \A bad : Avoids(stdin[p], bad) =>
              /\ Avoids(stdin'[p], bad)
              /\ \A g \in Carried(stdin'[p]) : <<Head(stdin[p]), g>> \notin bad
<1>1. stdin[p] \in Seq(Frames) /\ stdin \in [Procs -> Seq(Frames)]
  BY DEF TypeInv, TypeOK
<1>2. /\ stdin[p] # <<>> /\ stdin'[p] = Tail(stdin[p])
      /\ \A q \in Procs : q # p => stdin'[q] = stdin[q]
  BY <1>1 DEF CliRead
<1>3. Carried(stdin[p]) = {Head(stdin[p])} \cup Carried(stdin'[p])
  BY <1>1, <1>2, CarriedShrinks
<1>4. /\ In' \subseteq In /\ Head(stdin[p]) \in In
      /\ In \subseteq In' \cup {Head(stdin[p])}
  BY <1>2, <1>3 DEF In
<1>5. ASSUME NEW bad, Avoids(stdin[p], bad)
      PROVE  /\ Avoids(stdin'[p], bad)
             /\ \A g \in Carried(stdin'[p]) : <<Head(stdin[p]), g>> \notin bad
  BY <1>1, <1>2, <1>5, CarriedShrinks
<1>6. Head(stdin[p]) \in Frames
  BY <1>1, <1>2
<1> QED
  BY <1>2, <1>4, <1>5, <1>6

\* The CLI writes some.
LEMMA OutWritten ==
  ASSUME TypeInv, NEW p \in Procs, NEW fs \in Seq(Frames), Emit(p, fs)
  PROVE  /\ Out' = Out \cup Carried(fs)
         /\ \A q \in Procs : q # p => stdout'[q] = stdout[q]
         /\ \A bad : /\ Avoids(stdout[p], bad) /\ Avoids(fs, bad)
                     /\ \A f \in Carried(stdout[p]), g \in Carried(fs) : <<f, g>> \notin bad
                     => Avoids(stdout'[p], bad)
<1>1. stdout[p] \in Seq(Frames) /\ stdout \in [Procs -> Seq(Frames)]
  BY DEF TypeInv, TypeOK
<1>2. /\ stdout'[p] = stdout[p] \o fs
      /\ \A q \in Procs : q # p => stdout'[q] = stdout[q]
  BY <1>1 DEF Emit
<1>3. Carried(stdout'[p]) = Carried(stdout[p]) \cup Carried(fs)
  BY <1>1, <1>2, CarriedGrows
<1>4. Out' = Out \cup Carried(fs)
  BY <1>2, <1>3 DEF Out
<1>5. ASSUME NEW bad, Avoids(stdout[p], bad), Avoids(fs, bad),
             \A f \in Carried(stdout[p]), g \in Carried(fs) : <<f, g>> \notin bad
      PROVE  Avoids(stdout'[p], bad)
  BY <1>1, <1>2, <1>5, CarriedGrows
<1> QED
  BY <1>2, <1>4, <1>5

\* The scan goroutine reads one.
LEMMA OutRead ==
  ASSUME TypeInv, NEW p \in Procs, NEW ops, Receive(p, ops)
  PROVE  /\ Out' \subseteq Out /\ Out \subseteq Out' \cup {Head(stdout[p])}
         /\ Head(stdout[p]) \in Out /\ Head(stdout[p]) \in Frames
         /\ Head(stdout[p]).op \in ops /\ stdout[p] # <<>>
         /\ \A q \in Procs : q # p => stdout'[q] = stdout[q]
         /\ \A bad : Avoids(stdout[p], bad) =>
              /\ Avoids(stdout'[p], bad)
              /\ \A g \in Carried(stdout'[p]) : <<Head(stdout[p]), g>> \notin bad
<1>1. stdout[p] \in Seq(Frames) /\ stdout \in [Procs -> Seq(Frames)]
  BY DEF TypeInv, TypeOK
<1>2. /\ stdout[p] # <<>> /\ stdout'[p] = Tail(stdout[p]) /\ Head(stdout[p]).op \in ops
      /\ \A q \in Procs : q # p => stdout'[q] = stdout[q]
  BY <1>1 DEF Receive
<1>3. Carried(stdout[p]) = {Head(stdout[p])} \cup Carried(stdout'[p])
  BY <1>1, <1>2, CarriedShrinks
<1>4. /\ Out' \subseteq Out /\ Head(stdout[p]) \in Out
      /\ Out \subseteq Out' \cup {Head(stdout[p])}
  BY <1>2, <1>3 DEF Out
<1>5. ASSUME NEW bad, Avoids(stdout[p], bad)
      PROVE  /\ Avoids(stdout'[p], bad)
             /\ \A g \in Carried(stdout'[p]) : <<Head(stdout[p]), g>> \notin bad
  BY <1>1, <1>2, <1>5, CarriedShrinks
<1>6. Head(stdout[p]) \in Frames
  BY <1>1, <1>2
<1> QED
  BY <1>2, <1>4, <1>5, <1>6

\* The steps that write to a pipe or read from one; in all others the pipes
\* stay, or a process loses what it had.
Idle == UNCHANGED <<stdin, stdout, pending>> \/ \E ps : Gone(ps)
Reads == \E p \in Procs : /\ ScanReply(p) \/ TakeQueued(p) \/ ScanDropped(p)
                          /\ \E ops : Receive(p, ops)
Writes == \/ \E u \in Uuids : SendUserMessage(u)
          \/ \E a \in Stops : StopWrite(a)
          \/ \E c \in Cancels : CancelWrite(c)
Works == \E p \in Procs : CliRead(p) \/ CliStart(p) \/ CliRefuse(p)

\* Every step is one of these.
LEMMA Traffic ==
  ASSUME [Next]_vars
  PROVE  Idle \/ Reads \/ Writes \/ Works
<1> USE DEF cli, Idle
<1>1. CASE UNCHANGED vars
  BY <1>1 DEF vars
<1>2. CASE \E u \in Uuids : SendBegin(u) \/ SendStep(u) \/ StartFails(u)
  BY <1>2
  DEF Writes, SendBegin, SendStep, StartFails, StartFailsKilling, EnsureLive, EnsureFails,
      EnsureStart, StartProcess, SetProc, AnnounceStart, AnnounceStartAs, AddQueued, SendFails,
      SendFailsDropping
<1>3. CASE \E a \in Stops : StopBegin(a) \/ StopStep(a)
  BY <1>3 DEF Writes, StopBegin, StopStep, StopReconcile, StopReconcileTo, RequestFails
<1>4. CASE \E c \in Cancels : CancelStep(c) \/ \E u \in Uuids : CancelBegin(c, u)
  BY <1>4 DEF Writes, CancelBegin, CancelStep, CancelResolve, RequestFails
<1>5. CASE \E p \in Procs : ScanStep(p) \/ WatchStep(p)
  BY <1>5
  DEF Reads, ScanStep, ScanReply, ScanReplyOf, TakeQueued, TakeQueuedFrom, RenderStarted,
      ScanDropped, ScanEof, WatchStep, WatchCheck, WatchClear, WatchEnd
<1>6. CASE \E p \in Procs : CliStep(p) \/ CliRefuse(p) \/ CliExit(p)
  BY <1>6 DEF Works, CliStep, CliFinish, CliExit
<1>7. CASE (\E a \in Agents : Push(a)) \/ Close
  BY <1>7 DEF Push, PushStart, PushRead, PushAppend, Close
<1> QED
  BY <1>1, <1>2, <1>3, <1>4, <1>5, <1>6, <1>7 DEF Next

\* The idle steps.
LEMMA IdlePipes ==
  ASSUME TypeInv, Idle
  PROVE  /\ In' \subseteq In /\ Out' = Out /\ UNCHANGED stdout
         /\ \A p \in Procs : stdin'[p] = stdin[p] \/ stdin'[p] = <<>>
         /\ \A p \in Procs : pending'[p] \subseteq pending[p]
<1>1. /\ UNCHANGED stdout
      /\ \A p \in Procs : stdin'[p] = stdin[p] \/ stdin'[p] = <<>>
      /\ \A p \in Procs : pending'[p] \subseteq pending[p]
  BY DEF Idle, Gone, TypeInv, TypeOK
<1>2. Out' = Out
  BY <1>1 DEF Out
<1>3. \A p \in Procs : Carried(stdin'[p]) \subseteq Carried(stdin[p])
  BY <1>1 DEF Carried
<1>4. In' \subseteq In
  BY <1>3 DEF In
<1> QED
  BY <1>1, <1>2, <1>4

\* The answer to a cancel: what was waiting is dropped.
LEMMA CancelAnswers ==
  ASSUME TypeInv, NEW p \in Procs, CliRead(p), CliCancel(p)
  PROVE  \E fs \in Seq(Frames) : \E removed \in SUBSET pending[p] :
           /\ Emit(p, fs)
           /\ \A f \in Carried(fs) : \/ f.op = "reply" /\ f.id \in Cancels
                                     \/ f.op = "cancelled" /\ f.id \in removed
           /\ (\E v \in Uuids : Head(stdin[p]).of = {v}) =>
                \A u \in removed : \E f \in Carried(fs) : f.op = "cancelled" /\ f.id = u
           /\ pending' = [pending EXCEPT ![p] = @ \ removed]
<1> DEFINE h == Head(stdin[p])
           removed == h.of \cap pending[p]
           reply == Frame("reply", h.id, removed)
           notice(u) == Frame("cancelled", u, {})
<1>1. /\ h.op = "cancel" /\ h \in Frames /\ removed \in SUBSET pending[p]
      /\ pending' = [pending EXCEPT ![p] = @ \ removed]
  BY InRead DEF CliCancel
<1>2. h.id \in Cancels /\ removed \in SUBSET Uuids
  BY <1>1, FrameTypes DEF TypeInv, TypeOK
<1>3. /\ reply \in Frames /\ reply.op = "reply" /\ reply.id \in Cancels
      /\ \A u \in removed : /\ notice(u) \in Frames
                            /\ notice(u).op = "cancelled" /\ notice(u).id = u
  BY <1>2, FrameTypes, AgentsDistinct DEF Frame
<1>4. IF removed = {} THEN Emit(p, <<reply>>)
      ELSE \E u \in removed : \/ Emit(p, <<notice(u)>> \o <<reply>>)
                              \/ Emit(p, <<reply>> \o <<notice(u)>>)
  BY DEF CliCancel
<1>5. (\E v \in Uuids : h.of = {v}) => \A u, v \in removed : u = v
  OBVIOUS
<1> HIDE DEF h, removed, reply, notice
<1>6. CASE removed = {}
  <2>1. <<reply>> \in Seq(Frames) /\ Carried(<<reply>>) = {reply} /\ Emit(p, <<reply>>)
    BY <1>3, <1>4, <1>6 DEF Carried
  <2> QED
    BY <1>1, <1>3, <1>6, <2>1
<1>7. CASE removed # {}
  <2>1. PICK u \in removed : \/ Emit(p, <<notice(u)>> \o <<reply>>)
                             \/ Emit(p, <<reply>> \o <<notice(u)>>)
    BY <1>4, <1>7
  <2> DEFINE n == notice(u)
  <2>2. n \in Frames /\ n.op = "cancelled" /\ n.id = u
    BY <1>3
  <2>3. Emit(p, <<n>> \o <<reply>>) \/ Emit(p, <<reply>> \o <<n>>)
    BY <2>1
  <2> HIDE DEF n
  <2>4. /\ <<n>> \in Seq(Frames) /\ <<reply>> \in Seq(Frames)
        /\ Carried(<<n>>) = {n} /\ Carried(<<reply>>) = {reply}
    BY <1>3, <2>2 DEF Carried
  <2>5. /\ <<n>> \o <<reply>> \in Seq(Frames) /\ <<reply>> \o <<n>> \in Seq(Frames)
        /\ Carried(<<n>> \o <<reply>>) = {n, reply}
        /\ Carried(<<reply>> \o <<n>>) = {n, reply}
    <3>1. \A s, t \in Seq(Frames) : Carried(s \o t) = Carried(s) \cup Carried(t)
      BY CarriedGrows
    <3>2. ASSUME NEW s \in Seq(Frames), NEW t \in Seq(Frames)
          PROVE  s \o t \in Seq(Frames)
      OBVIOUS
    <3> DEFINE x == <<n>>
               y == <<reply>>
    <3>3. x \in Seq(Frames) /\ y \in Seq(Frames) /\ Carried(x) = {n} /\ Carried(y) = {reply}
      BY <2>4
    <3> HIDE DEF x, y
    <3>4. /\ x \o y \in Seq(Frames) /\ y \o x \in Seq(Frames)
          /\ Carried(x \o y) = {n, reply} /\ Carried(y \o x) = {n, reply}
      BY <3>1, <3>2, <3>3
    <3> QED
      BY <3>4 DEF x, y
  <2>6. PICK fs \in Seq(Frames) : Emit(p, fs) /\ Carried(fs) = {n, reply}
    BY <2>3, <2>5
  <2>7. \A f \in Carried(fs) : \/ f.op = "reply" /\ f.id \in Cancels
                               \/ f.op = "cancelled" /\ f.id \in removed
    BY <1>3, <2>2, <2>6
  <2>8. (\E v \in Uuids : h.of = {v}) =>
          \A v \in removed : \E f \in Carried(fs) : f.op = "cancelled" /\ f.id = v
    BY <1>5, <2>2, <2>6
  <2> QED
    BY <1>1, <2>6, <2>7, <2>8 DEF h
<1> QED
  BY <1>6, <1>7

\* The only frame of a sequence.
Alone(f, fs) == Carried(fs) = {f} /\ \A bad : Avoids(fs, bad)

\* What the CLI writes when it works: a message it starts or drops was waiting,
\* and an answer to a stop carries all that is.
LEMMA WorkWrites ==
  ASSUME TypeInv, NEW p \in Procs, CliRead(p) \/ CliStart(p) \/ CliRefuse(p)
  PROVE  \E fs \in Seq(Frames) :
           /\ Emit(p, fs) /\ (\A bad : Carried(fs) = {} => Avoids(fs, bad))
           /\ \A f \in Carried(fs) :
                \/ f.op = "started" /\ CliStart(p) /\ Alone(f, fs) /\ f.id \in pending[p]
                   /\ pending' = [pending EXCEPT ![p] = @ \ {f.id}]
                \/ f.op \in {"cancelled", "refused"} /\ f.id \in pending[p]
                   /\ (CliCancel(p) \/ CliRefuse(p)) /\ f.id \notin pending'[p]
                \/ f.op = "reply" /\ f.id \in Cancels
                \/ f.op = "reply" /\ f.id \in Stops /\ CliRead(p) /\ CliInterrupt(p)
                   /\ Alone(f, fs) /\ f.id = Head(stdin[p]).id /\ f.of = pending[p]
<1> DEFINE Right(fs) ==
             \A f \in Carried(fs) :
                \/ f.op = "started" /\ CliStart(p) /\ Alone(f, fs) /\ f.id \in pending[p]
                   /\ pending' = [pending EXCEPT ![p] = @ \ {f.id}]
                \/ f.op \in {"cancelled", "refused"} /\ f.id \in pending[p]
                   /\ (CliCancel(p) \/ CliRefuse(p)) /\ f.id \notin pending'[p]
                \/ f.op = "reply" /\ f.id \in Cancels
                \/ f.op = "reply" /\ f.id \in Stops /\ CliRead(p) /\ CliInterrupt(p)
                   /\ Alone(f, fs) /\ f.id = Head(stdin[p]).id /\ f.of = pending[p]
<1>1. \A fs \in Seq(Frames) : \A bad : Carried(fs) = {} => Avoids(fs, bad)
  BY DEF Carried, Avoids
<1>2. \A f \in Frames : <<f>> \in Seq(Frames) /\ Carried(<<f>>) = {f} /\ Alone(f, <<f>>)
  BY DEF Carried, Avoids, Alone
<1>3. stdout \in [Procs -> Seq(Frames)] /\ pending \in [Procs -> SUBSET Uuids]
  BY DEF TypeInv, TypeOK
<1> SUFFICES \E fs \in Seq(Frames) : Emit(p, fs) /\ Right(fs)
  BY <1>1
<1>4. CASE CliRead(p) /\ CliUser(p)
  <2>1. UNCHANGED stdout /\ <<>> \in Seq(Frames) /\ Carried(<<>>) = {}
    BY <1>4 DEF CliUser, Carried
  <2>2. stdout[p] \o <<>> = stdout[p]
    BY <1>3
  <2>3. Emit(p, <<>>)
    BY <1>3, <2>1, <2>2 DEF Emit
  <2> QED
    BY <2>1, <2>3
<1>5. CASE CliRead(p) /\ CliInterrupt(p)
  <2> DEFINE f == Frame("reply", Head(stdin[p]).id, pending[p])
  <2>1. Emit(p, <<f>>) /\ Head(stdin[p]).op = "interrupt"
    BY <1>5 DEF CliInterrupt
  <2>2. Head(stdin[p]).id \in Stops
    BY <1>5, <2>1, InRead, FrameTypes
  <2>3. /\ f \in Frames /\ f.op = "reply" /\ f.id = Head(stdin[p]).id
        /\ f.of = pending[p]
    BY <1>3, <2>2, FrameTypes, AgentsDistinct DEF Frame
  <2> HIDE DEF f
  <2>4. Right(<<f>>)
    BY <1>2, <1>5, <2>2, <2>3
  <2> QED
    BY <1>2, <2>1, <2>3, <2>4
<1>6. CASE CliRead(p) /\ CliCancel(p)
  <2>1. PICK fs \in Seq(Frames) : \E removed \in SUBSET pending[p] :
           /\ Emit(p, fs)
           /\ \A f \in Carried(fs) : \/ f.op = "reply" /\ f.id \in Cancels
                                     \/ f.op = "cancelled" /\ f.id \in removed
           /\ pending' = [pending EXCEPT ![p] = @ \ removed]
    BY <1>6, CancelAnswers
  <2>2. PICK removed \in SUBSET pending[p] :
           /\ \A f \in Carried(fs) : \/ f.op = "reply" /\ f.id \in Cancels
                                     \/ f.op = "cancelled" /\ f.id \in removed
           /\ pending' = [pending EXCEPT ![p] = @ \ removed]
    BY <2>1
  <2>3. pending'[p] = pending[p] \ removed
    BY <1>3, <2>2
  <2>4. Right(fs)
    BY <1>6, <2>2, <2>3
  <2> HIDE DEF Right
  <2> QED
    BY <2>1, <2>4
<1>7. CASE CliStart(p) \/ CliRefuse(p)
  <2>1. PICK u \in pending[p], op \in {"started", "refused"} :
          /\ Emit(p, <<Frame(op, u, {})>>)
          /\ pending' = [pending EXCEPT ![p] = @ \ {u}]
          /\ op = "started" => CliStart(p)
          /\ op = "refused" => CliRefuse(p)
    BY <1>7 DEF CliStart, CliRefuse
  <2> DEFINE f == Frame(op, u, {})
  <2>2. f \in Frames /\ f.op = op /\ f.id = u
    BY <1>3, FrameTypes DEF Frame
  <2>3. Emit(p, <<f>>)
    BY <2>1
  <2> HIDE DEF f
  <2>4. u \notin pending'[p]
    BY <1>3, <2>1
  <2>5. Carried(<<f>>) = {f} /\ <<f>> \in Seq(Frames) /\ Alone(f, <<f>>)
    BY <1>2, <2>2
  <2>6. Right(<<f>>)
    BY <2>1, <2>2, <2>4, <2>5
  <2> HIDE DEF Right
  <2> QED
    BY <2>3, <2>5, <2>6
<1> QED
  BY <1>4, <1>5, <1>6, <1>7 DEF CliRead

-----------------------------------------------------------------------------
(* Scanners and the process of the session.                                *)

\* A step forgets no scanner and no death, and a handler works with the
\* process it had or takes the session's.
ProcessesLast ==
  /\ dead \subseteq dead'
  /\ \A p \in Procs : pc[Scanner(p)] # "off" => pc'[Scanner(p)] # "off"
  /\ \A p \in Procs : pc'[Scanner(p)] = "eof" => pc[Scanner(p)] = "eof" \/ p \in dead'
  /\ \A a \in Requests : hold'[a] = hold[a] \/ (hold'[a] \in {NoProc, proc} /\ proc' = proc)
  /\ \A u \in Uuids : pc'[u] = "init" => \/ pc[u] = "init" /\ hold'[u] = hold[u]
                                         \/ StartProcess(u)
  /\ proc' = proc \/ \E u \in Uuids : SetProc(u)
  /\ alive' \subseteq alive \/ \E u \in Uuids : StartProcess(u)

\* Every step is such: first those of a send.
LEMMA SendLasts ==
  ASSUME TypeInv, NEW u \in Uuids, SendBegin(u) \/ SendStep(u) \/ StartFails(u)
  PROVE  ProcessesLast
<1> USE AgentsDistinct DEF ProcessesLast, Goto, session, local, cli, TypeInv, TypeOK
<1>1. CASE \/ SendBegin(u) \/ EnsureLive(u) \/ EnsureFails(u) \/ EnsureStart(u)
           \/ SetProc(u) \/ AddQueued(u)
  BY <1>1 DEF SendBegin, EnsureLive, EnsureFails, EnsureStart, SetProc, AddQueued
<1>2. CASE StartProcess(u)
  <2>1. /\ \A p \in Procs : pc'[Scanner(p)] = pc[Scanner(p)] \/ pc'[Scanner(p)] = "read"
        /\ \A v \in Uuids : v # u => pc'[v] = pc[v]
    BY <1>2 DEF StartProcess, StartsSome
  <2>2. hold' = hold /\ dead' = dead /\ proc' = proc
    BY <1>2 DEF StartProcess
  <2> QED
    BY <1>2, <2>1, <2>2
<1>3. CASE StartFails(u)
  BY <1>3 DEF StartFails, StartFailsKilling, Gone, Release
<1>4. CASE AnnounceStart(u)
  <2>1. /\ \A p \in Procs : pc'[Scanner(p)] = pc[Scanner(p)]
        /\ \A v \in Uuids : pc'[v] = IF v = u THEN "add" ELSE pc[v]
    BY <1>4, ConstantsAssumption
    DEF AnnounceStart, AnnounceStartAs, StartsSome, Handlers, Scanner, Watcher
  <2> QED
    BY <1>4, <2>1 DEF AnnounceStart, AnnounceStartAs
<1>5. CASE SendUserMessage(u) \/ SendFails(u)
  BY <1>5 DEF SendUserMessage, SendFails, SendFailsDropping, Release
<1> QED
  BY <1>1, <1>2, <1>3, <1>4, <1>5 DEF SendStep

\* Then those of everyone else.
LEMMA OthersLast ==
  ASSUME TypeInv,
         \/ \E a \in Stops : StopBegin(a) \/ StopStep(a)
         \/ \E c \in Cancels : CancelStep(c) \/ \E u \in Uuids : CancelBegin(c, u)
         \/ \E p \in Procs : ScanStep(p) \/ WatchStep(p) \/ CliStep(p) \/ CliRefuse(p)
                             \/ CliExit(p)
         \/ \E a \in Agents : Push(a)
         \/ Close
         \/ UNCHANGED vars
  PROVE  ProcessesLast
<1> USE AgentsDistinct DEF Goto, session, local, cli, TypeInv, TypeOK
<1>1. ASSUME /\ dead' = dead /\ proc' = proc /\ alive' \subseteq alive
             /\ \A p \in Procs : pc'[Scanner(p)] = pc[Scanner(p)]
             /\ \A u \in Uuids : pc'[u] = pc[u] /\ hold'[u] = hold[u]
             /\ \A a \in Requests : hold'[a] = hold[a] \/ hold'[a] \in {NoProc, proc}
      PROVE  ProcessesLast
  BY <1>1 DEF ProcessesLast
<1>2. CASE \E a \in Stops : StopBegin(a) \/ StopStep(a)
  BY <1>1, <1>2 DEF StopBegin, StopStep, StopWrite, StopReconcile, StopReconcileTo,
                    RequestFails, Release
<1>3. CASE \E c \in Cancels : CancelStep(c) \/ \E u \in Uuids : CancelBegin(c, u)
  BY <1>1, <1>3 DEF CancelBegin, CancelStep, CancelWrite, CancelResolve, RequestFails, Release
<1>4. CASE \E p \in Procs : ScanReply(p)
  <2>1. PICK p \in Procs : ScanReply(p)
    BY <1>4
  <2> DEFINE id == Head(stdout[p]).id
  <2>2. id \in Requests
    BY <2>1, FrameTypes DEF ScanReply, ScanReplyOf, Receive
  <2>3. /\ UNCHANGED <<proc, hold, alive, dead>>
        /\ pc' = pc \/ pc' = [pc EXCEPT ![id] = "replied"]
    BY <2>1 DEF ScanReply, ScanReplyOf, Receive
  <2> HIDE DEF id
  <2> QED
    BY <1>1, <2>2, <2>3
<1>5. CASE \E p \in Procs : TakeQueued(p) \/ RenderStarted(p) \/ ScanDropped(p) \/ ScanEof(p)
  BY <1>5 DEF ProcessesLast, TakeQueued, TakeQueuedFrom, RenderStarted, ScanDropped, ScanEof,
              Receive
<1>6. CASE \E p \in Procs : WatchStep(p)
  BY <1>1, <1>6 DEF WatchStep, WatchCheck, WatchClear, WatchEnd
<1>7. CASE \E p \in Procs : CliStep(p) \/ CliRefuse(p) \/ CliExit(p)
  BY <1>1, <1>7 DEF CliStep, CliRead, CliStart, CliFinish, CliRefuse, CliExit, Gone
<1>8. CASE \E a \in Agents : Push(a)
  <2>1. PICK a \in Agents : Push(a)
    BY <1>8
  <2>2. /\ UNCHANGED <<proc, hold, alive, dead>>
        /\ \A b \in Agents : b # a => pc'[b] = pc[b]
    BY <2>1 DEF Push, PushStart, PushRead, PushAppend
  <2>3. pc'[a] \notin {"off", "eof", "init"}
    BY <2>1 DEF Push, PushStart, PushRead, PushAppend, AfterPush
  <2> QED
    BY <2>2, <2>3 DEF ProcessesLast
<1>9. CASE Close \/ UNCHANGED vars
  BY <1>1, <1>9 DEF Close, Gone, vars
<1> QED
  BY <1>2, <1>3, <1>4, <1>5, <1>6, <1>7, <1>8, <1>9 DEF ScanStep

\* So scanners stay with their processes.
LEMMA ScannersInductive ==
  ASSUME Base, ScannersRight, [Next]_vars
  PROVE  ProcessesLast /\ ScannersRight'
<1> USE DEF Base
<1>1. ProcessesLast
  BY SendLasts, OthersLast DEF Next
<1>2. /\ proc \in Procs \cup {NoProc}
      /\ \A a \in Requests : hold[a] \in Procs \cup {NoProc}
      /\ \A u \in Uuids : pc[u] \in {"start", "init"} => hold[u] \in Procs
  BY AgentsDistinct DEF TypeInv, TypeOK, StartsSome
<1>3. proc' # NoProc => pc'[Scanner(proc')] # "off"
  <2>1. CASE proc' = proc
    BY <1>1, <1>2, <2>1 DEF ScannersRight, ProcessesLast
  <2>2. CASE \E u \in Uuids : SetProc(u)
    <3>1. PICK u \in Uuids : pc[u] = "init" /\ proc' = hold[u]
      BY <2>2 DEF SetProc, Goto
    <3> QED
      BY <1>1, <1>2, <3>1 DEF ScannersRight, ProcessesLast
  <2> QED
    BY <1>1, <2>1, <2>2 DEF ProcessesLast
<1>4. \A a \in Requests : hold'[a] # NoProc => pc'[Scanner(hold'[a])] # "off"
  BY <1>1, <1>2 DEF ScannersRight, ProcessesLast
<1>5. ASSUME NEW u \in Uuids, pc'[u] = "init"
      PROVE  pc'[Scanner(hold'[u])] # "off"
  <2>1. CASE pc[u] = "init" /\ hold'[u] = hold[u]
    BY <1>1, <1>2, <2>1 DEF ScannersRight, ProcessesLast
  <2>2. CASE StartProcess(u)
    BY <1>2, <2>2, AgentsDistinct DEF StartProcess, TypeInv, TypeOK
  <2> QED
    BY <1>1, <1>5, <2>1, <2>2 DEF ProcessesLast
<1>6. \A p \in Procs : pc'[Scanner(p)] = "eof" => p \in dead'
  BY <1>1 DEF ScannersRight, ProcessesLast
<1> QED
  BY <1>1, <1>3, <1>4, <1>5, <1>6 DEF ScannersRight

\* A request holds no process that runs but the session's.
LEMMA RequestsHoldProc ==
  ASSUME Base, ScannersRight, PipesOfProc, [Next]_vars, NEW a \in Requests, hold'[a] \in alive'
  PROVE  hold'[a] = proc'
<1> USE DEF Base
<1>1. ProcessesLast
  BY ScannersInductive
<1>2. hold'[a] # NoProc /\ hold[a] \in Procs \cup {NoProc}
  <2>1. TypeInv'
    BY NextTypes
  <2> QED
    BY <2>1, AgentsDistinct, ProcsAreNumbers DEF TypeInv, TypeOK
<1>3. CASE \E u \in Uuids : StartProcess(u)
  <2>1. PICK u \in Uuids : StartProcess(u)
    BY <1>3
  <2>2. hold' = hold /\ proc' = proc /\ alive' = alive \cup {hold[u]} /\ pc[u] = "start"
    BY <2>1 DEF StartProcess, session
  <2>3. pc[Scanner(hold[u])] = "off"
    BY <2>2 DEF OneCli, UnstartedIsOff
  <2>4. hold[a] # hold[u]
    BY <1>2, <2>2, <2>3 DEF ScannersRight
  <2> QED
    BY <2>2, <2>4 DEF PipesOfProc
<1>4. CASE \E u \in Uuids : SetProc(u)
  <2>1. PICK u \in Uuids : SetProc(u)
    BY <1>4
  <2>2. hold' = hold /\ proc' = hold[u] /\ alive' = alive /\ pc[u] = "init"
    BY <2>1 DEF SetProc, Goto, cli
  <2>3. \A p \in alive : p = hold[u]
    BY <2>2 DEF OneCli, AliveHasAnOwner, StartsAfresh, Starting, OneSend, InSend
  <2> QED
    BY <2>2, <2>3
<1>5. CASE proc' = proc /\ alive' \subseteq alive
  BY <1>1, <1>2, <1>5 DEF PipesOfProc, ProcessesLast
<1> QED
  BY <1>1, <1>3, <1>4, <1>5 DEF ProcessesLast

\* The other processes' pipes are left empty.
LEMMA PipesInductive ==
  ASSUME Base, HeldByProc, ScannersRight, PipesOfProc, [Next]_vars
  PROVE  PipesOfProc'
<1> USE DEF Base
<1>1. ASSUME NEW p \in Procs, p # proc
      PROVE  stdin'[p] = <<>> /\ stdout'[p] = <<>>
  <2>1. stdin[p] = <<>> /\ stdout[p] = <<>> /\ pending[p] = {}
    BY <1>1 DEF PipesOfProc, HeldByProc, Held
  <2>2. CASE Idle
    BY <2>1, <2>2, IdlePipes
  <2>3. CASE Reads
    <3>1. PICK q \in Procs : \E ops : Receive(q, ops)
      BY <2>3 DEF Reads
    <3>2. p # q /\ stdin' = stdin
      BY <2>1, <3>1 DEF Receive
    <3> QED
      BY <2>1, <3>1, <3>2, OutRead
  <2>4. CASE Writes
    <3>1. PICK a \in Handlers : /\ hold[a] \in alive /\ stdout' = stdout
                                /\ \E f : Write(hold[a], f)
                                /\ a \in Requests \/ (pc[a] = "send" /\ a \in Uuids)
      <4>1. CASE \E u \in Uuids : SendUserMessage(u)
        BY <4>1, AgentsDistinct DEF SendUserMessage, Goto
      <4>2. CASE \E a \in Stops : StopWrite(a)
        BY <4>2, AgentsDistinct DEF StopWrite
      <4>3. CASE \E c \in Cancels : CancelWrite(c)
        BY <4>3, AgentsDistinct DEF CancelWrite
      <4> QED
        BY <2>4, <4>1, <4>2, <4>3 DEF Writes
    <3>2. a \in Requests => hold[a] = proc
      BY <3>1 DEF PipesOfProc
    <3>3. a \in Uuids /\ pc[a] = "send" => hold[a] = proc
      BY <3>1 DEF OneCli, AliveHasAnOwner, OneSend, InSend
    <3> QED
      BY <1>1, <2>1, <3>1, <3>2, <3>3 DEF Write, TypeInv, TypeOK
  <2>5. CASE Works
    <3>1. PICK q \in Procs : CliRead(q) \/ CliStart(q) \/ CliRefuse(q)
      BY <2>5 DEF Works
    <3>2. stdin[q] # <<>> \/ pending[q] # {}
      BY <3>1 DEF CliRead, CliStart, CliRefuse
    <3>3. q # p
      BY <2>1, <3>2
    <3>4. stdin'[p] = stdin[p]
      BY <3>1, <3>3, InRead DEF CliStart, CliRefuse
    <3>5. stdout'[p] = stdout[p]
      BY <3>1, <3>3, WorkWrites, OutWritten
    <3> QED
      BY <2>1, <3>4, <3>5
  <2> QED
    BY <2>2, <2>3, <2>4, <2>5, Traffic
<1>2. \A p \in Procs : p # proc' => stdin'[p] = <<>> /\ stdout'[p] = <<>>
  <2>1. CASE proc' = proc
    BY <1>1, <2>1
  <2>2. CASE \E u \in Uuids : SetProc(u)
    <3>1. stdin' = stdin /\ stdout' = stdout /\ (proc = NoProc \/ proc \in dead)
      BY <2>2 DEF SetProc, Goto, cli, HeldByProc, Starting
    <3>2. proc \in dead => proc \in Procs \ alive
      BY DEF TypeInv, TypeOK, OneCli
    <3>3. proc \in dead => stdin[proc] = <<>> /\ stdout[proc] = <<>>
      BY <3>2 DEF HeldByProc
    <3> QED
      BY <1>1, <3>1, <3>3, ProcsAreNumbers
  <2> QED
    BY <2>1, <2>2, ScannersInductive DEF ProcessesLast
<1> QED
  BY <1>2, RequestsHoldProc DEF PipesOfProc

-----------------------------------------------------------------------------
(* Cancels and failed sends.                                               *)

\* Only the cancel itself sets out to write.
LEMMA CancelWritesOne ==
  ASSUME Base, CancelInv, [Next]_vars, NEW c \in Cancels, pc'[c] = "write"
  PROVE  \/ pc[c] = "write" /\ arg'[c] = arg[c]
         \/ \E u \in Uuids : CancelBegin(c, u)
<1> USE AgentsDistinct DEF Base, TypeInv, TypeOK, Goto, session, local
<1>1. CASE UNCHANGED vars
  BY <1>1 DEF vars
<1>2. CASE \E u \in Uuids : SendBegin(u) \/ SendStep(u) \/ StartFails(u)
  <2>1. pc'[c] = pc[c] /\ arg'[c] = arg[c]
    BY <1>2, ConstantsAssumption
    DEF SendBegin, SendStep, StartFails, StartFailsKilling, EnsureLive, EnsureFails, EnsureStart,
        StartProcess, SetProc, AnnounceStart, AnnounceStartAs, AddQueued, SendUserMessage,
        SendFails, SendFailsDropping, StartsSome
  <2> QED
    BY <2>1
<1>3. CASE \E a \in Stops : StopBegin(a) \/ StopStep(a)
  <2>1. pc'[c] = pc[c] /\ arg'[c] = arg[c]
    BY <1>3, ConstantsAssumption
    DEF StopBegin, StopStep, StopWrite, StopReconcile, StopReconcileTo, RequestFails
  <2> QED
    BY <2>1
<1>4. CASE \E d \in Cancels : CancelStep(d) \/ \E u \in Uuids : CancelBegin(d, u)
  <2>1. PICK d \in Cancels : CancelStep(d) \/ \E u \in Uuids : CancelBegin(d, u)
    BY <1>4
  <2>2. CASE d # c
    <3>1. pc'[c] = pc[c] /\ arg'[c] = arg[c]
      BY <2>1, <2>2 DEF CancelStep, CancelBegin, CancelWrite, CancelResolve, RequestFails
    <3> QED
      BY <3>1
  <2>3. CASE d = c
    BY <2>1, <2>3 DEF CancelStep, CancelWrite, CancelResolve, RequestFails
  <2> QED
    BY <2>2, <2>3
<1>5. CASE \E p \in Procs : ScanStep(p)
  <2>1. PICK p \in Procs : ScanStep(p)
    BY <1>5
  <2>2. CASE ScanReply(p)
    BY <2>2 DEF ScanReply, ScanReplyOf
  <2>3. CASE TakeQueued(p) \/ RenderStarted(p) \/ ScanDropped(p) \/ ScanEof(p)
    BY <2>3 DEF TakeQueued, TakeQueuedFrom, RenderStarted, ScanDropped, ScanEof
  <2> QED
    BY <2>1, <2>2, <2>3 DEF ScanStep
<1>6. CASE \E p \in Procs : WatchStep(p) \/ CliStep(p) \/ CliRefuse(p) \/ CliExit(p)
  <2>1. pc'[c] = pc[c] /\ arg'[c] = arg[c]
    BY <1>6 DEF WatchStep, WatchCheck, WatchClear, WatchEnd, CliStep, CliRead, CliStart, CliFinish,
                CliRefuse, CliExit
  <2> QED
    BY <2>1
<1>7. CASE \E a \in Agents : Push(a)
  <2>1. PICK a \in Agents : Push(a)
    BY <1>7
  <2>2. arg' = arg /\ (a # c => pc'[c] = pc[c]) /\ pc'[a] # "write"
    BY <2>1 DEF Push, PushStart, PushRead, PushAppend, AfterPush
  <2> QED
    BY <2>2
<1>8. CASE Close
  BY <1>8 DEF Close
<1> QED
  BY <1>1, <1>2, <1>3, <1>4, <1>5, <1>6, <1>7, <1>8 DEF Next

\* A cancel is written for one message.
LEMMA CancelsInductive ==
  ASSUME Base, CancelInv, CancelsOne, [Next]_vars
  PROVE  CancelsOne'
<1> USE DEF Base
<1>1. ASSUME NEW c \in Cancels, pc'[c] = "write"
      PROVE  \E u \in Uuids : arg'[c] = {u}
  <2>1. CASE pc[c] = "write" /\ arg'[c] = arg[c]
    BY <2>1 DEF CancelsOne
  <2>2. CASE \E u \in Uuids : CancelBegin(c, u)
    <3>1. PICK u \in Uuids : arg' = [arg EXCEPT ![c] = {u}]
      BY <2>2 DEF CancelBegin
    <3> QED
      BY <3>1, AgentsDistinct DEF TypeInv, TypeOK
  <2> QED
    BY <1>1, <2>1, <2>2, CancelWritesOne
<1>2. \A f \in In' : f.op = "cancel" => \E u \in Uuids : f.of = {u}
  <2>1. CASE \E c \in Cancels : CancelWrite(c)
    <3>1. PICK c \in Cancels : CancelWrite(c)
      BY <2>1
    <3> DEFINE f == Frame("cancel", c, arg[c])
    <3>2. pc[c] = "write" /\ hold[c] \in Procs /\ Write(hold[c], f)
      BY <3>1 DEF CancelWrite, Goto, TypeInv, TypeOK
    <3>3. f \in Frames /\ \E u \in Uuids : f.of = {u}
      BY <3>2, FrameTypes, AgentsDistinct DEF CancelsOne, TypeInv, TypeOK, Frame
    <3> HIDE DEF f
    <3> QED
      BY <3>2, <3>3, InWritten DEF CancelsOne
  <2>2. CASE In' \subseteq In
    BY <2>2 DEF CancelsOne
  <2>3. CASE (\E u \in Uuids : SendUserMessage(u)) \/ \E a \in Stops : StopWrite(a)
    <3>1. PICK p \in Procs, f \in Frames : Write(p, f) /\ f.op # "cancel"
      <4>1. CASE \E u \in Uuids : SendUserMessage(u)
        <5>1. PICK u \in Uuids : SendUserMessage(u)
          BY <4>1
        <5>2. hold[u] \in Procs /\ Write(hold[u], Frame("user", u, {u}))
          BY <5>1 DEF SendUserMessage, TypeInv, TypeOK
        <5>3. Frame("user", u, {u}) \in Frames /\ Frame("user", u, {u}).op = "user"
          BY FrameTypes DEF Frame
        <5> QED
          BY <5>2, <5>3
      <4>2. CASE \E a \in Stops : StopWrite(a)
        <5>1. PICK a \in Stops : StopWrite(a)
          BY <4>2
        <5>2. hold[a] \in Procs /\ Write(hold[a], Frame("interrupt", a, {}))
          BY <5>1 DEF StopWrite, TypeInv, TypeOK
        <5>3. /\ Frame("interrupt", a, {}) \in Frames
              /\ Frame("interrupt", a, {}).op = "interrupt"
          BY FrameTypes DEF Frame
        <5> QED
          BY <5>2, <5>3
      <4> QED
        BY <2>3, <4>1, <4>2
    <3> QED
      BY <3>1, InWritten DEF CancelsOne
  <2>4. CASE Reads
    <3>1. stdin' = stdin
      BY <2>4 DEF Reads, Receive
    <3> QED
      BY <3>1, <2>2 DEF In
  <2>5. CASE Works
    <3>1. PICK p \in Procs : CliRead(p) \/ CliStart(p) \/ CliRefuse(p)
      BY <2>5 DEF Works
    <3>2. stdin' = stdin \/ In' \subseteq In
      BY <3>1, InRead DEF CliStart, CliRefuse
    <3> QED
      BY <3>2, <2>2 DEF In
  <2> QED
    BY <2>1, <2>2, <2>3, <2>4, <2>5, Traffic, IdlePipes DEF Writes
<1> QED
  BY <1>1, <1>2 DEF CancelsOne

\* A sender keeps its own message once it failed, and only then.
LEMMA FailuresInductive ==
  ASSUME Base, FailuresMarked, [Next]_vars
  PROVE  FailuresMarked'
<1> USE AgentsDistinct DEF Base, TypeInv, TypeOK, Goto, session, local
<1>1. ASSUME \A u \in Uuids : pc'[u] = pc[u] /\ arg'[u] = arg[u]
      PROVE  FailuresMarked'
  BY <1>1 DEF FailuresMarked
<1>2. CASE \E v \in Uuids : SendBegin(v) \/ SendStep(v) \/ StartFails(v)
  <2>1. PICK v \in Uuids : SendBegin(v) \/ SendStep(v) \/ StartFails(v)
    BY <1>2
  <2>2. CASE SendFails(v)
    BY <2>2 DEF SendFails, SendFailsDropping, FailuresMarked
  <2>3. CASE ~ SendFails(v)
    <3>1. /\ arg' = arg /\ pc[v] \notin {"failPush", "push", "failed"}
          /\ \A u \in Uuids : u # v => pc'[u] = pc[u]
      BY <2>1, <2>3, ConstantsAssumption
      DEF SendBegin, SendStep, StartFails, StartFailsKilling, EnsureLive, EnsureFails, EnsureStart,
          StartProcess, SetProc, AnnounceStart, AnnounceStartAs, AddQueued, SendUserMessage,
          StartsSome
    <3> QED
      BY <3>1 DEF FailuresMarked
  <2> QED
    BY <2>2, <2>3
<1>3. CASE \E a \in Stops : StopBegin(a) \/ StopStep(a)
  BY <1>1, <1>3 DEF StopBegin, StopStep, StopWrite, StopReconcile, StopReconcileTo, RequestFails
<1>4. CASE \E c \in Cancels : CancelStep(c) \/ \E u \in Uuids : CancelBegin(c, u)
  BY <1>1, <1>4 DEF CancelStep, CancelBegin, CancelWrite, CancelResolve, RequestFails
<1>5. CASE \E p \in Procs : ScanReply(p)
  <2>1. PICK p \in Procs : ScanReply(p)
    BY <1>5
  <2> DEFINE id == Head(stdout[p]).id
  <2>2. id \in Requests
    BY <2>1, FrameTypes DEF ScanReply, ScanReplyOf, Receive
  <2>3. \/ pc' = pc /\ arg' = arg
        \/ /\ pc' = [pc EXCEPT ![id] = "replied"]
           /\ arg' = [arg EXCEPT ![id] = Head(stdout[p]).of]
    BY <2>1 DEF ScanReply, ScanReplyOf
  <2> HIDE DEF id
  <2> QED
    BY <1>1, <2>2, <2>3
<1>6. CASE \E p \in Procs : TakeQueued(p) \/ RenderStarted(p) \/ ScanDropped(p) \/ ScanEof(p)
  BY <1>1, <1>6 DEF TakeQueued, TakeQueuedFrom, RenderStarted, ScanDropped, ScanEof
<1>7. CASE \E p \in Procs : WatchStep(p) \/ CliStep(p) \/ CliRefuse(p) \/ CliExit(p)
  BY <1>1, <1>7 DEF WatchStep, WatchCheck, WatchClear, WatchEnd, CliStep, CliRead, CliStart,
                    CliFinish, CliRefuse, CliExit
<1>8. CASE \E a \in Agents : Push(a)
  <2>1. PICK a \in Agents : Push(a)
    BY <1>8
  <2>2. arg' = arg /\ \A b \in Agents : b # a => pc'[b] = pc[b]
    BY <2>1 DEF Push, PushStart, PushRead, PushAppend
  <2>3. a \in Uuids /\ arg[a] # {} => pc'[a] \in {"push", "failed"}
    BY <2>1 DEF Push, PushStart, PushRead, PushAppend, AfterPush
  <2> QED
    BY <2>2, <2>3 DEF FailuresMarked
<1>9. CASE Close \/ UNCHANGED vars
  BY <1>1, <1>9 DEF Close, vars
<1> QED
  BY <1>2, <1>3, <1>4, <1>5, <1>6, <1>7, <1>8, <1>9 DEF Next, ScanStep

-----------------------------------------------------------------------------
(* The bar.                                                                *)

\* Whoever is here removed an entry and will push the bar, or is pushing it.
Pushing == {"failPush", "stopPush", "cancelPush", "render", "scanPush", "endPush", "push"}

\* A step that does not append a bar: one that removes entries leaves an agent
\* that will.
BarWaits ==
  /\ bar' = bar /\ late \subseteq late' /\ (closed => closed')
  /\ queue \subseteq queue' \/ \E a \in Agents : pc'[a] \in Pushing
  /\ \A a \in Agents : pc[a] \in Pushing => pc'[a] \in Pushing

\* Such are the steps of a send.
LEMMA SendBarWaits ==
  ASSUME Base, WatchersRight, NEW u \in Uuids, SendBegin(u) \/ SendStep(u) \/ StartFails(u)
  PROVE  BarWaits
<1> USE AgentsDistinct
    DEF BarWaits, Pushing, Goto, session, local, history, Base, TypeInv, TypeOK
<1>1. CASE SendFails(u)
  BY <1>1 DEF SendFails, SendFailsDropping
<1>2. CASE StartProcess(u)
  <2>1. /\ pc[u] = "start" /\ hold[u] \in Procs
        /\ pc' = [pc EXCEPT ![u] = "init", ![Scanner(hold[u])] = "read"]
        /\ bar' = bar /\ late' = late /\ closed' = closed /\ queue' = queue
    BY <1>2 DEF StartProcess, StartsSome
  <2>2. pc[Scanner(hold[u])] = "off"
    BY <2>1 DEF OneCli, UnstartedIsOff
  <2> QED
    BY <2>1, <2>2
<1>3. CASE AnnounceStart(u)
  <2>1. /\ pc[u] = "announce" /\ hold[u] \in Procs
        /\ pc' = [pc EXCEPT ![u] = "add", ![Watcher(hold[u])] = "wait"]
        /\ bar' = bar /\ late' = late /\ closed' = closed /\ queue' = queue
    BY <1>3 DEF AnnounceStart, AnnounceStartAs, StartsSome
  <2>2. pc[Watcher(hold[u])] = "off"
    BY <2>1 DEF WatchersRight
  <2> QED
    BY <2>1, <2>2
<1>4. CASE \/ SendBegin(u) \/ EnsureLive(u) \/ EnsureFails(u) \/ EnsureStart(u) \/ SetProc(u)
  BY <1>4 DEF SendBegin, EnsureLive, EnsureFails, EnsureStart, SetProc
<1>5. CASE StartFails(u) \/ AddQueued(u) \/ SendUserMessage(u)
  BY <1>5 DEF StartFails, StartFailsKilling, AddQueued, SendUserMessage
<1> QED
  BY <1>1, <1>2, <1>3, <1>4, <1>5 DEF SendStep

\* Such are those of everyone else but for the append.
LEMMA OthersBarWait ==
  ASSUME TypeInv,
         \/ \E a \in Stops : StopBegin(a) \/ StopStep(a)
         \/ \E c \in Cancels : CancelStep(c) \/ \E u \in Uuids : CancelBegin(c, u)
         \/ \E p \in Procs : ScanStep(p) \/ WatchStep(p) \/ CliStep(p) \/ CliRefuse(p)
                             \/ CliExit(p)
         \/ \E a \in Agents : PushStart(a)
         \/ Close
         \/ UNCHANGED vars
  PROVE  BarWaits
<1> USE AgentsDistinct
    DEF BarWaits, Pushing, Goto, session, local, history, TypeInv, TypeOK
<1>1. CASE \E a \in Stops : StopBegin(a) \/ StopStep(a)
  BY <1>1 DEF StopBegin, StopStep, StopWrite, StopReconcile, StopReconcileTo, RequestFails
<1>2. CASE \E c \in Cancels : CancelStep(c) \/ \E u \in Uuids : CancelBegin(c, u)
  BY <1>2 DEF CancelStep, CancelBegin, CancelWrite, CancelResolve, RequestFails
<1>3. CASE \E p \in Procs : ScanReply(p)
  <2>1. PICK p \in Procs : ScanReply(p)
    BY <1>3
  <2> DEFINE id == Head(stdout[p]).id
  <2>2. id \in Requests
    BY <2>1, FrameTypes DEF ScanReply, ScanReplyOf, Receive
  <2>3. /\ pc' = pc \/ (pc[id] = "await" /\ pc' = [pc EXCEPT ![id] = "replied"])
        /\ bar' = bar /\ late' = late /\ closed' = closed /\ queue' = queue
    BY <2>1 DEF ScanReply, ScanReplyOf
  <2> HIDE DEF id
  <2> QED
    BY <2>2, <2>3
<1>4. CASE \E p \in Procs : TakeQueued(p)
  <2>1. PICK p \in Procs : TakeQueued(p)
    BY <1>4
  <2>2. /\ pc[Scanner(p)] = "read"
        /\ bar' = bar /\ late' = late /\ closed' = closed
        /\ \/ queue' = queue /\ pc' = pc
           \/ pc' = [pc EXCEPT ![Scanner(p)] = "render"]
    BY <2>1 DEF TakeQueued, TakeQueuedFrom, Receive
  <2> QED
    BY <2>2
<1>5. CASE \E p \in Procs : RenderStarted(p) \/ ScanDropped(p) \/ ScanEof(p)
  <2>1. PICK p \in Procs : RenderStarted(p) \/ ScanDropped(p) \/ ScanEof(p)
    BY <1>5
  <2>2. CASE RenderStarted(p) \/ ScanDropped(p)
    <3>1. /\ bar' = bar /\ late' = late /\ closed' = closed
          /\ pc' = [pc EXCEPT ![Scanner(p)] = "scanPush"]
      BY <2>2 DEF RenderStarted, ScanDropped
    <3> QED
      BY <3>1
  <2>3. CASE ScanEof(p)
    <3>1. /\ bar' = bar /\ late' = late /\ closed' = closed /\ queue' = queue
          /\ pc[Scanner(p)] = "read" /\ pc' = [pc EXCEPT ![Scanner(p)] = "eof"]
      BY <2>3 DEF ScanEof
    <3> QED
      BY <3>1
  <2> QED
    BY <2>1, <2>2, <2>3
<1>6. CASE \E p \in Procs : WatchStep(p)
  BY <1>6 DEF WatchStep, WatchCheck, WatchClear, WatchEnd
<1>7. CASE \E p \in Procs : CliStep(p) \/ CliRefuse(p) \/ CliExit(p)
  BY <1>7 DEF CliStep, CliRead, CliStart, CliFinish, CliRefuse, CliExit
<1>8. CASE \E a \in Agents : PushStart(a)
  BY <1>8 DEF PushStart, PushRead
<1>9. CASE Close \/ UNCHANGED vars
  BY <1>9 DEF Close, vars
<1> QED
  BY <1>1, <1>2, <1>3, <1>4, <1>5, <1>6, <1>7, <1>8, <1>9 DEF ScanStep

\* The bar shows no entry that left unnoticed.
LEMMA BarInductive ==
  ASSUME Base, WatchersRight, BarFollows, [Next]_vars
  PROVE  BarFollows'
<1>1. CASE \E a \in Agents : PushAppend(a)
  <2>1. PICK a \in Agents : PushAppend(a)
    BY <1>1
  <2>2. closed' = closed /\ queue' = queue /\ closed \in BOOLEAN
    BY <2>1 DEF PushAppend, Base, TypeInv, TypeOK
  <2>3. ~ closed => bar' = snap[a] /\ late' = late \cup (snap[a] \ queue)
    BY <2>1 DEF PushAppend
  <2> QED
    BY <2>2, <2>3 DEF BarFollows
<1>2. CASE BarWaits
  <2>1. CASE \E a \in Agents : pc[a] \in Pushing
    BY <1>2, <2>1 DEF BarWaits, BarFollows, Pushing
  <2>2. CASE closed \/ bar \subseteq queue \cup late
    BY <1>2, <2>2 DEF BarWaits, BarFollows, Pushing
  <2> QED
    BY <2>1, <2>2 DEF BarFollows, Pushing
<1> QED
  BY <1>1, <1>2, SendBarWaits, OthersBarWait DEF Next, Push, Base

-----------------------------------------------------------------------------
(* Stops.                                                                  *)

\* A stop that was written is not written again, and forgets what was sent
\* before it when it is done; it learns an answer from the scan goroutine.
StopMoves(a) ==
  /\ sentBefore'[a] \subseteq sentBefore[a]
  /\ pc'[a] \in {"idle", "write"} => pc[a] \in {"idle", "write"}
  /\ pc'[a] = "replied" =>
       \/ pc[a] = "replied" /\ arg'[a] = arg[a]
       \/ \E p \in Procs : /\ ScanReply(p) /\ Head(stdout[p]).id = a
                           /\ arg'[a] = Head(stdout[p]).of

\* Every stop does, but for the one that is written.
LEMMA StopsMove ==
  ASSUME Base, [Next]_vars, NEW a \in Stops
  PROVE  StopMoves(a) \/ (StopWrite(a) /\ pc'[a] = "await")
<1> USE AgentsDistinct DEF StopMoves, Base, TypeInv, TypeOK, Goto, session, local, history
<1>1. ASSUME pc'[a] = pc[a] /\ arg'[a] = arg[a] /\ sentBefore' = sentBefore
      PROVE  StopMoves(a)
  BY <1>1
<1>2. CASE UNCHANGED vars
  BY <1>1, <1>2 DEF vars
<1>3. CASE \E u \in Uuids : SendBegin(u) \/ SendStep(u) \/ StartFails(u)
  <2>1. pc'[a] = pc[a] /\ arg'[a] = arg[a] /\ sentBefore' = sentBefore
    BY <1>3, ConstantsAssumption
    DEF SendBegin, SendStep, StartFails, StartFailsKilling, EnsureLive, EnsureFails, EnsureStart,
        StartProcess, SetProc, AnnounceStart, AnnounceStartAs, AddQueued, SendUserMessage,
        SendFails, SendFailsDropping, StartsSome
  <2> QED
    BY <1>1, <2>1
<1>4. CASE \E b \in Stops : StopBegin(b) \/ StopStep(b)
  <2>1. PICK b \in Stops : StopBegin(b) \/ StopStep(b)
    BY <1>4
  <2>2. CASE b # a
    <3>1. pc'[a] = pc[a] /\ arg'[a] = arg[a] /\ sentBefore'[a] = sentBefore[a]
      BY <2>1, <2>2 DEF StopBegin, StopStep, StopWrite, StopReconcile, StopReconcileTo,
                        RequestFails, Forget
    <3> QED
      BY <3>1
  <2>3. CASE b = a /\ StopWrite(a)
    BY <2>3 DEF StopWrite
  <2>4. CASE b = a /\ ~ StopWrite(a)
    BY <2>1, <2>4 DEF StopBegin, StopStep, StopReconcile, StopReconcileTo, RequestFails, Forget
  <2> QED
    BY <2>2, <2>3, <2>4
<1>5. CASE \E c \in Cancels : CancelStep(c) \/ \E u \in Uuids : CancelBegin(c, u)
  <2>1. /\ pc'[a] = pc[a] /\ arg'[a] = arg[a]
        /\ sentBefore'[a] \subseteq sentBefore[a]
    BY <1>5, ConstantsAssumption
    DEF CancelStep, CancelBegin, CancelWrite, CancelResolve, RequestFails, Forget
  <2> QED
    BY <2>1
<1>6. CASE \E p \in Procs : ScanStep(p)
  <2>1. PICK p \in Procs : ScanStep(p)
    BY <1>6
  <2>2. CASE ScanReply(p)
    <3>1. sentBefore' = sentBefore
      BY <2>2 DEF ScanReply, ScanReplyOf
    <3>2. \/ pc'[a] = pc[a] /\ arg'[a] = arg[a]
          \/ /\ Head(stdout[p]).id = a /\ pc'[a] = "replied"
             /\ arg'[a] = Head(stdout[p]).of
      BY <2>2 DEF ScanReply, ScanReplyOf
    <3> QED
      BY <1>1, <2>2, <3>1, <3>2
  <2>3. CASE TakeQueued(p) \/ RenderStarted(p) \/ ScanDropped(p) \/ ScanEof(p)
    <3>1. pc'[a] = pc[a] /\ arg'[a] = arg[a] /\ sentBefore' = sentBefore
      BY <2>3 DEF TakeQueued, TakeQueuedFrom, RenderStarted, ScanDropped, ScanEof
    <3> QED
      BY <1>1, <3>1
  <2> QED
    BY <2>1, <2>2, <2>3 DEF ScanStep
<1>7. CASE \E p \in Procs : WatchStep(p) \/ CliStep(p) \/ CliRefuse(p) \/ CliExit(p)
  <2>1. pc'[a] = pc[a] /\ arg'[a] = arg[a] /\ sentBefore' = sentBefore
    BY <1>7 DEF WatchStep, WatchCheck, WatchClear, WatchEnd, CliStep, CliRead, CliStart, CliFinish,
                CliRefuse, CliExit
  <2> QED
    BY <1>1, <2>1
<1>8. CASE \E b \in Agents : Push(b)
  <2>1. PICK b \in Agents : Push(b)
    BY <1>8
  <2>2. /\ arg' = arg /\ sentBefore' = sentBefore /\ (b # a => pc'[a] = pc[a])
        /\ pc'[b] \notin {"idle", "write", "replied"}
    BY <2>1 DEF Push, PushStart, PushRead, PushAppend, AfterPush
  <2> QED
    BY <2>2
<1>9. CASE Close
  BY <1>1, <1>9 DEF Close
<1> QED
  BY <1>2, <1>3, <1>4, <1>5, <1>6, <1>7, <1>8, <1>9 DEF Next

\* Where the frames on stdin come from.
LEMMA InMoves ==
  ASSUME TypeInv, [Next]_vars, NEW f \in In'
  PROVE  \/ f \in In
         \/ \E u \in Uuids : SendUserMessage(u) /\ f.op = "user" /\ f.id = u
         \/ \E a \in Stops : StopWrite(a) /\ f.op = "interrupt" /\ f.id = a
         \/ \E c \in Cancels : CancelWrite(c) /\ f.op = "cancel" /\ f.id = c
<1>1. CASE In' \subseteq In
  BY <1>1
<1>2. CASE Reads
  BY <1>1, <1>2 DEF Reads, Receive, In
<1>3. CASE Works
  <2>1. PICK p \in Procs : CliRead(p) \/ CliStart(p) \/ CliRefuse(p)
    BY <1>3 DEF Works
  <2>2. stdin' = stdin \/ In' \subseteq In
    BY <2>1, InRead DEF CliStart, CliRefuse
  <2> QED
    BY <1>1, <2>2 DEF In
<1>4. CASE \E u \in Uuids : SendUserMessage(u)
  <2>1. PICK u \in Uuids : SendUserMessage(u)
    BY <1>4
  <2> DEFINE g == Frame("user", u, {u})
  <2>2. hold[u] \in Procs /\ Write(hold[u], g)
    BY <2>1 DEF SendUserMessage, TypeInv, TypeOK
  <2>3. g \in Frames /\ g.op = "user" /\ g.id = u
    BY FrameTypes DEF Frame
  <2> HIDE DEF g
  <2>4. In' = In \cup {g}
    BY <2>2, <2>3, InWritten
  <2> QED
    BY <2>1, <2>3, <2>4
<1>5. CASE \E a \in Stops : StopWrite(a)
  <2>1. PICK a \in Stops : StopWrite(a)
    BY <1>5
  <2> DEFINE g == Frame("interrupt", a, {})
  <2>2. hold[a] \in Procs /\ Write(hold[a], g)
    BY <2>1 DEF StopWrite, TypeInv, TypeOK
  <2>3. g \in Frames /\ g.op = "interrupt" /\ g.id = a
    BY FrameTypes DEF Frame
  <2> HIDE DEF g
  <2>4. In' = In \cup {g}
    BY <2>2, <2>3, InWritten
  <2> QED
    BY <2>1, <2>3, <2>4
<1>6. CASE \E c \in Cancels : CancelWrite(c)
  <2>1. PICK c \in Cancels : CancelWrite(c)
    BY <1>6
  <2> DEFINE g == Frame("cancel", c, arg[c])
  <2>2. hold[c] \in Procs /\ Write(hold[c], g)
    BY <2>1 DEF CancelWrite, TypeInv, TypeOK
  <2>3. g \in Frames /\ g.op = "cancel" /\ g.id = c
    BY FrameTypes, AgentsDistinct DEF Frame, TypeInv, TypeOK
  <2> HIDE DEF g
  <2>4. In' = In \cup {g}
    BY <2>2, <2>3, InWritten
  <2> QED
    BY <2>1, <2>3, <2>4
<1> QED
  BY <1>1, <1>2, <1>3, <1>4, <1>5, <1>6, Traffic, IdlePipes DEF Writes

\* Where the frames on stdout come from.
LEMMA OutMoves ==
  ASSUME TypeInv, [Next]_vars, NEW f \in Out'
  PROVE  \/ f \in Out
         \/ \E p \in Procs :
              \/ f.op = "started" /\ CliStart(p) /\ f.id \in pending[p]
              \/ f.op \in {"cancelled", "refused"} /\ f.id \in pending[p] /\ f.id \notin pending'[p]
                 /\ ((CliRead(p) /\ CliCancel(p)) \/ CliRefuse(p))
              \/ f.op = "reply" /\ f.id \in Cancels
              \/ f.op = "reply" /\ f.id \in Stops /\ CliRead(p) /\ CliInterrupt(p)
                 /\ f.id = Head(stdin[p]).id /\ f.of = pending[p]
<1>1. CASE Out' \subseteq Out
  BY <1>1
<1>2. CASE Reads
  BY <1>1, <1>2, OutRead DEF Reads
<1>3. CASE Writes
  <2>1. stdout' = stdout
    BY <1>3 DEF Writes, SendUserMessage, StopWrite, CancelWrite
  <2> QED
    BY <1>1, <2>1 DEF Out
<1>4. CASE Works
  <2>1. PICK p \in Procs : CliRead(p) \/ CliStart(p) \/ CliRefuse(p)
    BY <1>4 DEF Works
  <2>2. PICK fs \in Seq(Frames) :
           /\ Emit(p, fs)
           /\ \A g \in Carried(fs) :
                \/ g.op = "started" /\ CliStart(p) /\ g.id \in pending[p]
                \/ g.op \in {"cancelled", "refused"} /\ g.id \in pending[p]
                   /\ (CliCancel(p) \/ CliRefuse(p)) /\ g.id \notin pending'[p]
                \/ g.op = "reply" /\ g.id \in Cancels
                \/ g.op = "reply" /\ g.id \in Stops /\ CliRead(p) /\ CliInterrupt(p)
                   /\ g.id = Head(stdin[p]).id /\ g.of = pending[p]
    BY <2>1, WorkWrites
  <2>3. Out' = Out \cup Carried(fs)
    BY <2>2, OutWritten
  <2>4. CliCancel(p) /\ f \notin Out => CliRead(p) \/ CliRefuse(p)
    <3>1. CliCancel(p) => turn' = turn
      BY DEF CliCancel
    <3>2. CliStart(p) => turn'[p] # turn[p]
      BY DEF CliStart, TypeInv, TypeOK
    <3> QED
      BY <2>1, <3>1, <3>2
  <2> QED
    BY <2>2, <2>3, <2>4
<1> QED
  BY <1>1, <1>2, <1>3, <1>4, Traffic, IdlePipes

\* A stop that was written forgets, but adds nothing to what was sent before it.
LEMMA StopsAskOnceInductive ==
  ASSUME Base, StopsAskOnce, [Next]_vars
  PROVE  /\ StopsAskOnce'
         /\ \A f \in In : f.op = "interrupt" => sentBefore'[f.id] \subseteq sentBefore[f.id]
         /\ \A f \in Out : f.op = "reply" /\ f.id \in Stops =>
              sentBefore'[f.id] \subseteq sentBefore[f.id]
<1> USE DEF Base
<1>1. \A a \in Stops : StopWrite(a) =>
        /\ pc[a] = "write" /\ sentBefore'[a] = {u \in Uuids : pc[u] = "sent"}
  BY DEF StopWrite, Goto, TypeInv, TypeOK
<1>2. \A u \in Uuids : pc[u] = "sent" => pc'[u] = "sent"
  BY AllGoOn DEF GoesOn
<1>3. \A a \in Stops : sentBefore'[a] \subseteq {u \in Uuids : pc'[u] = "sent"}
  BY <1>1, <1>2, StopsMove DEF StopsAskOnce, StopMoves
<1>4. \A a \in Stops : pc[a] \notin {"idle", "write"} => StopMoves(a)
  BY <1>1, StopsMove
<1>5. \A f \in In : f.op = "interrupt" =>
        f.id \in Stops /\ StopMoves(f.id) /\ pc'[f.id] \notin {"idle", "write"}
  BY <1>4, PipesCarry, FrameTypes DEF StopsAskOnce, StopMoves
<1>6. \A f \in Out : f.op = "reply" /\ f.id \in Stops =>
        StopMoves(f.id) /\ pc'[f.id] \notin {"idle", "write"}
  BY <1>4 DEF StopsAskOnce, StopMoves
<1>7. \A f \in In' : f.op = "interrupt" => pc'[f.id] \notin {"idle", "write"}
  <2> SUFFICES ASSUME NEW f \in In', f.op = "interrupt"
               PROVE  pc'[f.id] \notin {"idle", "write"}
    OBVIOUS
  <2>1. CASE \E a \in Stops : StopWrite(a) /\ f.id = a
    <3>1. pc' = [pc EXCEPT ![f.id] = "await"] /\ f.id \in Agents
      BY <2>1, AgentsDistinct DEF StopWrite, Goto
    <3> QED
      BY <3>1 DEF TypeInv, TypeOK
  <2> QED
    BY <1>5, <2>1, InMoves
<1>8. \A f \in Out' : f.op = "reply" /\ f.id \in Stops => pc'[f.id] \notin {"idle", "write"}
  <2> SUFFICES ASSUME NEW f \in Out', f.op = "reply", f.id \in Stops
               PROVE  pc'[f.id] \notin {"idle", "write"}
    OBVIOUS
  <2>1. CASE f \in Out
    BY <1>6, <2>1
  <2>2. CASE \E p \in Procs : CliRead(p) /\ CliInterrupt(p) /\ f.id = Head(stdin[p]).id
    <3>1. PICK p \in Procs : CliRead(p) /\ CliInterrupt(p) /\ f.id = Head(stdin[p]).id
      BY <2>2
    <3>2. Head(stdin[p]) \in In /\ Head(stdin[p]).op = "interrupt"
      BY <3>1, InRead DEF CliInterrupt
    <3> QED
      BY <1>5, <3>1, <3>2
  <2> QED
    BY <2>1, <2>2, OutMoves, AgentsDistinct, ConstantsAssumption
<1> QED
  BY <1>3, <1>5, <1>6, <1>7, <1>8 DEF StopsAskOnce, StopMoves

\* What was in order before a stop is written, or done, is so after.
LEMMA OrderStays ==
  ASSUME Base, StopsAskOnce, [Next]_vars, NEW p \in Procs
  PROVE  /\ Avoids(stdin[p], Overtaken) => Avoids(stdin[p], Overtaken')
         /\ Avoids(stdout[p], Revived) => Avoids(stdout[p], Revived')
<1> USE DEF Base
<1>1. /\ stdin[p] \in Seq(Frames) /\ stdout[p] \in Seq(Frames)
      /\ \A i \in 1 .. Len(stdin[p]) : stdin[p][i] \in In /\ stdin[p][i] \in Frames
      /\ \A i \in 1 .. Len(stdout[p]) : stdout[p][i] \in Out /\ stdout[p][i] \in Frames
  BY DEF TypeInv, TypeOK, In, Out, Carried
<1>2. \A f \in In, g \in Frames : <<f, g>> \in Overtaken' => <<f, g>> \in Overtaken
  <2> SUFFICES ASSUME NEW f \in In, NEW g \in Frames, <<f, g>> \in Overtaken'
               PROVE  <<f, g>> \in Overtaken
    OBVIOUS
  <2>1. f \in Frames /\ f.op = "interrupt" /\ g.op = "user" /\ g.id \in sentBefore'[f.id]
    BY DEF Overtaken
  <2>2. sentBefore'[f.id] \subseteq sentBefore[f.id]
    BY <2>1, StopsAskOnceInductive
  <2> QED
    BY <2>1, <2>2 DEF Overtaken
<1>3. \A f \in Out, g \in Frames : <<f, g>> \in Revived' => <<f, g>> \in Revived
  <2> SUFFICES ASSUME NEW f \in Out, NEW g \in Frames, <<f, g>> \in Revived'
               PROVE  <<f, g>> \in Revived
    OBVIOUS
  <2>1. /\ f \in Frames /\ f.op = "reply" /\ f.id \in Stops /\ g.op = "started"
        /\ g.id \in sentBefore'[f.id] \ f.of
    BY DEF Revived
  <2>2. sentBefore'[f.id] \subseteq sentBefore[f.id]
    BY <2>1, StopsAskOnceInductive
  <2> QED
    BY <2>1, <2>2 DEF Revived
<1> QED
  BY <1>1, <1>2, <1>3 DEF Avoids

\* No message that was sent before a stop gets to claude after it.
LEMMA OvertakenInductive ==
  ASSUME Base, StopsAskOnce, [Next]_vars, NEW p \in Procs, Avoids(stdin[p], Overtaken)
  PROVE  Avoids(stdin'[p], Overtaken')
<1> USE DEF Base
<1>1. Avoids(stdin[p], Overtaken') /\ \A bad : Avoids(<<>>, bad)
  BY OrderStays DEF Avoids
<1>2. CASE Idle \/ Reads
  BY <1>1, <1>2, IdlePipes DEF Reads, Receive
<1>3. CASE Works
  <2>1. PICK q \in Procs : CliRead(q) \/ CliStart(q) \/ CliRefuse(q)
    BY <1>3 DEF Works
  <2>2. CASE CliRead(q)
    BY <1>1, <2>2, InRead
  <2>3. CASE CliStart(q) \/ CliRefuse(q)
    BY <1>1, <2>3 DEF CliStart, CliRefuse
  <2> QED
    BY <2>1, <2>2, <2>3
<1>4. CASE \E u \in Uuids : SendUserMessage(u)
  <2>1. PICK u \in Uuids : SendUserMessage(u)
    BY <1>4
  <2> DEFINE f == Frame("user", u, {u})
  <2>2. /\ hold[u] \in Procs /\ Write(hold[u], f) /\ pc[u] = "send"
        /\ sentBefore' = sentBefore
    BY <2>1 DEF SendUserMessage, TypeInv, TypeOK, Goto, history
  <2>3. f \in Frames /\ f.op = "user" /\ f.id = u
    BY FrameTypes DEF Frame
  <2> HIDE DEF f
  <2>4. \A g \in In : <<g, f>> \notin Overtaken'
    <3>1. \A a \in Stops : u \notin sentBefore[a]
      BY <2>2 DEF StopsAskOnce
    <3>2. \A g \in In : g.op = "interrupt" => g.id \in Stops
      BY PipesCarry, FrameTypes
    <3> QED
      BY <2>2, <2>3, <3>1, <3>2 DEF Overtaken
  <2>5. Carried(stdin[p]) \subseteq In
    BY DEF In
  <2> QED
    BY <1>1, <2>2, <2>3, <2>4, <2>5, InWritten
<1>5. CASE (\E a \in Stops : StopWrite(a)) \/ \E c \in Cancels : CancelWrite(c)
  <2>1. PICK q \in Procs, f \in Frames : Write(q, f) /\ f.op # "user"
    <3>1. CASE \E a \in Stops : StopWrite(a)
      <4>1. PICK a \in Stops : StopWrite(a)
        BY <3>1
      <4>2. hold[a] \in Procs /\ Write(hold[a], Frame("interrupt", a, {}))
        BY <4>1 DEF StopWrite, TypeInv, TypeOK
      <4>3. Frame("interrupt", a, {}) \in Frames /\ Frame("interrupt", a, {}).op = "interrupt"
        BY FrameTypes DEF Frame
      <4> QED
        BY <4>2, <4>3
    <3>2. CASE \E c \in Cancels : CancelWrite(c)
      <4>1. PICK c \in Cancels : CancelWrite(c)
        BY <3>2
      <4>2. hold[c] \in Procs /\ Write(hold[c], Frame("cancel", c, arg[c])) /\ arg[c] \subseteq Uuids
        BY <4>1, AgentsDistinct DEF CancelWrite, TypeInv, TypeOK
      <4>3. Frame("cancel", c, arg[c]) \in Frames /\ Frame("cancel", c, arg[c]).op = "cancel"
        BY <4>2, FrameTypes DEF Frame
      <4> QED
        BY <4>2, <4>3
    <3> QED
      BY <1>5, <3>1, <3>2
  <2>2. \A g : <<g, f>> \notin Overtaken'
    BY <2>1 DEF Overtaken
  <2> QED
    BY <1>1, <2>1, <2>2, InWritten
<1> QED
  BY <1>2, <1>3, <1>4, <1>5, Traffic DEF Writes

\* What is on its way to claude or waiting there was neither started nor left
\* out of an answer; so what claude starts next is neither.
LEMMA StartedLast ==
  ASSUME Base, OnePlace, StopsAskOnce, AnswersRight, [Next]_vars,
         NEW p \in Procs, CliStart(p), NEW f \in Frames, f.op = "started", f.id \in pending[p]
  PROVE  \A g \in Out : <<g, f>> \notin Twice /\ <<g, f>> \notin Revived'
<1> USE DEF Base
<1>1. f.id \in Ahead /\ f.id \notin Started
  <2>1. f.id \in Ahead
    BY DEF Ahead, TypeInv, TypeOK
  <2>2. f.id \in Started => f.id \in Running
    BY <2>1 DEF Ahead, Started, Running
  <2> QED
    BY <2>1, <2>2 DEF OnePlace, Begun
<1>2. \A g \in Out : g.op = "started" => g.id \in Started
  BY PipesCarry, FrameTypes
<1>3. \A g \in Out : g.op = "reply" /\ g.id \in Stops => f.id \notin sentBefore[g.id] \ g.of
  BY <1>1 DEF AnswersRight
<1>4. sentBefore' = sentBefore
  BY DEF CliStart, history
<1> QED
  BY <1>1, <1>2, <1>3, <1>4 DEF Twice, Revived

\* What claude writes comes in order.
LEMMA OutInductive ==
  ASSUME Base, OnePlace, StopsAskOnce, AnswersRight, [Next]_vars,
         NEW p \in Procs, Avoids(stdout[p], Twice), Avoids(stdout[p], Revived)
  PROVE  Avoids(stdout'[p], Twice) /\ Avoids(stdout'[p], Revived')
<1> USE DEF Base
<1>1. Avoids(stdout[p], Revived')
  BY OrderStays
<1>2. CASE Idle \/ Writes
  BY <1>1, <1>2, IdlePipes DEF Writes, SendUserMessage, StopWrite, CancelWrite
<1>3. CASE Reads
  BY <1>1, <1>3, OutRead DEF Reads
<1>4. CASE Works
  <2>1. PICK q \in Procs : CliRead(q) \/ CliStart(q) \/ CliRefuse(q)
    BY <1>4 DEF Works
  <2>2. PICK fs \in Seq(Frames) :
           /\ Emit(q, fs)
           /\ \A f \in Carried(fs) :
                \/ f.op = "started" /\ CliStart(q) /\ Alone(f, fs) /\ f.id \in pending[q]
                \/ f.op # "started"
    BY <2>1, WorkWrites
  <2>3. CASE q # p
    BY <1>1, <2>2, <2>3, OutWritten
  <2>4. ASSUME q = p, NEW f \in Carried(fs), f.op = "started"
        PROVE  Avoids(stdout'[p], Twice) /\ Avoids(stdout'[p], Revived')
    <3>1. /\ CliStart(p) /\ f.id \in pending[p] /\ Carried(fs) = {f}
          /\ \A bad : Avoids(fs, bad)
      BY <2>2, <2>4 DEF Alone
    <3>2. f \in Frames /\ Carried(stdout[p]) \subseteq Out
      BY DEF Carried, Out
    <3>3. \A g \in Carried(stdout[p]) : <<g, f>> \notin Twice /\ <<g, f>> \notin Revived'
      BY <2>4, <3>1, <3>2, StartedLast
    <3> QED
      BY <1>1, <2>2, <2>4, <3>1, <3>3, OutWritten
  <2>5. ASSUME q = p, \A f \in Carried(fs) : f.op # "started"
        PROVE  Avoids(stdout'[p], Twice) /\ Avoids(stdout'[p], Revived')
    <3>1. \A f, g : g.op # "started" => <<f, g>> \notin Twice /\ <<f, g>> \notin Revived'
      BY DEF Twice, Revived
    <3>2. /\ \A f, g \in Carried(fs) : <<f, g>> \notin Twice /\ <<f, g>> \notin Revived'
          /\ \A f \in Carried(stdout[p]), g \in Carried(fs) :
               <<f, g>> \notin Twice /\ <<f, g>> \notin Revived'
      BY <2>5, <3>1
    <3>3. \A i \in 1 .. Len(fs) : fs[i] \in Carried(fs)
      BY DEF Carried
    <3>4. Avoids(fs, Twice) /\ Avoids(fs, Revived')
      BY <3>2, <3>3 DEF Avoids
    <3> QED
      BY <1>1, <2>2, <2>5, <3>2, <3>4, OutWritten
  <2> QED
    BY <2>3, <2>4, <2>5
<1> QED
  BY <1>2, <1>3, <1>4, Traffic

\* Where the messages claude has come from.
LEMMA OwedMoves ==
  ASSUME Base, SentOnce, OnePlace, HeldByProc, [Next]_vars
  PROVE  /\ Ahead' \subseteq Ahead \cup {u \in Uuids : SendUserMessage(u)}
         /\ Started' \subseteq Started \cup (Ahead \ Ahead')
<1> USE DEF Base
<1>1. Ahead' \subseteq Ahead \cup {u \in Uuids : SendUserMessage(u)}
  <2>1. CASE MovesOnward
    BY <2>1 DEF MovesOnward
  <2>2. CASE \E u \in Uuids : SendUserMessage(u)
    BY <2>2, SendMoves
  <2> QED
    BY <2>1, <2>2, MessagesMove
<1>2. Started' \subseteq Started \cup (Ahead \ Ahead')
  <2> SUFFICES ASSUME NEW u \in Started', u \notin Started
               PROVE  u \in Ahead \ Ahead'
    OBVIOUS
  <2>1. PICK f \in Out' : f.op = "started" /\ f.id = u /\ u \in Uuids
    <3>1. PICK p \in Procs : u \in StartedBy'[p]
      BY DEF Started
    <3>2. PICK i \in 1 .. Len(stdout'[p]) : /\ stdout'[p][i].op = "started"
                                            /\ stdout'[p][i].id = u /\ u \in Uuids
      BY <3>1 DEF StartedBy
    <3>3. stdout'[p][i] \in Out'
      BY <3>2 DEF Out, Carried
    <3> QED
      BY <3>2, <3>3
  <2>2. f \notin Out
    BY <2>1, PipesCarry
  <2>3. PICK p \in Procs : CliStart(p) /\ u \in pending[p]
    BY <2>1, <2>2, OutMoves
  <2>4. u \in Ahead
    BY <2>1, <2>3 DEF Ahead
  <2>5. u \notin Running /\ u \in Running'
    <3>1. u \in Running'
      BY <2>1 DEF Started, Running
    <3> QED
      BY <2>4, <3>1 DEF OnePlace, Begun
  <2>6. MovesOnward
    <3>1. pc' = pc
      BY <2>3 DEF CliStart, local
    <3>2. ~ \E v \in Uuids : SendUserMessage(v)
      BY <3>1, AgentsDistinct DEF SendUserMessage, Goto, TypeInv, TypeOK
    <3> QED
      BY <3>2, MessagesMove
  <2> QED
    BY <2>5, <2>6 DEF MovesOnward
<1> QED
  BY <1>1, <1>2

\* The answers stay right, and the stops learn them.
LEMMA AnswersInductive ==
  ASSUME Base, CancelInv, PipesOfProc, StopInv, [Next]_vars
  PROVE  AnswersRight'
<1> USE DEF Base, CancelInv, StopInv
<1>1. /\ Ahead' \subseteq Ahead \cup {u \in Uuids : pc[u] = "send"}
      /\ Started' \subseteq Started \cup Ahead
      /\ \A a \in Stops : sentBefore[a] \subseteq {u \in Uuids : pc[u] = "sent" /\ pc'[u] = "sent"}
  <2>1. \A u \in Uuids : SendUserMessage(u) => pc[u] = "send"
    BY DEF SendUserMessage, Goto
  <2>2. \A u \in Uuids : pc[u] = "sent" => pc'[u] = "sent"
    BY AllGoOn DEF GoesOn
  <2>3. \A a \in Stops : sentBefore[a] \subseteq {u \in Uuids : pc[u] = "sent"}
    BY DEF StopsAskOnce
  <2> QED
    BY <2>1, <2>2, <2>3, OwedMoves
<1>2. ASSUME NEW f \in Out', f.op = "reply", f.id \in Stops
      PROVE  (sentBefore'[f.id] \ f.of) \cap Ahead' = {}
  <2>1. CASE f \in Out
    <3>1. (sentBefore[f.id] \ f.of) \cap Ahead = {}
      BY <1>2, <2>1 DEF AnswersRight
    <3>2. sentBefore'[f.id] \subseteq sentBefore[f.id]
      BY <1>2, <2>1, StopsAskOnceInductive
    <3> QED
      BY <1>1, <1>2, <3>1, <3>2
  <2>2. CASE \E p \in Procs : /\ CliRead(p) /\ CliInterrupt(p)
                              /\ f.id = Head(stdin[p]).id /\ f.of = pending[p]
    <3>1. PICK p \in Procs : /\ CliRead(p) /\ CliInterrupt(p)
                             /\ f.id = Head(stdin[p]).id /\ f.of = pending[p]
      BY <2>2
    <3>2. /\ Head(stdin[p]).op = "interrupt" /\ Head(stdin[p]) \in Frames
          /\ pending' = pending /\ sentBefore' = sentBefore /\ stdin[p] # <<>>
      BY <3>1, InRead DEF CliInterrupt, CliRead, history
    <3>3. \A g \in Carried(stdin'[p]) : <<Head(stdin[p]), g>> \notin Overtaken
      BY <3>1, InRead DEF PipesInOrder
    <3>4. \A g \in Carried(stdin'[p]) : g \in Frames /\ g.op = "user" => g.id \notin sentBefore[f.id]
      BY <3>1, <3>2, <3>3 DEF Overtaken
    <3>5. p = proc
      BY <3>2 DEF PipesOfProc
    <3>6. HeldByProc'
      BY HeldByProcInductive
    <3>7. proc' = proc
      BY <3>1 DEF CliRead, session
    <3>8. \A q \in Procs : q # p => SentTo'[q] = {} /\ pending'[q] = {}
      BY <3>5, <3>6, <3>7 DEF HeldByProc, Held
    <3>9. \A u \in SentTo'[p] : u \notin sentBefore[f.id]
      <4> SUFFICES ASSUME NEW u \in SentTo'[p]
                   PROVE  u \notin sentBefore[f.id]
        OBVIOUS
      <4>1. PICK i \in 1 .. Len(stdin'[p]) : stdin'[p][i].op = "user" /\ stdin'[p][i].id = u
        BY DEF SentTo
      <4>2. stdin'[p][i] \in Frames
        <5>1. TypeInv'
          BY NextTypes
        <5>2. stdin'[p] \in Seq(Frames)
          BY <5>1 DEF TypeInv, TypeOK
        <5> QED
          BY <4>1, <5>2
      <4> QED
        BY <3>4, <4>1, <4>2 DEF Carried
    <3>10. \A u \in Ahead' : u \in SentTo'[p] \/ u \in pending[p]
      BY <3>2, <3>8 DEF Ahead
    <3> QED
      BY <3>1, <3>2, <3>9, <3>10
  <2> QED
    BY <1>2, <2>1, <2>2, OutMoves, AgentsDistinct, ConstantsAssumption
<1>3. ASSUME NEW a \in Stops, pc'[a] = "replied"
      PROVE  (sentBefore'[a] \ arg'[a]) \cap (Ahead' \cup Started') = {}
  <2>1. sentBefore'[a] \subseteq sentBefore[a]
    BY <1>3, StopsMove DEF StopMoves
  <2>2. CASE pc[a] = "replied" /\ arg'[a] = arg[a]
    <3>1. (sentBefore[a] \ arg[a]) \cap (Ahead \cup Started) = {}
      BY <2>2 DEF AnswersRight, Owed
    <3> QED
      BY <1>1, <2>1, <2>2, <3>1
  <2>3. CASE \E p \in Procs : /\ ScanReply(p) /\ Head(stdout[p]).id = a
                              /\ arg'[a] = Head(stdout[p]).of
    <3>1. PICK p \in Procs : /\ ScanReply(p) /\ Head(stdout[p]).id = a
                             /\ arg'[a] = Head(stdout[p]).of
      BY <2>3
    <3> DEFINE h == Head(stdout[p])
    <3>2. Receive(p, {"reply"}) /\ proc' = proc
      BY <3>1 DEF ScanReply, ScanReplyOf, session
    <3>3. h \in Out /\ h \in Frames /\ h.op = "reply" /\ stdout[p] # <<>>
      BY <3>2, OutRead
    <3>4. (sentBefore[a] \ h.of) \cap Ahead = {}
      BY <3>1, <3>3 DEF AnswersRight
    <3>5. \A g \in Carried(stdout'[p]) : <<h, g>> \notin Revived
      BY <3>2, OutRead DEF PipesInOrder
    <3>6. \A g \in Carried(stdout'[p]) : g \in Frames /\ g.op = "started" =>
            g.id \notin sentBefore[a] \ h.of
      BY <3>1, <3>3, <3>5 DEF Revived
    <3>7. p = proc
      BY <3>3 DEF PipesOfProc
    <3>8. \A q \in Procs : q # p => StartedBy'[q] = {}
      BY <3>2, <3>7, HeldByProcInductive DEF HeldByProc, Held
    <3>9. \A u \in StartedBy'[p] : u \notin sentBefore[a] \ h.of
      <4> SUFFICES ASSUME NEW u \in StartedBy'[p]
                   PROVE  u \notin sentBefore[a] \ h.of
        OBVIOUS
      <4>1. PICK i \in 1 .. Len(stdout'[p]) : stdout'[p][i].op = "started" /\ stdout'[p][i].id = u
        BY DEF StartedBy
      <4>2. stdout'[p][i] \in Frames
        <5>1. TypeInv'
          BY NextTypes
        <5>2. stdout'[p] \in Seq(Frames)
          BY <5>1 DEF TypeInv, TypeOK
        <5> QED
          BY <4>1, <5>2
      <4> QED
        BY <3>6, <4>1, <4>2 DEF Carried
    <3>10. \A u \in Started' : u \notin sentBefore[a] \ h.of
      BY <3>8, <3>9 DEF Started
    <3> QED
      BY <1>1, <2>1, <3>1, <3>4, <3>10
  <2> QED
    BY <1>3, <2>2, <2>3, StopsMove DEF StopMoves, StopWrite, Goto, TypeInv, TypeOK
<1>4. \A a \in Stops : sentBefore'[a] \subseteq {u \in Uuids : pc'[u] = "sent"}
  BY StopsAskOnceInductive DEF StopsAskOnce
<1>5. \A a \in Stops : pc'[a] = "replied" => (sentBefore'[a] \ arg'[a]) \cap Owed' = {}
  BY <1>3, <1>4 DEF Owed
<1> QED
  BY <1>2, <1>5 DEF AnswersRight

\* What claude says it dropped was waiting, and is nowhere after.
LEMMA DropsInductive ==
  ASSUME Base, CancelInv, DropsFinal, [Next]_vars
  PROVE  DropsFinal'
<1> USE DEF Base, CancelInv
<1>1. Finished \subseteq Finished'
  BY FinishedStays
<1> SUFFICES ASSUME NEW f \in Out', f.op \in {"cancelled", "refused"}, f.id \in Uuids
             PROVE  f.id \in Finished'
  BY DEF DropsFinal, Dropped
<1>2. CASE f \in Out
  BY <1>1, <1>2 DEF DropsFinal, Dropped
<1>3. ASSUME NEW p \in Procs, f.id \in pending[p], f.id \notin pending'[p],
             (CliRead(p) /\ CliCancel(p)) \/ CliRefuse(p)
      PROVE  f.id \in Finished'
  <2>1. f.id \in Ahead /\ pc[f.id] = "sent" /\ f.id \notin Begun
    BY <1>3 DEF Ahead, OnePlace
  <2>2. /\ \A q \in Procs : SentTo'[q] \subseteq SentTo[q]
        /\ Running' \subseteq Running
        /\ \A q \in Procs : Held'[q] \subseteq Held[q]
    <3>1. CASE CliRead(p) /\ CliCancel(p)
      <4>1. stdin[p] # <<>> /\ stdin' = [stdin EXCEPT ![p] = Tail(@)]
        BY <3>1 DEF CliRead
      <4> QED
        BY <3>1, <4>1, StdinRead, CancelMoves
    <3>2. CASE CliRefuse(p)
      BY <3>2, RefuseDrains DEF Draining, Held, Running
    <3> QED
      BY <1>3, <3>1, <3>2
  <2>3. f.id \notin SentTo[p]
    BY <1>3 DEF SentOnce
  <2>4. p = proc /\ \A q \in Procs : q # p => Held[q] = {}
    BY <1>3 DEF HeldByProc, Held
  <2>5. f.id \notin Ahead'
    <3>1. \A q \in Procs : q # p => Held'[q] = {}
      BY <2>2, <2>4
    <3> QED
      BY <1>3, <2>2, <2>3, <3>1 DEF Ahead, Held
  <2>6. local' = local /\ session' = session
    BY <1>3 DEF CliRead, CliRefuse
  <2>7. f.id \notin Begun'
    BY <2>1, <2>2, <2>6 DEF Begun, Rendering, local, session
  <2>8. pc'[f.id] = "sent"
    BY <2>1, <2>6 DEF local
  <2> QED
    BY <2>5, <2>7, <2>8 DEF Finished, Unsent
<1> QED
  BY <1>2, <1>3, OutMoves

\* So every step keeps what stops rest on.
LEMMA StopsInductive ==
  ASSUME Base, CancelInv, PipesOfProc, StopInv, [Next]_vars
  PROVE  StopInv'
<1> USE DEF StopInv, CancelInv
<1>1. StopsAskOnce' /\ AnswersRight' /\ DropsFinal'
  BY StopsAskOnceInductive, AnswersInductive, DropsInductive
<1>2. PipesInOrder'
  <2>1. ASSUME NEW p \in Procs
        PROVE  /\ Avoids(stdin'[p], Overtaken')
               /\ Avoids(stdout'[p], Twice)
               /\ Avoids(stdout'[p], Revived')
    BY OvertakenInductive, OutInductive DEF PipesInOrder
  <2>2. Twice' = Twice
    BY DEF Twice
  <2> QED
    BY <2>1, <2>2 DEF PipesInOrder
<1> QED
  BY <1>1, <1>2

-----------------------------------------------------------------------------
(* Entries.                                                                *)

\* What is on the pipes after a step.
LEMMA PipesCarryNext ==
  /\ \A u \in Uuids : (\E f \in In' : f.op = "user" /\ f.id = u) => u \in Ahead'
  /\ \A u \in Uuids, p \in Procs : u \in pending'[p] => u \in Ahead'
  /\ \A u \in Uuids : (\E f \in Out' : f.op = "started" /\ f.id = u) => u \in Started'
<1>1. ASSUME NEW u \in Uuids, NEW f \in In', f.op = "user", f.id = u
      PROVE  u \in Ahead'
  <2>1. PICK p \in Procs : \E i \in 1 .. Len(stdin'[p]) : f = stdin'[p][i]
    BY <1>1 DEF In, Carried
  <2> QED
    BY <1>1, <2>1 DEF Ahead, SentTo
<1>2. ASSUME NEW u \in Uuids, NEW f \in Out', f.op = "started", f.id = u
      PROVE  u \in Started'
  <2>1. PICK p \in Procs : \E i \in 1 .. Len(stdout'[p]) : f = stdout'[p][i]
    BY <1>2 DEF Out, Carried
  <2> QED
    BY <1>2, <2>1 DEF Started, StartedBy
<1>3. ASSUME NEW u \in Uuids, NEW p \in Procs, u \in pending'[p]
      PROVE  u \in Ahead'
  BY <1>3 DEF Ahead
<1> QED
  BY <1>1, <1>2, <1>3

\* A sender about to write does so or fails; one that has registered nothing
\* registers its message or fails.
LEMMA SendersMove ==
  ASSUME Base, FailuresMarked, [Next]_vars, NEW u \in Uuids
  PROVE  /\ u \in Writing => u \in Writing' \/ SendUserMessage(u) \/ SendFails(u)
         /\ pc[u] \in Unsent => pc'[u] \in Unsent \cup {"failed"} \/ AddQueued(u)
<1> USE AgentsDistinct DEF Base, TypeInv, TypeOK, Goto, session, local, Writing, Unsent
<1>1. ASSUME pc'[u] = pc[u] /\ arg'[u] = arg[u]
      PROVE  /\ u \in Writing => u \in Writing'
             /\ pc[u] \in Unsent => pc'[u] \in Unsent
  BY <1>1
<1>2. CASE \E v \in Uuids : SendBegin(v) \/ SendStep(v) \/ StartFails(v)
  <2>1. PICK v \in Uuids : SendBegin(v) \/ SendStep(v) \/ StartFails(v)
    BY <1>2
  <2>2. CASE u # v
    <3>1. pc'[u] = pc[u] /\ arg'[u] = arg[u]
      BY <2>1, <2>2, ConstantsAssumption
      DEF SendBegin, SendStep, StartFails, StartFailsKilling, EnsureLive, EnsureFails,
          EnsureStart, StartProcess, SetProc, AnnounceStart, AnnounceStartAs, AddQueued,
          SendUserMessage, SendFails, SendFailsDropping, StartsSome
    <3> QED
      BY <1>1, <3>1
  <2>3. CASE u = v /\ (SendUserMessage(u) \/ SendFails(u) \/ AddQueued(u))
    BY <2>3 DEF SendUserMessage, SendFails, SendFailsDropping, AddQueued
  <2>4. CASE u = v /\ ~ (SendUserMessage(u) \/ SendFails(u) \/ AddQueued(u))
    BY <2>1, <2>4, ConstantsAssumption
    DEF SendBegin, SendStep, StartFails, StartFailsKilling, EnsureLive, EnsureFails,
        EnsureStart, StartProcess, SetProc, AnnounceStart, AnnounceStartAs, StartsSome
  <2> QED
    BY <2>1, <2>2, <2>3, <2>4
<1>3. CASE \E a \in Stops : StopBegin(a) \/ StopStep(a)
  BY <1>1, <1>3 DEF StopBegin, StopStep, StopWrite, StopReconcile, StopReconcileTo, RequestFails
<1>4. CASE \E c \in Cancels : CancelStep(c) \/ \E v \in Uuids : CancelBegin(c, v)
  BY <1>1, <1>4 DEF CancelStep, CancelBegin, CancelWrite, CancelResolve, RequestFails
<1>5. CASE \E p \in Procs : ScanReply(p)
  <2>1. PICK p \in Procs : ScanReply(p)
    BY <1>5
  <2> DEFINE id == Head(stdout[p]).id
  <2>2. id \in Requests
    BY <2>1, FrameTypes DEF ScanReply, ScanReplyOf, Receive
  <2>3. \/ pc' = pc /\ arg' = arg
        \/ /\ pc' = [pc EXCEPT ![id] = "replied"]
           /\ arg' = [arg EXCEPT ![id] = Head(stdout[p]).of]
    BY <2>1 DEF ScanReply, ScanReplyOf
  <2> HIDE DEF id
  <2>4. pc'[u] = pc[u] /\ arg'[u] = arg[u]
    BY <2>2, <2>3
  <2> QED
    BY <1>1, <2>4
<1>6. CASE \E p \in Procs : TakeQueued(p) \/ RenderStarted(p) \/ ScanDropped(p) \/ ScanEof(p)
  BY <1>1, <1>6 DEF TakeQueued, TakeQueuedFrom, RenderStarted, ScanDropped, ScanEof
<1>7. CASE \E p \in Procs : WatchStep(p) \/ CliStep(p) \/ CliRefuse(p) \/ CliExit(p)
  BY <1>1, <1>7 DEF WatchStep, WatchCheck, WatchClear, WatchEnd, CliStep, CliRead, CliStart,
                    CliFinish, CliRefuse, CliExit
<1>8. CASE \E a \in Agents : Push(a)
  <2>1. PICK a \in Agents : Push(a)
    BY <1>8
  <2>2. arg' = arg /\ (a # u => pc'[u] = pc[u])
    BY <2>1 DEF Push, PushStart, PushRead, PushAppend
  <2>3. CASE a = u
    <3>1. pc[u] \notin Unsent
      BY <2>1, <2>3 DEF Push, PushStart, PushRead, PushAppend
    <3>2. u \in Writing => arg[u] = {}
      BY DEF FailuresMarked
    <3>3. u \in Writing => pc'[u] \in {"push", "send"}
      BY <2>1, <2>3, <3>2 DEF Push, PushStart, PushRead, PushAppend, AfterPush
    <3> QED
      BY <2>2, <3>1, <3>2, <3>3
  <2> QED
    BY <1>1, <2>2, <2>3
<1>9. CASE Close \/ UNCHANGED vars
  BY <1>1, <1>9 DEF Close, vars
<1> QED
  BY <1>2, <1>3, <1>4, <1>5, <1>6, <1>7, <1>8, <1>9 DEF Next, ScanStep

\* Who puts an entry into the queue, and who takes it out.
LEMMA EntriesLeave ==
  ASSUME Base, [Next]_vars
  PROVE  /\ exposed \subseteq exposed'
         /\ \A u \in queue' \ queue : AddQueued(u)
         /\ \A u \in queue \ queue' :
              \/ SendFails(u)
              \/ \E a \in Stops : StopReconcile(a) /\ u \notin arg[a]
              \/ \E c \in Cancels : CancelResolve(c) /\ u \in arg[c]
              \/ \E p \in Procs : \/ TakeQueued(p) /\ Head(stdout[p]).id = u /\ u \in queue
                                  \/ ScanDropped(p) /\ Head(stdout[p]).id = u
                                  \/ WatchClear(p)
<1> USE DEF Base, session, history
<1>1. ASSUME queue' = queue /\ exposed' = exposed
      PROVE  exposed \subseteq exposed' /\ queue \ queue' = {} /\ queue' \ queue = {}
  BY <1>1
<1>2. CASE UNCHANGED vars
  BY <1>1, <1>2 DEF vars
<1>3. CASE \E u \in Uuids : SendBegin(u) \/ SendStep(u) \/ StartFails(u)
  <2>1. PICK u \in Uuids : SendBegin(u) \/ SendStep(u) \/ StartFails(u)
    BY <1>3
  <2>2. CASE SendFails(u)
    BY <2>2 DEF SendFails, SendFailsDropping
  <2>3. CASE ~ SendFails(u)
    <3>1. /\ queue \subseteq queue' /\ exposed' = exposed
          /\ queue' = queue \/ (queue' = queue \cup {u} /\ AddQueued(u))
      BY <2>1, <2>3
      DEF SendBegin, SendStep, StartFails, StartFailsKilling, EnsureLive, EnsureFails, EnsureStart,
          StartProcess, SetProc, AnnounceStart, AnnounceStartAs, AddQueued, SendUserMessage
    <3> QED
      BY <3>1
  <2> QED
    BY <2>2, <2>3
<1>4. CASE \E a \in Stops : StopBegin(a) \/ StopStep(a)
  <2>1. CASE \E a \in Stops : StopReconcile(a)
    BY <2>1 DEF StopReconcile, StopReconcileTo
  <2>2. CASE \E a \in Stops : StopBegin(a) \/ StopWrite(a) \/ RequestFails(a, "done")
    BY <1>1, <2>2 DEF StopBegin, StopWrite, RequestFails
  <2> QED
    BY <1>4, <2>1, <2>2 DEF StopStep
<1>5. CASE \E c \in Cancels : CancelStep(c) \/ \E u \in Uuids : CancelBegin(c, u)
  <2>1. CASE \E c \in Cancels : CancelResolve(c)
    BY <2>1 DEF CancelResolve
  <2>2. CASE \E c \in Cancels : \/ CancelWrite(c) \/ RequestFails(c, "cancelPush")
                                \/ \E u \in Uuids : CancelBegin(c, u)
    BY <1>1, <2>2 DEF CancelBegin, CancelWrite, RequestFails
  <2> QED
    BY <1>5, <2>1, <2>2 DEF CancelStep
<1>6. CASE \E p \in Procs : ScanStep(p)
  <2>1. PICK p \in Procs : ScanStep(p)
    BY <1>6
  <2>2. CASE ScanReply(p) \/ RenderStarted(p) \/ ScanEof(p)
    BY <1>1, <2>2 DEF ScanReply, ScanReplyOf, RenderStarted, ScanEof
  <2>3. CASE TakeQueued(p)
    <3>1. /\ exposed' = exposed
          /\ queue' = queue \/ (queue' = queue \ {Head(stdout[p]).id} /\ Head(stdout[p]).id \in queue)
      BY <2>3 DEF TakeQueued, TakeQueuedFrom
    <3> QED
      BY <2>3, <3>1
  <2>4. CASE ScanDropped(p)
    <3>1. exposed' = exposed /\ queue' = queue \ {Head(stdout[p]).id}
      BY <2>4 DEF ScanDropped
    <3> QED
      BY <2>4, <3>1
  <2> QED
    BY <2>1, <2>2, <2>3, <2>4 DEF ScanStep
<1>7. CASE \E p \in Procs : WatchStep(p)
  <2>1. CASE \E p \in Procs : WatchClear(p)
    BY <2>1 DEF WatchClear
  <2>2. CASE \E p \in Procs : WatchCheck(p) \/ WatchEnd(p)
    BY <1>1, <2>2 DEF WatchCheck, WatchEnd
  <2> QED
    BY <1>7, <2>1, <2>2 DEF WatchStep
<1>8. CASE \E p \in Procs : CliStep(p) \/ CliRefuse(p) \/ CliExit(p)
  BY <1>1, <1>8 DEF CliStep, CliRead, CliStart, CliFinish, CliRefuse, CliExit
<1>9. CASE (\E a \in Agents : Push(a)) \/ Close
  BY <1>1, <1>9 DEF Push, PushStart, PushRead, PushAppend, Close
<1> QED
  BY <1>2, <1>3, <1>4, <1>5, <1>6, <1>7, <1>8, <1>9 DEF Next

\* What claude has it had, or its handler has just registered it.
LEMMA OwedGrows ==
  ASSUME Base, CancelInv, FailuresMarked, [Next]_vars, NEW u \in Owed'
  PROVE  u \in Uuids /\ (u \in Owed \/ AddQueued(u))
<1> USE DEF Base, CancelInv
<1>1. u \in Uuids
  BY DEF Owed, Ahead, Started, StartedBy
<1>2. CASE u \in Ahead' \cup Started'
  <2>1. u \in Ahead \cup Started \/ SendUserMessage(u)
    BY <1>2, OwedMoves
  <2>2. SendUserMessage(u) => u \in Owed
    BY <1>1 DEF SendUserMessage, Goto, Owed, Unsent
  <2> QED
    BY <1>1, <2>1, <2>2 DEF Owed
<1>3. CASE pc'[u] \notin Unsent \cup {"sent", "failed"} /\ hold'[u] \in alive'
  <2>1. CASE pc[u] \notin Unsent
    BY <1>1, <1>3, <2>1, AllGoOn DEF GoesOn, Owed
  <2>2. CASE pc[u] \in Unsent
    BY <1>1, <1>3, <2>2, SendersMove
  <2> QED
    BY <2>1, <2>2
<1>4. Unsent' = Unsent
  BY DEF Unsent
<1> QED
  BY <1>2, <1>3, <1>4 DEF Owed

\* A message that is finished, or was left out of an answer, is not claude's.
LEMMA FinishedNotOwed ==
  Finished \cap Owed = {}
BY DEF Finished, Owed, Begun, Running, Started

\* When the session's process is dead, nobody's is.
LEMMA NothingOwedToTheDead ==
  ASSUME Base, HeldByProc, proc \in dead
  PROVE  Owed = {}
<1> USE DEF Base
<1>1. \A p \in Procs : SentTo[p] = {} /\ pending[p] = {} /\ StartedBy[p] = {}
  BY DeadHoldsNothing DEF Held
<1>2. Ahead = {} /\ Started = {}
  BY <1>1 DEF Ahead, Started
<1>3. ASSUME NEW u \in Uuids, pc[u] \notin Unsent \cup {"sent", "failed"}, hold[u] \in alive
      PROVE  FALSE
  <2>1. u \in InSend /\ pc[u] # "init"
    BY <1>3 DEF InSend, Unsent
  <2>2. ~ \E v \in Uuids : pc[v] = "init"
    <3>1. \A v \in Uuids : pc[v] = "init" => v \in InSend
      BY DEF InSend
    <3> QED
      BY <2>1, <3>1 DEF OneCli, OneSend
  <2>3. hold[u] = proc
    BY <1>3, <2>2 DEF OneCli, AliveHasAnOwner
  <2> QED
    BY <1>3, <2>3 DEF OneCli
<1> QED
  BY <1>2, <1>3 DEF Owed

\* Every message claude has, or is about to get, keeps its entry.
LEMMA EntriesKeptInductive ==
  ASSUME Base, CancelInv, WatchersRight, PipesOfProc, StopInv, FailuresMarked, EntriesKept,
         [Next]_vars
  PROVE  EntriesKept'
<1> USE DEF Base, CancelInv, StopInv
<1> SUFFICES ASSUME NEW u \in Owed', u \notin exposed'
             PROVE  u \in queue'
  BY DEF EntriesKept
<1>1. u \in Uuids /\ (u \in Owed \/ AddQueued(u))
  BY OwedGrows
<1>2. /\ OnePlace' /\ HeldByProc' /\ Finished \subseteq Finished' /\ TypeInv'
  BY OnePlaceInductive, HeldByProcInductive, FinishedStays, NextTypes
<1>3. u \notin Finished'
  <2>1. Finished' \cap Owed' = {}
    BY DEF Finished, Owed, Begun, Running, Started
  <2> QED
    BY <2>1
<1>4. CASE AddQueued(u)
  BY <1>4 DEF AddQueued
<1>5. CASE u \in Owed /\ u \notin queue'
  <2>1. u \in queue \ queue'
    BY <1>5, EntriesLeave DEF EntriesKept
  <2>2. ~ SendFails(u)
    <3> SUFFICES ASSUME SendFails(u)
                 PROVE  FALSE
      OBVIOUS
    <3>1. pc'[u] = "failPush" /\ hold'[u] = NoProc
      BY <1>1, AgentsDistinct DEF SendFails, SendFailsDropping, Goto, Release, TypeInv, TypeOK
    <3>2. hold'[u] \notin alive'
      BY <1>2, <3>1, ProcsAreNumbers DEF TypeInv, TypeOK
    <3>3. u \notin Ahead' \cup Begun'
      BY <1>2, <3>1 DEF OnePlace
    <3>4. u \notin Started'
      BY <1>1, <3>3 DEF Begun, Running, Started
    <3> QED
      BY <3>2, <3>3, <3>4 DEF Owed
  <2>3. ~ \E a \in Stops : StopReconcile(a) /\ u \notin arg[a]
    <3> SUFFICES ASSUME NEW a \in Stops, StopReconcile(a), u \notin arg[a]
                 PROVE  FALSE
      OBVIOUS
    <3>1. pc[a] = "replied" /\ exposed' = exposed \cup (queue \ sentBefore[a])
      BY DEF StopReconcile, StopReconcileTo, Goto
    <3>2. u \in sentBefore[a]
      BY <2>1, <3>1
    <3> QED
      BY <1>5, <3>1, <3>2 DEF AnswersRight
  <2>4. ~ \E c \in Cancels : CancelResolve(c) /\ u \in arg[c]
    BY <1>2, <1>3 DEF CancelResolve, CancelsHold
  <2>5. ~ \E p \in Procs : TakeQueued(p) /\ Head(stdout[p]).id = u /\ u \in queue
    <3> SUFFICES ASSUME NEW p \in Procs, TakeQueued(p), Head(stdout[p]).id = u, u \in queue
                 PROVE  FALSE
      OBVIOUS
    <3> DEFINE h == Head(stdout[p])
    <3>1. Receive(p, {"started"}) /\ proc' = proc
      BY DEF TakeQueued, TakeQueuedFrom
    <3>2. h \in Out /\ h \in Frames /\ h.op = "started" /\ h.id = u /\ stdout[p] # <<>>
      BY <3>1, OutRead
    <3>3. u \in Started /\ u \in Running
      <4>1. u \in Started
        BY <1>1, <3>2, PipesCarry
      <4> QED
        BY <1>1, <4>1 DEF Started, Running
    <3>4. u \notin Ahead /\ pc[u] = "sent"
      BY <3>3 DEF OnePlace, Begun
    <3>5. u \notin Ahead'
      <4>1. ~ SendUserMessage(u)
        BY <3>4 DEF SendUserMessage, Goto
      <4> QED
        BY <3>4, <4>1, OwedMoves
    <3>6. pc'[u] = "sent"
      BY <1>1, <3>4, AllGoOn DEF GoesOn
    <3>7. \A g \in Carried(stdout'[p]) : <<h, g>> \notin Twice
      BY <3>1, OutRead DEF PipesInOrder
    <3>8. p = proc
      BY <3>2 DEF PipesOfProc
    <3>9. \A q \in Procs : q # p => StartedBy'[q] = {}
      BY <1>2, <3>1, <3>8 DEF HeldByProc, Held
    <3>10. u \notin StartedBy'[p]
      <4> SUFFICES ASSUME u \in StartedBy'[p]
                   PROVE  FALSE
        OBVIOUS
      <4>1. PICK i \in 1 .. Len(stdout'[p]) : stdout'[p][i].op = "started" /\ stdout'[p][i].id = u
        BY DEF StartedBy
      <4>2. stdout'[p] \in Seq(Frames)
        BY <1>2 DEF TypeInv, TypeOK
      <4>3. stdout'[p][i] \in Frames /\ stdout'[p][i] \in Carried(stdout'[p])
        BY <4>1, <4>2 DEF Carried
      <4> QED
        BY <3>2, <3>7, <4>1, <4>3 DEF Twice
    <3>11. u \notin Started'
      BY <3>9, <3>10 DEF Started
    <3> QED
      BY <3>5, <3>6, <3>11 DEF Owed
  <2>6. ~ \E p \in Procs : ScanDropped(p) /\ Head(stdout[p]).id = u
    <3> SUFFICES ASSUME NEW p \in Procs, ScanDropped(p), Head(stdout[p]).id = u
                 PROVE  FALSE
      OBVIOUS
    <3>1. Head(stdout[p]) \in Out /\ Head(stdout[p]).op \in {"cancelled", "refused"}
      BY OutRead DEF ScanDropped
    <3>2. u \in Dropped
      BY <1>1, <3>1 DEF Dropped
    <3> QED
      BY <1>2, <1>3, <3>2 DEF DropsFinal
  <2>7. ~ \E p \in Procs : WatchClear(p)
    <3> SUFFICES ASSUME NEW p \in Procs, WatchClear(p)
                 PROVE  FALSE
      OBVIOUS
    <3>1. p = proc /\ p \in dead
      BY DEF WatchClear, Goto, WatchersRight
    <3> QED
      BY <1>5, <3>1, NothingOwedToTheDead
  <2> QED
    BY <2>1, <2>2, <2>3, <2>4, <2>5, <2>6, <2>7, EntriesLeave
<1> QED
  BY <1>1, <1>4, <1>5

\* So a started frame that finds no entry was exposed to a stop.
LEMMA IgnoredInductive ==
  ASSUME Base, EntriesKept, BubbleLostOnlyToOverlappingStop, [Next]_vars
  PROVE  BubbleLostOnlyToOverlappingStop'
<1> USE DEF Base, BubbleLostOnlyToOverlappingStop
<1>1. exposed \subseteq exposed'
  BY EntriesLeave
<1>2. CASE \E p \in Procs : TakeQueued(p)
  <2>1. PICK p \in Procs : TakeQueued(p)
    BY <1>2
  <2> DEFINE u == Head(stdout[p]).id
  <2>2. Receive(p, {"started"}) /\ ignored' \subseteq ignored \cup ({u} \ queue)
    BY <2>1 DEF TakeQueued, TakeQueuedFrom
  <2>3. u \in Started
    BY <2>2, OutRead, PipesCarry, FrameTypes
  <2>4. u \in queue \cup exposed
    BY <2>3 DEF EntriesKept, Owed
  <2> QED
    BY <1>1, <2>2, <2>4
<1>3. CASE ~ \E p \in Procs : TakeQueued(p)
  <2>1. ignored' = ignored
    <3> USE DEF history, session, local, cli
    <3>1. CASE UNCHANGED vars
      BY <3>1 DEF vars
    <3>2. CASE \E u \in Uuids : SendBegin(u) \/ SendStep(u) \/ StartFails(u)
      BY <3>2
      DEF SendBegin, SendStep, StartFails, StartFailsKilling, EnsureLive, EnsureFails, EnsureStart,
          StartProcess, SetProc, AnnounceStart, AnnounceStartAs, AddQueued, SendUserMessage,
          SendFails, SendFailsDropping
    <3>3. CASE \E a \in Stops : StopBegin(a) \/ StopStep(a)
      BY <3>3 DEF StopBegin, StopStep, StopWrite, StopReconcile, StopReconcileTo, RequestFails
    <3>4. CASE \E c \in Cancels : CancelStep(c) \/ \E u \in Uuids : CancelBegin(c, u)
      BY <3>4 DEF CancelBegin, CancelStep, CancelWrite, CancelResolve, RequestFails
    <3>5. CASE \E p \in Procs : ScanStep(p) \/ WatchStep(p)
      BY <1>3, <3>5 DEF ScanStep, ScanReply, ScanReplyOf, RenderStarted, ScanDropped, ScanEof,
                        WatchStep, WatchCheck, WatchClear, WatchEnd
    <3>6. CASE \E p \in Procs : CliStep(p) \/ CliRefuse(p) \/ CliExit(p)
      BY <3>6 DEF CliStep, CliRead, CliStart, CliFinish, CliRefuse, CliExit
    <3>7. CASE (\E a \in Agents : Push(a)) \/ Close
      BY <3>7 DEF Push, PushStart, PushRead, PushAppend, Close
    <3> QED
      BY <3>1, <3>2, <3>3, <3>4, <3>5, <3>6, <3>7 DEF Next
  <2> QED
    BY <1>1, <2>1
<1> QED
  BY <1>2, <1>3

-----------------------------------------------------------------------------
(* Rows of messages that are not waiting.                                  *)

\* A step that ends a CLI leaves the watchers and the session's process alone.
LEMMA AliveStays ==
  ASSUME Base, [Next]_vars
  PROVE  \/ alive \subseteq alive'
         \/ /\ proc' = proc /\ dead' = dead
            /\ \A p \in Procs : pc'[Watcher(p)] = pc[Watcher(p)]
<1> USE AgentsDistinct DEF Base, TypeInv, TypeOK, Goto, session, local, cli
<1>1. CASE alive' = alive
  BY <1>1
<1>2. CASE \E u \in Uuids : SendBegin(u) \/ SendStep(u) \/ StartFails(u)
  <2>1. PICK u \in Uuids : SendBegin(u) \/ SendStep(u) \/ StartFails(u)
    BY <1>2
  <2>2. CASE StartFails(u)
    BY <2>2 DEF StartFails, StartFailsKilling, Gone
  <2>3. CASE SendBegin(u) \/ SendStep(u)
    BY <2>3
    DEF SendBegin, SendStep, EnsureLive, EnsureFails, EnsureStart, StartProcess, SetProc,
        AnnounceStart, AnnounceStartAs, AddQueued, SendUserMessage, SendFails, SendFailsDropping
  <2> QED
    BY <2>1, <2>2, <2>3
<1>3. CASE \E a \in Stops : StopBegin(a) \/ StopStep(a)
  BY <1>1, <1>3 DEF StopBegin, StopStep, StopWrite, StopReconcile, StopReconcileTo, RequestFails
<1>4. CASE \E c \in Cancels : CancelStep(c) \/ \E u \in Uuids : CancelBegin(c, u)
  BY <1>1, <1>4 DEF CancelBegin, CancelStep, CancelWrite, CancelResolve, RequestFails
<1>5. CASE \E p \in Procs : ScanStep(p) \/ WatchStep(p)
  BY <1>1, <1>5 DEF ScanStep, ScanReply, ScanReplyOf, TakeQueued, TakeQueuedFrom, RenderStarted,
                    ScanDropped, ScanEof, Receive, WatchStep, WatchCheck, WatchClear, WatchEnd
<1>6. CASE \E p \in Procs : CliStep(p) \/ CliRefuse(p)
  BY <1>1, <1>6 DEF CliStep, CliRead, CliStart, CliFinish, CliRefuse
<1>7. CASE (\E p \in Procs : CliExit(p)) \/ Close
  BY <1>7 DEF CliExit, Close, Gone
<1>8. CASE (\E a \in Agents : Push(a)) \/ UNCHANGED vars
  BY <1>1, <1>8 DEF Push, PushStart, PushRead, PushAppend, vars
<1> QED
  BY <1>2, <1>3, <1>4, <1>5, <1>6, <1>7, <1>8 DEF Next

\* The end of the session's process brings its watcher on.
LEMMA ProcDies ==
  ASSUME Base, WatchersRight, [Next]_vars, proc \in alive, proc \notin alive'
  PROVE  Clearing'
<1> USE DEF Base
<1>1. proc' = proc /\ pc'[Watcher(proc)] = pc[Watcher(proc)] /\ proc \in Procs /\ proc \notin dead
  BY AliveStays DEF TypeInv, TypeOK, OneCli
<1>2. pc[Watcher(proc)] \in {"off", "wait"}
  BY <1>1 DEF WatchersRight
<1> QED
  BY <1>1, <1>2, ProcsAreNumbers DEF Clearing

\* The watcher that is to clear the queue does.
LEMMA ClearingGoesOn ==
  ASSUME Base, HeldByProc, "lateWatcher" \notin Faults, WatchersRight, ToldRight, Clearing,
         [Next]_vars
  PROVE  Clearing' \/ queue' = {}
<1> USE AgentsDistinct, ProcsAreNumbers DEF Base
<1>1. proc \in Procs /\ proc \notin alive /\ pc[Watcher(proc)] \in {"off", "wait", "clear"}
  BY DEF Clearing, TypeInv, TypeOK
<1>2. ~ \E u \in Uuids : SetProc(u)
  BY <1>1, SetProcKeepsWatchers
<1>3. proc' = proc
  BY <1>2, ScannersInductive, SendLasts, OthersLast DEF ProcessesLast, Next
<1>4. proc \notin alive'
  <2>1. CASE \E u \in Uuids : StartProcess(u)
    <3>1. PICK u \in Uuids : pc[u] = "start" /\ alive' = alive \cup {hold[u]}
      BY <2>1 DEF StartProcess
    <3> QED
      BY <1>1, <3>1 DEF OneCli, StartsAfresh, Starting
  <2>2. CASE alive' \subseteq alive
    BY <1>1, <2>2
  <2> QED
    BY <2>1, <2>2, SendLasts, OthersLast DEF ProcessesLast, Next
<1>5. CASE WatchersStay
  BY <1>1, <1>3, <1>4, <1>5 DEF WatchersStay, Reporting, Clearing
<1>6. CASE \E u \in Uuids : EnsureStart(u)
  <2>1. pc'[Watcher(proc)] = pc[Watcher(proc)]
    BY <1>1, <1>6 DEF EnsureStart, Goto, TypeInv, TypeOK
  <2> QED
    BY <1>1, <1>3, <1>4, <2>1 DEF Clearing
<1>7. CASE \E u \in Uuids : AnnounceStart(u)
  <2>1. PICK u \in Uuids : pc' = [pc EXCEPT ![u] = "add", ![Watcher(hold[u])] = "wait"]
    BY <1>7 DEF AnnounceStart, AnnounceStartAs
  <2>2. pc'[Watcher(proc)] \in {pc[Watcher(proc)], "wait"}
    BY <1>1, <2>1 DEF TypeInv, TypeOK
  <2> QED
    BY <1>1, <1>3, <1>4, <2>2 DEF Clearing
<1>8. CASE \E p \in Procs : WatchCheck(p)
  <2>1. PICK p \in Procs : WatchCheck(p)
    BY <1>8
  <2>2. p = proc
    BY <2>1, WatchKeepsWatchers
  <2>3. pc'[Watcher(proc)] = "clear"
    BY <1>1, <2>1, <2>2 DEF WatchCheck, Goto, TypeInv, TypeOK
  <2> QED
    BY <1>1, <1>3, <1>4, <2>3 DEF Clearing
<1>9. CASE \E p \in Procs : WatchEnd(p)
  <2>1. PICK p \in Procs : WatchEnd(p)
    BY <1>9
  <2>2. p = proc /\ pc[Watcher(p)] = "end"
    BY <2>1, WatchKeepsWatchers DEF WatchEnd, Goto
  <2> QED
    BY <1>1, <2>2
<1>10. CASE \E p \in Procs : WatchClear(p)
  BY <1>10 DEF WatchClear
<1>11. \/ WatchersStay
       \/ \E u \in Uuids : EnsureStart(u) \/ SetProc(u) \/ AnnounceStart(u)
       \/ \E p \in Procs : WatchCheck(p) \/ WatchEnd(p)
  BY SendWatchersStay, OthersWatchersStay DEF Next, SendStep, WatchStep
<1> QED
  BY <1>2, <1>5, <1>6, <1>7, <1>8, <1>9, <1>10, <1>11

\* A message leaves claude's queue with a word, or when claude ends.
LEMMA AheadLeaves ==
  ASSUME Base, HeldByProc, WatchersRight, CancelsOne, [Next]_vars, NEW u \in Ahead
  PROVE  u \in Ahead' \cup Started' \cup Dropped' \/ Clearing'
<1> USE DEF Base
<1>1. u \in Uuids /\ ((\E f \in In : f.op = "user" /\ f.id = u) \/ \E p \in Procs : u \in pending[p])
  BY PipesCarry
<1>2. CASE UNCHANGED <<stdin, pending>>
  BY <1>2 DEF Ahead, SentTo
<1>3. CASE Idle
  <2>1. PICK p \in Procs : u \in SentTo[p] \cup pending[p]
    BY DEF Ahead
  <2>2. p = proc /\ p \in alive
    <3>1. SentTo[p] # {} => stdin[p] # <<>>
      BY DEF SentTo
    <3> QED
      BY <2>1, <3>1 DEF HeldByProc, Held
  <2>3. ASSUME NEW ps, Gone(ps)
        PROVE  u \in Ahead' \/ proc \notin alive'
    <3>1. CASE p \in ps
      BY <2>2, <2>3, <3>1 DEF Gone
    <3>2. CASE p \notin ps
      <4>1. stdin'[p] = stdin[p] /\ pending'[p] = pending[p]
        BY <2>3, <3>2 DEF Gone
      <4> QED
        BY <1>1, <2>1, <4>1 DEF Ahead, SentTo
    <3> QED
      BY <3>1, <3>2
  <2> QED
    BY <1>2, <1>3, <2>2, <2>3, ProcDies DEF Idle
<1>4. CASE Reads
  BY <1>2, <1>4 DEF Reads, Receive
<1>5. CASE Writes
  <2>1. PICK p \in Procs, f \in Frames : Write(p, f)
    <3>1. CASE \E v \in Uuids : SendUserMessage(v)
      BY <3>1, FrameTypes DEF SendUserMessage, TypeInv, TypeOK
    <3>2. CASE \E a \in Stops : StopWrite(a)
      BY <3>2, FrameTypes DEF StopWrite, TypeInv, TypeOK
    <3>3. CASE \E c \in Cancels : CancelWrite(c)
      BY <3>3, FrameTypes, AgentsDistinct DEF CancelWrite, TypeInv, TypeOK
    <3> QED
      BY <1>5, <3>1, <3>2, <3>3 DEF Writes
  <2>2. In \subseteq In' /\ pending' = pending
    <3>1. pending' = pending
      BY <1>5 DEF Writes, SendUserMessage, StopWrite, CancelWrite
    <3> QED
      BY <2>1, <3>1, InWritten
  <2> QED
    BY <1>1, <2>2, PipesCarryNext
<1>6. CASE Works
  <2>1. PICK p \in Procs : CliRead(p) \/ CliStart(p) \/ CliRefuse(p)
    BY <1>6 DEF Works
  <2>2. pending \in [Procs -> SUBSET Uuids]
    BY DEF TypeInv, TypeOK
  <2>3. CASE CliRead(p) /\ CliUser(p)
    <3>1. /\ pending' = [pending EXCEPT ![p] = @ \cup {Head(stdin[p]).id}]
          /\ In \subseteq In' \cup {Head(stdin[p])}
      BY <2>3, InRead DEF CliUser
    <3>2. \A q \in Procs : u \in pending[q] => u \in pending'[q]
      BY <2>2, <3>1
    <3>3. u = Head(stdin[p]).id => u \in pending'[p]
      BY <2>2, <3>1
    <3> QED
      BY <1>1, <3>1, <3>2, <3>3, PipesCarryNext
  <2>4. CASE CliRead(p) /\ CliInterrupt(p)
    <3>1. /\ pending' = pending /\ Head(stdin[p]).op # "user"
          /\ In \subseteq In' \cup {Head(stdin[p])}
      BY <2>4, InRead DEF CliInterrupt
    <3> QED
      BY <1>1, <3>1, PipesCarryNext
  <2>5. CASE CliRead(p) /\ CliCancel(p)
    <3>1. PICK fs \in Seq(Frames) : \E removed \in SUBSET pending[p] :
           /\ Emit(p, fs)
           /\ (\E v \in Uuids : Head(stdin[p]).of = {v}) =>
                \A v \in removed : \E f \in Carried(fs) : f.op = "cancelled" /\ f.id = v
           /\ pending' = [pending EXCEPT ![p] = @ \ removed]
      BY <2>5, CancelAnswers
    <3>2. /\ Head(stdin[p]).op = "cancel" /\ Head(stdin[p]) \in In
          /\ In \subseteq In' \cup {Head(stdin[p])}
      BY <2>5, InRead DEF CliCancel
    <3>3. \E v \in Uuids : Head(stdin[p]).of = {v}
      BY <3>2 DEF CancelsOne
    <3>4. PICK removed \in SUBSET pending[p] :
            /\ \A v \in removed : \E f \in Carried(fs) : f.op = "cancelled" /\ f.id = v
            /\ pending' = [pending EXCEPT ![p] = @ \ removed]
      BY <3>1, <3>3
    <3>5. Carried(fs) \subseteq Out'
      BY <3>1, OutWritten
    <3>6. u \in removed => u \in Dropped'
      BY <1>1, <3>4, <3>5 DEF Dropped
    <3>7. \A q \in Procs : u \in pending[q] => u \in pending'[q] \/ u \in removed
      BY <2>2, <3>4
    <3> QED
      BY <1>1, <3>2, <3>6, <3>7, PipesCarryNext
  <2>6. CASE CliStart(p) \/ CliRefuse(p)
    <3>1. PICK v \in pending[p], op \in {"started", "refused"} :
            /\ Emit(p, <<Frame(op, v, {})>>)
            /\ pending' = [pending EXCEPT ![p] = @ \ {v}]
            /\ stdin' = stdin
      BY <2>6 DEF CliStart, CliRefuse
    <3> DEFINE f == Frame(op, v, {})
    <3>2. f \in Frames /\ f.op = op /\ f.id = v /\ Emit(p, <<f>>)
      BY <2>2, <3>1, FrameTypes DEF Frame
    <3> HIDE DEF f
    <3>3. <<f>> \in Seq(Frames) /\ Carried(<<f>>) = {f}
      BY <3>2 DEF Carried
    <3>4. f \in Out'
      BY <3>2, <3>3, OutWritten
    <3>5. u = v => u \in Started' \cup Dropped'
      BY <1>1, <3>1, <3>2, <3>4, PipesCarryNext DEF Dropped
    <3>6. \A q \in Procs : u \in pending[q] => u \in pending'[q] \/ u = v
      BY <2>2, <3>1
    <3>7. In' = In
      BY <3>1 DEF In
    <3> QED
      BY <1>1, <3>5, <3>6, <3>7, PipesCarryNext
  <2> QED
    BY <2>1, <2>3, <2>4, <2>5, <2>6 DEF CliRead
<1> QED
  BY <1>3, <1>4, <1>5, <1>6, Traffic

\* Every row is of a message that waits, is about to be written, or was just
\* started or dropped; or the watcher is about to clear the queue.
LEMMA EntriesWaitInductive ==
  ASSUME Base, CancelInv, "lateWatcher" \notin Faults, WatchersRight, ToldRight,
         CancelsOne, FailuresMarked, EntriesWait, [Next]_vars
  PROVE  EntriesWait'
<1> USE DEF Base, CancelInv
<1>1. CASE Clearing
  BY <1>1, ClearingGoesOn DEF EntriesWait
<1>2. ASSUME ~ Clearing, NEW u \in queue', ~ Clearing'
      PROVE  u \in Writing' \cup Ahead' \cup Started' \cup Dropped'
  <2>1. u \in queue \/ AddQueued(u)
    BY <1>2, EntriesLeave
  <2>2. u \in Uuids
    BY NextTypes, <1>2 DEF TypeInv, TypeOK
  <2>3. CASE AddQueued(u)
    <3>1. pc'[u] \in {"send", "addPush"}
      BY <2>2, <2>3, AgentsDistinct DEF AddQueued, Goto, TypeInv, TypeOK
    <3> QED
      BY <2>2, <3>1 DEF Writing
  <2>4. CASE u \in queue /\ u \in Writing
    <3>1. SendUserMessage(u) => u \in Ahead'
      BY <2>2, SendMoves
    <3>2. ~ SendFails(u)
      BY <1>2 DEF SendFails, SendFailsDropping
    <3> QED
      BY <2>2, <2>4, <3>1, <3>2, SendersMove
  <2>5. CASE u \in Ahead
    BY <1>2, <2>5, AheadLeaves
  <2>6. CASE u \in queue /\ u \in Started \cup Dropped
    <3>1. PICK f \in Out : /\ f.op \in {"started", "cancelled", "refused"} /\ f.id = u
                           /\ u \in Started <=> f.op = "started" \/ u \in Started
      BY <2>6, PipesCarry DEF Dropped
    <3>2. CASE f \in Out'
      BY <2>2, <3>1, <3>2, PipesCarryNext DEF Dropped
    <3>3. CASE f \notin Out'
      <4>1. Reads
        <5>1. Idle \/ Writes \/ Works => Out \subseteq Out'
          <6>1. CASE Idle
            BY <6>1, IdlePipes
          <6>2. CASE Writes
            <7>1. stdout' = stdout
              BY <6>2 DEF Writes, SendUserMessage, StopWrite, CancelWrite
            <7> QED
              BY <7>1 DEF Out
          <6>3. CASE Works
            BY <6>3, WorkWrites, OutWritten DEF Works
          <6> QED
            BY <6>1, <6>2, <6>3
        <5> QED
          BY <3>3, <5>1, Traffic
      <4>2. PICK p \in Procs : /\ ScanReply(p) \/ TakeQueued(p) \/ ScanDropped(p)
                               /\ f = Head(stdout[p])
        BY <3>3, <4>1, OutRead DEF Reads
      <4>3. ~ ScanReply(p)
        BY <3>1, <4>2 DEF ScanReply, ScanReplyOf, Receive
      <4>4. TakeQueued(p) => u \notin queue'
        BY <2>6, <3>1, <4>2 DEF TakeQueued, TakeQueuedFrom
      <4>5. ScanDropped(p) => u \notin queue'
        BY <3>1, <4>2 DEF ScanDropped
      <4> QED
        BY <1>2, <4>2, <4>3, <4>4, <4>5
    <3> QED
      BY <3>2, <3>3
  <2> QED
    BY <1>2, <2>1, <2>3, <2>4, <2>5, <2>6 DEF EntriesWait
<1> QED
  BY <1>1, <1>2 DEF EntriesWait

-----------------------------------------------------------------------------
(* The queue and the clients, in every reachable state.                    *)

\* It holds at the beginning.
LEMMA InitMirror == Init => MirrorInv
<1> SUFFICES ASSUME Init
             PROVE  MirrorInv
  OBVIOUS
<1> USE AgentsDistinct, ProcsAreNumbers
<1>1. /\ \A a \in Handlers : pc[a] = "idle" /\ hold[a] = NoProc
      /\ \A p \in Procs : pc[Scanner(p)] = "off" /\ pc[Watcher(p)] = "off"
      /\ \A a \in Agents : arg[a] = {}
      /\ \A a \in Stops : sentBefore[a] = {}
      /\ \A p \in Procs : stdin[p] = <<>> /\ stdout[p] = <<>> /\ pending[p] = {}
      /\ proc = NoProc /\ queue = {} /\ bar = {} /\ ignored = {} /\ alive = {} /\ dead = {}
  <2>1. \A p \in Procs : Scanner(p) \notin Handlers /\ Watcher(p) \notin Handlers
    OBVIOUS
  <2> QED
    BY <2>1 DEF Init
<1>2. /\ \A p \in Procs : Carried(stdin[p]) = {} /\ Carried(stdout[p]) = {}
      /\ \A bad : Avoids(<<>>, bad)
      /\ \A p \in Procs : SentTo[p] = {} /\ StartedBy[p] = {}
  BY <1>1 DEF Carried, Avoids, SentTo, StartedBy
<1>3. In = {} /\ Out = {} /\ Ahead = {} /\ Started = {} /\ Dropped = {}
  <2>1. In = {} /\ Out = {}
    <3>1. /\ \A f \in In : \E p \in Procs : f \in Carried(stdin[p])
          /\ \A f \in Out : \E p \in Procs : f \in Carried(stdout[p])
      BY DEF In, Out
    <3> QED
      BY <1>2, <3>1
  <2>2. Ahead = {}
    BY <1>1, <1>2 DEF Ahead
  <2>3. Started = {}
    BY <1>2 DEF Started
  <2> QED
    BY <2>1, <2>2, <2>3 DEF Dropped
<1>4. WatchersRight /\ ToldRight /\ ScannersRight /\ PipesOfProc
  BY <1>1 DEF WatchersRight, WatchPcs, ToldRight, ScannersRight, PipesOfProc
<1>5. StopInv
  BY <1>1, <1>2, <1>3 DEF StopInv, PipesInOrder, StopsAskOnce, AnswersRight, DropsFinal
<1>6. EntriesKept /\ BubbleLostOnlyToOverlappingStop
  BY <1>1, <1>3 DEF EntriesKept, Owed, BubbleLostOnlyToOverlappingStop
<1>7. CancelsOne /\ FailuresMarked /\ EntriesWait /\ BarFollows
  BY <1>1, <1>3 DEF CancelsOne, FailuresMarked, EntriesWait, BarFollows
<1> QED
  BY <1>4, <1>5, <1>6, <1>7 DEF MirrorInv

\* And after every step.
LEMMA MirrorInductive ==
  ASSUME Base, CancelInv, MirrorInv, "lateWatcher" \notin Faults, [Next]_vars
  PROVE  CancelInv' /\ MirrorInv'
<1> USE DEF MirrorInv
<1>1. CancelInv'
  BY MessagesMove, OnePlaceInductive, HeldByProcInductive, CancelsHoldInductive DEF CancelInv
<1>2. WatchersRight' /\ ToldRight' /\ ScannersRight' /\ PipesOfProc'
  BY WatchersInductive, ScannersInductive, PipesInductive DEF CancelInv
<1>3. StopInv' /\ EntriesKept' /\ BubbleLostOnlyToOverlappingStop'
  BY StopsInductive, EntriesKeptInductive, IgnoredInductive
<1>4. CancelsOne' /\ FailuresMarked' /\ EntriesWait' /\ BarFollows'
  BY CancelsInductive, FailuresInductive, EntriesWaitInductive, BarInductive
<1> QED
  BY <1>1, <1>2, <1>3, <1>4

\* So it is an invariant, with those it rests on.
LEMMA MirrorInvariant ==
  ASSUME "overlap" \notin Faults, "lateWatcher" \notin Faults
  PROVE  Spec => [](Base /\ CancelInv /\ MirrorInv)
<1>1. Init => CancelInv /\ MirrorInv
  BY InitCancels, InitMirror
<1>2. Base /\ Base' /\ CancelInv /\ MirrorInv /\ [Next]_vars => CancelInv' /\ MirrorInv'
  BY MirrorInductive
<1>3. Spec => []Base
  BY TypeInvariant, FateInvariant, OneCliInvariant, PTL DEF Base
<1> QED
  BY <1>1, <1>2, <1>3, PTL DEF Spec

\* In a settled state nobody is about to write, push or announce, and nothing
\* is on the way from claude.
LEMMA SettledIsQuiet ==
  ASSUME Base, Settled
  PROVE  /\ Started = {} /\ Dropped = {} /\ Writing = {}
         /\ ~ \E u \in Uuids : pc[u] = "announce"
         /\ \A a \in Agents : pc[a] \notin Pushing
<1> USE AgentsDistinct DEF Settled
<1>1. \A p \in Procs : Carried(stdout[p]) = {}
  BY DEF Carried
<1>2. Out = {}
  BY <1>1 DEF Out
<1>3. Started = {} /\ Dropped = {}
  BY <1>2, PipesCarry DEF Dropped, Base
<1>4. \A a \in Agents : pc[a] \notin Pushing
  BY DEF Agents, Pushing
<1> QED
  BY <1>3, <1>4 DEF Writing

\* The queue bar: when everything is settled, Session.Queue is claude's own
\* queue and the bar shows it (pushQueueBar, TakeQueued, ReconcileQueued), for
\* any messages, requests and processes.
THEOREM QueueIsMirrored ==
  ASSUME "overlap" \notin Faults, "lateWatcher" \notin Faults
  PROVE  Spec => []QueueMirrorsClaude
<1>1. Base /\ CancelInv /\ MirrorInv => QueueMirrorsClaude
  <2> SUFFICES ASSUME Base, CancelInv, MirrorInv, Settled, ~ closed
               PROVE  LET waiting == IF Live(proc) THEN pending[proc] ELSE {}
                      IN /\ queue \subseteq waiting
                         /\ waiting \subseteq queue \cup exposed
                         /\ bar \subseteq queue \cup late
    BY DEF QueueMirrorsClaude
  <2> USE DEF MirrorInv
  <2>1. proc \in Procs \cup {NoProc} /\ queue \subseteq Uuids
        /\ \A p \in Procs : pending[p] \subseteq Uuids
    BY DEF Base, TypeInv, TypeOK
  <2>2. ~ Clearing
    <3> SUFFICES ASSUME Clearing
                 PROVE  FALSE
      OBVIOUS
    <3>1. proc \in Procs /\ proc \notin alive /\ pc[Watcher(proc)] \in {"off", "wait", "clear"}
      BY <2>1 DEF Clearing
    <3>2. pc[Scanner(proc)] = "eof"
      BY <3>1 DEF ScannersRight, Settled, Clearing
    <3>3. proc \in dead
      BY <3>1, <3>2 DEF ScannersRight
    <3>4. pc[Watcher(proc)] = "off"
      BY <3>1, <3>3 DEF Settled
    <3> QED
      BY <3>4, SettledIsQuiet DEF WatchersRight, Clearing
  <2>3. queue \subseteq Ahead
    BY <2>2, SettledIsQuiet DEF EntriesWait
  <2>4. ASSUME NEW u \in Ahead
        PROVE  Live(proc) /\ u \in pending[proc]
    <3>1. PICK p \in Procs : u \in SentTo[p] \cup pending[p]
      BY DEF Ahead
    <3>2. stdin[p] = <<>>
      BY DEF Settled, CancelInv, HeldByProc
    <3>3. u \in pending[p]
      BY <3>1, <3>2 DEF SentTo
    <3>4. p = proc /\ p \in alive
      BY <3>3 DEF CancelInv, HeldByProc, Held
    <3> QED
      BY <3>3, <3>4, ProcsAreNumbers DEF Live, Base, OneCli
  <2>5. ASSUME Live(proc)
        PROVE  pending[proc] \subseteq queue \cup exposed
    <3>1. pending[proc] \subseteq Ahead
      BY <2>1, <2>5 DEF Ahead, Live
    <3> QED
      BY <3>1 DEF EntriesKept, Owed
  <2>6. bar \subseteq queue \cup late
    BY SettledIsQuiet DEF BarFollows, Pushing
  <2> QED
    BY <2>3, <2>4, <2>5, <2>6
<1> QED
  BY <1>1, MirrorInvariant, PTL

\* handleCommandLifecycle(started): a started frame finds the entry of its
\* message, unless a stop that overlapped the send has dropped it; no bubble is
\* lost in another way.
THEOREM NoBubbleLost ==
  ASSUME "overlap" \notin Faults, "lateWatcher" \notin Faults
  PROVE  Spec => []BubbleLostOnlyToOverlappingStop
<1>1. MirrorInv => BubbleLostOnlyToOverlappingStop
  BY DEF MirrorInv
<1> QED
  BY <1>1, MirrorInvariant, PTL

\* The clients know whether the session's process runs: session_started and
\* session_ended are broadcast in the order in which processes come and go.
THEOREM AnnouncementsAreTrue ==
  ASSUME "overlap" \notin Faults, "lateWatcher" \notin Faults
  PROVE  Spec => []AnnouncedIsTrue
<1>1. Base /\ MirrorInv => AnnouncedIsTrue
  <2> SUFFICES ASSUME Base, MirrorInv, Settled, ~ closed, proc # NoProc
               PROVE  announced = IF Live(proc) THEN "started" ELSE "ended"
    BY DEF AnnouncedIsTrue
  <2>1. proc \in Procs
    BY DEF Base, TypeInv, TypeOK
  <2>2. pc[Watcher(proc)] # "off"
    BY <2>1, SettledIsQuiet DEF MirrorInv, WatchersRight
  <2>3. pc[Watcher(proc)] = "done" => proc \in dead
    BY <2>1 DEF MirrorInv, WatchersRight
  <2>4. pc[Watcher(proc)] # "done" => proc \notin dead
    BY <2>1, <2>2 DEF Settled
  <2> QED
    BY <2>2, <2>3, <2>4 DEF MirrorInv, ToldRight, Live
<1> QED
  BY <1>1, MirrorInvariant, PTL

\* watchProcessDeath: a watcher that reports the end is the one of the process
\* the session has.
THEOREM OnlyOwnWatcherReports ==
  ASSUME "overlap" \notin Faults, "lateWatcher" \notin Faults
  PROVE  Spec => StaleWatcherStaysSilent
<1>1. Base /\ MirrorInv /\ [Next]_vars => [\A p \in Procs : WatchEnd(p) => proc = p]_vars
  BY WatchKeepsWatchers DEF MirrorInv
<1> QED
  BY <1>1, MirrorInvariant, PTL DEF Spec, StaleWatcherStaysSilent
=============================================================================
