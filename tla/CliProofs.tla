------------------------------ MODULE CliProofs ------------------------------
(***************************************************************************)
(* The CLI's wrapper (ClaudeProcess) and the handling of what it reads     *)
(* (Timeline), for every value of their constants.                         *)
(*                                                                         *)
(* First ProcessInvariant, for any number of requests, permissions and     *)
(* callers of Kill, and for pipes of any size.  Then what Timeline keeps   *)
(* whatever its tools, agents and bounds: the types, the timers of the     *)
(* background tasks and the streaming area.                                *)
(***************************************************************************)
EXTENDS ClaudeProcess, Timeline, FiniteSetTheorems, SequenceTheorems, TLAPS

\* The numbers of the requests: as many as goroutines have registered, no two
\* the same, and one for each goroutine that has not returned.
Numbered ==
  /\ reqSeq = Cardinality({r \in Requests : pc[r] # "idle"})
  /\ \A r \in Requests :
       /\ req[r] <= reqSeq
       /\ pc[r] \in {"write", "await", "failed"} <=> req[r] # 0
       /\ \A q \in Requests : req[r] = req[q] /\ req[r] # 0 => r = q
  /\ \A i \in Ids : pending[i] # Nobody => req[pending[i]] = i

\* The frames of a request on either pipe carry a number that was given, and
\* if somebody still waits for that number it is the one they are for.
Owned(f) ==
  /\ f.id \in 1 .. reqSeq
  /\ f.of \in Requests
  /\ pending[f.id] \in {Nobody, f.of}
Carried(pipe) == {pipe[i] : i \in 1 .. Len(pipe)}
FramesOwned ==
  /\ \A f \in Carried(toCli) : f.op = "request" => Owned(f)
  /\ \A f \in Carried(fromCli) : f.op = "response" => Owned(f)
  /\ \A f \in Carried(fromCli) : f.op = "ask" => f.of \in Asks

\* A response that was taken out of pending is for the goroutine it is on its
\* way to, which no longer waits in pending.
Answered(r) == pc[r] # "idle" /\ \A i \in Ids : pending[i] # r
Delivering ==
  /\ scan = "deliver" <=> inHand # <<>>
  /\ inHand # <<>> => inHand[2] = inHand[1] /\ Answered(inHand[1])
  /\ \A r \in Requests :
       /\ ch[r] # <<>> => ch[r] = <<r>> /\ Answered(r)
       /\ got[r] \in {Nobody, "error", r}

\* The scan is over after the CLI is, or after a line it could not hold, and
\* Kill's body comes to its end after both are.
Killing ==
  /\ Dead /\ ~cut => ~running /\ fromCli = <<>>
  /\ kill = "done" => ~running /\ Dead
  /\ \A k \in Killers : pc[k] = "returned" => kill = "done"
  /\ ~lost

ProcessInv == ProcessTypeOK /\ Numbered /\ FramesOwned /\ Delivering /\ Killing

-----------------------------------------------------------------------------
\* Cardinalities of the sets of goroutines counted by reqSeq.
LEMMA Sizes ==
  /\ Cardinality(Requests) \in Nat
  /\ PipeSize \in Nat \ {0}
  /\ <<>> \in Seq(Frames) /\ Len(<<>>) <= PipeSize
<1>1. Cardinality(Requests) \in Nat
  BY ConstantsAssumption, FS_CardinalityType
<1>2. PipeSize \in Nat \ {0}
  BY ConstantsAssumption
<1>3. <<>> \in Seq(Frames) /\ Len(<<>>) = 0
  OBVIOUS
<1> QED
  BY <1>1, <1>2, <1>3

\* There is a number for every goroutine that registers, and the count of
\* those that did goes up by one.
LEMMA NumberForEach ==
  ASSUME Numbered, NEW r \in Requests, pc[r] = "idle",
         NEW registered, registered = {q \in Requests : pc[q] # "idle"}
  PROVE  /\ reqSeq \in Nat
         /\ reqSeq + 1 \in Ids
         /\ Cardinality(registered \cup {r}) = reqSeq + 1
<1>1. IsFiniteSet(Requests)
  BY ConstantsAssumption
<1>2. IsFiniteSet(registered) /\ Cardinality(registered) = reqSeq
  BY <1>1, FS_Subset DEF Numbered
<1>3. reqSeq \in Nat
  BY <1>2, FS_CardinalityType
<1>4. Cardinality(registered \cup {r}) = reqSeq + 1
  BY <1>2, FS_AddElement
<1>5. Cardinality(registered \cup {r}) <= Cardinality(Requests) /\ Cardinality(Requests) \in Nat
  BY <1>1, FS_Subset, FS_CardinalityType
<1> QED
  BY <1>3, <1>4, <1>5 DEF Ids

\* What the actions do to the two pipes.
LEMMA WriteKeepsType ==
  ASSUME ProcessTypeOK, NEW f \in Frames, Write(f)
  PROVE  /\ toCli' \in Seq(Frames) /\ Len(toCli') <= PipeSize
         /\ fromCli' = fromCli /\ running' = running
         /\ unfinished' = unfinished /\ results' = results
BY ConstantsAssumption DEF ProcessTypeOK, Write

\* A reader takes the head of a pipe, or half an overlong line.
LEMMA ReadKeepsType ==
  ASSUME ProcessTypeOK, NEW op, Read(op)
  PROVE  /\ fromCli' \in Seq(Frames) /\ Len(fromCli') <= PipeSize
         /\ Head(fromCli) \in Frames /\ Head(fromCli) \in Carried(fromCli)
         /\ toCli' = toCli /\ running' = running
         /\ unfinished' = unfinished /\ results' = results
BY ConstantsAssumption DEF ProcessTypeOK, Read, Carried

\* The CLI puts a frame of its own into stdout.
LEMMA EmitKeepsType ==
  ASSUME ProcessTypeOK, NEW f \in Frames, EmitFrame(f)
  PROVE  fromCli' \in Seq(Frames) /\ Len(fromCli') <= PipeSize
BY ConstantsAssumption DEF ProcessTypeOK, EmitFrame

-----------------------------------------------------------------------------
(* Types.                                                                  *)

\* The initial state is well-typed.
LEMMA InitType == ProcessInit => ProcessTypeOK
<1> SUFFICES ASSUME ProcessInit PROVE ProcessTypeOK
  OBVIOUS
<1>1. /\ pc \in [Callers -> {"idle", "write", "await", "failed", "returned",
                             "deciding", "sent", "wait", "killing", "skipped"}]
      /\ req \in [Requests -> {0} \cup Ids]
      /\ pending \in [Ids -> Requests \cup {Nobody}]
      /\ ch \in [Requests -> {<<>>} \cup {<<p>> : p \in Requests}]
      /\ got \in [Requests -> Requests \cup {Nobody, "error"}]
  BY DEF ProcessInit
<1>2. reqSeq \in 0 .. Cardinality(Requests)
  BY Sizes DEF ProcessInit
<1>3. /\ toCli \in Seq(Frames) /\ Len(toCli) <= PipeSize
      /\ fromCli \in Seq(Frames) /\ Len(fromCli) <= PipeSize
  BY Sizes DEF ProcessInit
<1> QED
  BY <1>1, <1>2, <1>3 DEF ProcessInit, ProcessTypeOK

\* The steps of a caller of sendControlRequest keep the types.
LEMMA RequestType ==
  ASSUME ProcessTypeOK, Numbered, NEW r \in Requests,
         Register(r) \/ WriteRequest(r) \/ RequestReturn(r)
  PROVE  ProcessTypeOK'
<1>1. r \in Callers
  BY DEF Callers
<1>2. CASE Register(r)
  <2>1. reqSeq \in Nat /\ reqSeq + 1 \in Ids
    BY <1>2, NumberForEach DEF Register, RegisterAs, Goto
  <2>2. reqSeq + 1 \in 0 .. Cardinality(Requests)
    BY <2>1 DEF Ids
  <2> QED
    BY <1>1, <1>2, <2>1, <2>2 DEF ProcessTypeOK, Register, RegisterAs, Goto, scanner, wire
<1>3. CASE WriteRequest(r)
  <2>1. Frame("request", req[r], r) \in Frames
    BY <1>1 DEF ProcessTypeOK, Frame, Frames
  <2>2. Write(Frame("request", req[r], r))
    BY <1>3 DEF WriteRequest
  <2> QED
    BY <1>1, <1>3, <2>1, <2>2, WriteKeepsType DEF ProcessTypeOK, WriteRequest, Goto, scanner, caller
<1>4. CASE WriteRequestFails(r)
  BY <1>1, <1>4 DEF ProcessTypeOK, WriteRequestFails, WriteFails, Goto, scanner, wire
<1>5. CASE TakeAnswer(r)
  <2>1. Head(ch[r]) \in Requests
    BY <1>5 DEF ProcessTypeOK, TakeAnswer
  <2> QED
    BY <1>1, <1>5, <2>1 DEF ProcessTypeOK, TakeAnswer, Goto, scanner, wire
<1>6. CASE GiveUp(r)
  BY <1>1, <1>6 DEF ProcessTypeOK, GiveUp, GiveUpWhen, Goto, scanner, wire
<1> QED
  BY <1>2, <1>3, <1>4, <1>5, <1>6 DEF RequestReturn

\* The steps of the scan goroutine keep the types.
LEMMA ScanType ==
  ASSUME ProcessTypeOK, FramesOwned, Delivering, ScanStep
  PROVE  ProcessTypeOK'
<1>1. CASE ScanResponse
  <2>1. Read("response")
    BY <1>1 DEF ScanResponse
  <2>2. Head(fromCli).op = "response"
    BY <2>1 DEF Read
  <2>3. Owned(Head(fromCli))
    BY <2>1, <2>2, ReadKeepsType DEF FramesOwned
  <2>4. Head(fromCli).id \in Ids /\ Head(fromCli).of \in Requests
    BY <2>3, Sizes DEF Owned, ProcessTypeOK, Ids
  <2> DEFINE id == Head(fromCli).id
  <2>5. CASE pending[id] # Nobody
    <3>1. pending[id] \in Requests
      BY <2>4, <2>5 DEF ProcessTypeOK
    <3>2. inHand' \in Requests \X Requests /\ scan' = "deliver"
      BY <1>1, <2>4, <2>5, <3>1 DEF ScanResponse
    <3>3. pending' \in [Ids -> Requests \cup {Nobody}]
      BY <1>1, <2>4, <2>5 DEF ScanResponse, ProcessTypeOK
    <3> QED
      BY <1>1, <2>1, <3>2, <3>3, ReadKeepsType DEF ProcessTypeOK, ScanResponse
  <2>6. CASE pending[id] = Nobody
    BY <1>1, <2>1, <2>6, ReadKeepsType DEF ProcessTypeOK, ScanResponse
  <2> QED
    BY <2>5, <2>6
<1>2. CASE Deliver
  BY <1>2 DEF ProcessTypeOK, Delivering, Deliver, wire
<1>3. CASE ScanAsk
  <2>1. Read("ask")
    BY <1>3 DEF ScanAsk, ScanAskIn
  <2> QED
    BY <1>3, <2>1, ReadKeepsType DEF ProcessTypeOK, ScanAsk, ScanAskIn, Goto, caller
<1>4. CASE ScanResult
  <2>1. Read("result")
    BY <1>4 DEF ScanResult
  <2> QED
    BY <1>4, <2>1, ReadKeepsType DEF ProcessTypeOK, ScanResult, caller, scanner
<1>5. CASE ScanEnds
  BY <1>5 DEF ProcessTypeOK, ScanEnds, caller, wire
<1> QED
  BY <1>1, <1>2, <1>3, <1>4, <1>5 DEF ScanStep

\* The steps of a sender, of a waiter and of a permission's answer keep the types.
LEMMA UserType ==
  ASSUME ProcessTypeOK,
         \/ SendUserMessage \/ SendUserMessageFails \/ UserStep \/ TurnCancelled
         \/ \E a \in Asks : AnswerAsk(a)
  PROVE  ProcessTypeOK'
<1>1. User \in Callers /\ Asks \subseteq Callers
  BY DEF Callers
<1>2. CASE SendUserMessage
  <2>1. Frame("user", 0, User) \in Frames
    BY <1>1 DEF Frame, Frames
  <2>2. Write(Frame("user", 0, User))
    BY <1>2 DEF SendUserMessage
  <2> QED
    BY <1>1, <1>2, <2>1, <2>2, WriteKeepsType DEF ProcessTypeOK, SendUserMessage, Goto, scanner,
       caller
<1>3. CASE SendUserMessageFails
  BY <1>1, <1>3 DEF ProcessTypeOK, SendUserMessageFails, WriteFails, Goto, scanner, caller, wire
<1>4. CASE UserStep \/ TurnCancelled
  <2>1. token' \in BOOLEAN /\ UNCHANGED <<caller, scanner, kill, sent, lost, wire>>
    BY <1>4 DEF ProcessTypeOK, UserStep, WaitForTurnDone, TurnDone, TurnDies, TurnCancelled
  <2>2. \E from, to \in {"idle", "wait", "sent", "returned"} : Goto(User, from, to)
    BY <1>4 DEF UserStep, WaitForTurnDone, TurnDone, TurnDies, TurnCancelled
  <2> QED
    BY <1>1, <2>1, <2>2 DEF ProcessTypeOK, Goto, caller, scanner, wire
<1>5. CASE \E a \in Asks : AnswerAsk(a)
  <2>1. PICK a \in Asks : AnswerAsk(a)
    BY <1>5
  <2>2. Frame("answer", 0, a) \in Frames
    BY <1>1 DEF Frame, Frames
  <2>3. CASE Write(Frame("answer", 0, a))
    BY <1>1, <2>1, <2>2, <2>3, WriteKeepsType DEF ProcessTypeOK, AnswerAsk, Goto, scanner, caller
  <2>4. CASE WriteFails
    BY <1>1, <2>1, <2>4 DEF ProcessTypeOK, AnswerAsk, WriteFails, Goto, scanner, caller, wire
  <2> QED
    BY <2>1, <2>3, <2>4 DEF AnswerAsk
<1> QED
  BY <1>2, <1>3, <1>4, <1>5

\* The steps of Kill keep the types.
LEMMA KillType ==
  ASSUME ProcessTypeOK, KillStep \/ \E k \in Killers : KillCall(k) \/ SessionClose(k) \/
     KillReturns(k)
  PROVE  ProcessTypeOK'
<1>1. Killers \subseteq Callers
  BY DEF Callers
<1>2. CASE Terminate
  BY <1>2, Sizes DEF ProcessTypeOK, Terminate, CliEnds, KillUnchanged, caller, scanner
<1>3. CASE DeadInTime
  BY <1>3 DEF ProcessTypeOK, DeadInTime, KillUnchanged, caller, scanner, wire
<1>4. CASE Reap
  BY <1>4, Sizes DEF ProcessTypeOK, Reap, KillUnchanged, caller, scanner
<1>5. ASSUME NEW k \in Killers, KillCall(k) \/ SessionClose(k) \/ KillReturns(k)
      PROVE  ProcessTypeOK'
  <2>1. CASE KillCall(k)
    BY <1>1, <2>1 DEF ProcessTypeOK, KillCall, KillUnchanged, Goto, caller, scanner, wire
  <2>2. CASE SessionClose(k)
    BY <1>1, <2>2 DEF ProcessTypeOK, SessionClose, KillUnchanged, Goto, caller, scanner, wire
  <2>3. CASE KillReturns(k)
    BY <1>1, <2>3 DEF ProcessTypeOK, KillReturns, KillUnchanged, Goto, caller, scanner, wire
  <2> QED
    BY <1>5, <2>1, <2>2, <2>3
<1> QED
  BY <1>2, <1>3, <1>4, <1>5 DEF KillStep

\* The steps of the CLI keep the types.
LEMMA CliKeepsType ==
  ASSUME ProcessTypeOK, CliReads \/ CliResult \/ CliOverlong \/ CliExits \/ \E a \in Asks :
     CliAsks(a)
  PROVE  ProcessTypeOK'
<1>1. CASE CliReads
  <2>1. Head(toCli) \in Frames /\ Tail(toCli) \in Seq(Frames) /\ Len(Tail(toCli)) <= PipeSize
    BY <1>1, ConstantsAssumption DEF ProcessTypeOK, CliReads
  <2>2. Frame("response", Head(toCli).id, Head(toCli).of) \in Frames
    BY <2>1 DEF Frame, Frames
  <2>3. fromCli' \in Seq(Frames) /\ Len(fromCli') <= PipeSize
    BY <1>1, <2>2, EmitKeepsType DEF ProcessTypeOK, CliReads
  <2> QED
    BY <1>1, <2>1, <2>3 DEF ProcessTypeOK, CliReads, CliUnchanged, caller, scanner
<1>2. CASE CliResult
  <2>1. Frame("result", 0, Nobody) \in Frames
    BY DEF Frame, Frames
  <2>2. EmitFrame(Frame("result", 0, Nobody))
    BY <1>2 DEF CliResult
  <2> QED
    BY <1>2, <2>1, <2>2, EmitKeepsType DEF ProcessTypeOK, CliResult, CliUnchanged, caller, scanner
<1>3. CASE CliOverlong
  <2>1. Frame("overlong", 0, Nobody) \in Frames
    BY DEF Frame, Frames
  <2>2. EmitFrame(Frame("overlong", 0, Nobody))
    BY <1>3 DEF CliOverlong
  <2> QED
    BY <1>3, <2>1, <2>2, EmitKeepsType DEF ProcessTypeOK, CliOverlong, CliUnchanged, caller, scanner
<1>4. CASE CliExits
  BY <1>4, Sizes DEF ProcessTypeOK, CliExits, CliEnds, CliUnchanged, caller, scanner
<1>5. CASE \E a \in Asks : CliAsks(a)
  <2>1. PICK a \in Asks : CliAsks(a)
    BY <1>5
  <2>2. Frame("ask", 0, a) \in Frames
    BY DEF Frame, Frames, Callers
  <2>3. EmitFrame(Frame("ask", 0, a))
    BY <2>1 DEF CliAsks
  <2> QED
    BY <2>1, <2>2, <2>3, EmitKeepsType DEF ProcessTypeOK, CliAsks, CliUnchanged, caller, scanner
<1> QED
  BY <1>1, <1>2, <1>3, <1>4, <1>5

-----------------------------------------------------------------------------
(* Numbers.                                                                *)

UserActs ==
  \/ SendUserMessage \/ SendUserMessageFails \/ UserStep \/ TurnCancelled
  \/ \E a \in Asks : AnswerAsk(a)
KillActs == KillStep \/ \E k \in Killers : KillCall(k) \/ SessionClose(k) \/ KillReturns(k)
CliActs == CliReads \/ CliResult \/ CliOverlong \/ CliExits \/ \E a \in Asks : CliAsks(a)
ScanOther == ScanAsk \/ ScanResult \/ ScanEnds

\* A permission is asked for under a name that is not that of a request.
LEMMA AskIsNoRequest ==
  ASSUME ProcessTypeOK, FramesOwned, ScanAsk
  PROVE  Head(fromCli).of \in Asks /\ Head(fromCli).of \notin Requests \cup Killers \cup {User}
<1>1. Read("ask")
  BY DEF ScanAsk, ScanAskIn
<1>2. Head(fromCli).of \in Asks
  BY <1>1, ReadKeepsType DEF FramesOwned, Read
<1> QED
  BY <1>2, ConstantsAssumption

\* All steps but those of a request and the delivery of its response leave the
\* requests alone.
LEMMA OthersLeaveRequests ==
  ASSUME ProcessTypeOK, FramesOwned, UserActs \/ KillActs \/ CliActs \/ ScanOther \/ UNCHANGED
     processVars
  PROVE  UNCHANGED caller /\ \A r \in Requests : pc'[r] = pc[r]
<1>1. ASSUME NEW r \in Requests, NEW a, a \notin Requests, NEW from, NEW to, Goto(a, from, to)
      PROVE  pc'[r] = pc[r]
  BY <1>1 DEF Goto, ProcessTypeOK
<1>2. CASE UserActs
  <2>1. UNCHANGED caller
    BY <1>2 DEF UserActs, SendUserMessage, SendUserMessageFails, UserStep, WaitForTurnDone,
                TurnDone, TurnDies, TurnCancelled, AnswerAsk
  <2>2. \E a \in Asks \cup {User} :
          \E from, to \in {"idle", "sent", "wait", "deciding", "returned"} : Goto(a, from, to)
    BY <1>2 DEF UserActs, SendUserMessage, SendUserMessageFails, UserStep, WaitForTurnDone,
                TurnDone, TurnDies, TurnCancelled, AnswerAsk
  <2> QED
    BY <1>1, <2>1, <2>2, ConstantsAssumption
<1>3. CASE KillActs
  <2>1. UNCHANGED caller
    BY <1>3 DEF KillActs, KillStep, Terminate, DeadInTime, Reap, KillCall, SessionClose,
                KillReturns, KillUnchanged
  <2>2. \/ UNCHANGED pc
        \/ \E k \in Killers :
             \E from, to \in {"idle", "killing", "skipped", "returned"} : Goto(k, from, to)
    BY <1>3 DEF KillActs, KillStep, Terminate, DeadInTime, Reap, KillCall, SessionClose,
                KillReturns
  <2> QED
    BY <1>1, <2>1, <2>2, ConstantsAssumption
<1>4. CASE CliActs
  BY <1>4 DEF CliActs, CliReads, CliResult, CliOverlong, CliExits, CliAsks, CliUnchanged
<1>5. CASE ScanOther
  <2>1. CASE ScanAsk
    BY <1>1, <2>1, AskIsNoRequest DEF ScanAsk, ScanAskIn
  <2>2. CASE ScanResult \/ ScanEnds
    BY <2>2 DEF ScanResult, ScanEnds
  <2> QED
    BY <1>5, <2>1, <2>2 DEF ScanOther
<1>6. CASE UNCHANGED processVars
  BY <1>6 DEF processVars
<1> QED
  BY <1>2, <1>3, <1>4, <1>5, <1>6

\* ProcessNext by the kind of goroutine that takes the step.
LEMMA ProcessStepIsOneOf ==
  ASSUME [ProcessNext]_processVars
  PROVE  \/ \E r \in Requests : Register(r) \/ WriteRequest(r) \/ RequestReturn(r)
         \/ ScanResponse \/ Deliver
         \/ UserActs \/ KillActs \/ CliActs \/ ScanOther \/ UNCHANGED processVars
BY DEF ProcessNext, ScanStep, ScanOther, UserActs, KillActs, CliActs

\* The set that reqSeq counts does not change unless a request registers.
LEMMA SameCount ==
  ASSUME Numbered, reqSeq' = reqSeq, \A r \in Requests : pc'[r] = "idle" <=> pc[r] = "idle"
  PROVE  reqSeq' = Cardinality({r \in Requests : pc'[r] # "idle"})
<1>1. {r \in Requests : pc'[r] # "idle"} = {r \in Requests : pc[r] # "idle"}
  OBVIOUS
<1> QED
  BY <1>1 DEF Numbered

\* reqSeq counts the registrations, and each number is one goroutine's.
LEMMA NumberedInductive ==
  ASSUME ProcessTypeOK, Numbered, FramesOwned, Delivering, [ProcessNext]_processVars
  PROVE  Numbered'
<1> USE DEF ProcessTypeOK
<1>1. ASSUME NEW r \in Requests, Register(r)
      PROVE  Numbered'
  <2> DEFINE registered == {q \in Requests : pc[q] # "idle"}
  <2>1. pc[r] = "idle" /\ pc' = [pc EXCEPT ![r] = "write"] /\ r \in Callers
    BY <1>1 DEF Register, RegisterAs, Goto, Callers
  <2>2. /\ reqSeq \in Nat /\ reqSeq + 1 \in Ids
        /\ Cardinality(registered \cup {r}) = reqSeq + 1
    BY <2>1, NumberForEach
  <2>3. {q \in Requests : pc'[q] # "idle"} = registered \cup {r}
    BY <2>1
  <2>4. reqSeq' = Cardinality({q \in Requests : pc'[q] # "idle"})
    BY <1>1, <2>2, <2>3 DEF Register, RegisterAs
  <2>5. req' = [req EXCEPT ![r] = reqSeq + 1] /\ reqSeq' = reqSeq + 1
        /\ pending' = [pending EXCEPT ![reqSeq + 1] = r]
    BY <1>1 DEF Register, RegisterAs
  <2>6. \A q \in Requests : req[q] \in Nat /\ req[q] <= reqSeq
    BY Sizes DEF Numbered, Ids
  <2>7. ASSUME NEW q \in Requests
        PROVE  /\ req'[q] <= reqSeq'
               /\ pc'[q] \in {"write", "await", "failed"} <=> req'[q] # 0
    <3>1. CASE q = r
      BY <2>1, <2>2, <2>5, <3>1
    <3>2. CASE q # r
      BY <2>1, <2>2, <2>5, <2>6, <3>2 DEF Numbered
    <3> QED
      BY <3>1, <3>2
  <2>8. ASSUME NEW p \in Requests, NEW q \in Requests, req'[p] = req'[q], req'[p] # 0
        PROVE  p = q
    <3>1. req'[r] = reqSeq + 1 /\ \A x \in Requests : x # r => req'[x] = req[x]
      BY <2>5
    <3>2. p # r /\ q # r => req[p] = req[q] /\ req[p] # 0
      BY <2>8, <3>1
    <3>3. \A x \in Requests : req[x] # reqSeq + 1
      BY <2>2, <2>6
    <3> QED
      BY <2>8, <3>1, <3>2, <3>3 DEF Numbered
  <2>9. ASSUME NEW i \in Ids, pending'[i] # Nobody
        PROVE  req'[pending'[i]] = i
    <3>1. CASE i = reqSeq + 1
      BY <2>2, <2>5, <3>1
    <3>2. CASE i # reqSeq + 1
      <4>1. pending[i] # Nobody /\ pending[i] \in Requests /\ req[pending[i]] = i
        BY <2>5, <2>9, <3>2 DEF Numbered
      <4>2. req[r] = 0 /\ i # 0
        <5>1. pc[r] \in {"write", "await", "failed"} <=> req[r] # 0
          BY DEF Numbered
        <5>2. i # 0
          BY Sizes DEF Ids
        <5> QED
          BY <2>1, <5>1, <5>2
      <4>3. pending[i] # r
        BY <4>1, <4>2
      <4> QED
        BY <2>5, <3>2, <4>1, <4>3
    <3> QED
      BY <3>1, <3>2
  <2> QED
    BY <2>4, <2>7, <2>8, <2>9 DEF Numbered
<1>2. ASSUME NEW r \in Requests, WriteRequest(r) \/ WriteRequestFails(r)
      PROVE  Numbered'
  <2>1. UNCHANGED <<reqSeq, req, pending>>
    BY <1>2 DEF WriteRequest, WriteRequestFails, caller
  <2>2. \A q \in Requests :
          /\ pc'[q] = "idle" <=> pc[q] = "idle"
          /\ pc'[q] \in {"write", "await", "failed"} <=> pc[q] \in {"write", "await", "failed"}
    BY <1>2 DEF WriteRequest, WriteRequestFails, Goto, Callers
  <2> QED
    BY <2>1, <2>2, SameCount DEF Numbered
<1>3. ASSUME NEW r \in Requests, TakeAnswer(r) \/ GiveUp(r)
      PROVE  Numbered'
  <2>1. /\ reqSeq' = reqSeq /\ req' = [req EXCEPT ![r] = 0]
        /\ pc[r] = "await" /\ pc' = [pc EXCEPT ![r] = "returned"] /\ r \in Callers
    BY <1>3 DEF TakeAnswer, GiveUp, GiveUpWhen, Goto, Callers
  <2>2. reqSeq' = Cardinality({q \in Requests : pc'[q] # "idle"})
    BY <2>1, SameCount
  <2>3. \A i \in Ids : pending'[i] \in {Nobody, pending[i]} /\ pending'[i] # r
    <3>1. CASE TakeAnswer(r)
      BY <3>1 DEF TakeAnswer, Delivering, Answered
    <3>2. CASE GiveUp(r)
      BY <3>2, ConstantsAssumption DEF GiveUp, GiveUpWhen, Numbered
    <3> QED
      BY <1>3, <3>1, <3>2
  <2>4. reqSeq \in Nat
    BY Sizes
  <2>5. ASSUME NEW i \in Ids, pending'[i] # Nobody
        PROVE  req'[pending'[i]] = i
    BY <2>1, <2>3, <2>5 DEF Numbered
  <2>6. \A q \in Requests :
          /\ req'[q] <= reqSeq'
          /\ pc'[q] \in {"write", "await", "failed"} <=> req'[q] # 0
          /\ \A p \in Requests : req'[q] = req'[p] /\ req'[q] # 0 => q = p
    BY <2>1, <2>4 DEF Numbered
  <2> QED
    BY <2>2, <2>5, <2>6 DEF Numbered
<1>4. CASE ScanResponse
  <2>1. UNCHANGED <<reqSeq, req, pc>>
    BY <1>4 DEF ScanResponse
  <2>2. \A i \in Ids : pending'[i] \in {Nobody, pending[i]}
    BY <1>4 DEF ScanResponse
  <2> QED
    BY <2>1, <2>2, SameCount DEF Numbered
<1>5. CASE Deliver
  BY <1>5, SameCount DEF Deliver, Numbered
<1>6. CASE UserActs \/ KillActs \/ CliActs \/ ScanOther \/ UNCHANGED processVars
  <2>1. UNCHANGED caller /\ \A r \in Requests : pc'[r] = pc[r]
    BY <1>6, OthersLeaveRequests
  <2> QED
    BY <2>1, SameCount DEF Numbered, caller
<1> QED
  BY <1>1, <1>2, <1>3, <1>4, <1>5, <1>6, ProcessStepIsOneOf DEF RequestReturn

-----------------------------------------------------------------------------
(* Frames.                                                                 *)

\* What a pipe holds after a step is what it held and what was put into it.
LEMMA PipeCarries ==
  ASSUME NEW S, NEW p \in Seq(S), NEW f
  PROVE  /\ Carried(Append(p, f)) = Carried(p) \cup {f}
         /\ p # <<>> => Carried(Tail(p)) \subseteq Carried(p) /\ Head(p) \in Carried(p)
         /\ Carried(<<>>) = {}
<1>1. Len(p) \in Nat
  OBVIOUS
<1>2. Carried(Append(p, f)) = Carried(p) \cup {f}
  <2>1. Len(Append(p, f)) = Len(p) + 1 /\ Append(p, f)[Len(p) + 1] = f
    OBVIOUS
  <2>2. \A i \in 1 .. Len(p) : Append(p, f)[i] = p[i]
    OBVIOUS
  <2>3. 1 .. (Len(p) + 1) = (1 .. Len(p)) \cup {Len(p) + 1}
    BY <1>1
  <2> QED
    BY <2>1, <2>2, <2>3 DEF Carried
<1>3. ASSUME p # <<>>
      PROVE  Carried(Tail(p)) \subseteq Carried(p) /\ Head(p) \in Carried(p)
  <2>1. /\ Len(Tail(p)) = Len(p) - 1 /\ Len(p) >= 1
        /\ \A i \in 1 .. Len(Tail(p)) : Tail(p)[i] = p[i + 1]
        /\ Head(p) = p[1]
    BY <1>3
  <2>2. \A i \in 1 .. Len(Tail(p)) : i + 1 \in 1 .. Len(p)
    BY <1>1, <2>1
  <2> QED
    BY <1>1, <2>1, <2>2 DEF Carried
<1>4. Carried(<<>>) = {}
  BY DEF Carried
<1> QED
  BY <1>2, <1>3, <1>4

\* Who writes to stdin, and what the CLI writes to stdout.
LEMMA ToCliCarries ==
  ASSUME ProcessTypeOK, [ProcessNext]_processVars, NEW f \in Carried(toCli'), f.op = "request"
  PROVE  \/ f \in Carried(toCli)
         \/ \E r \in Requests : WriteRequest(r) /\ f = Frame("request", req[r], r)
<1> USE DEF ProcessTypeOK
<1>1. ASSUME NEW op, NEW a, Write(Frame(op, 0, a)), op # "request"
      PROVE  f \in Carried(toCli)
  BY <1>1, PipeCarries DEF Write, Frame
<1>2. ASSUME NEW r \in Requests, Register(r) \/ WriteRequest(r) \/ RequestReturn(r)
      PROVE  \/ f \in Carried(toCli)
             \/ \E q \in Requests : WriteRequest(q) /\ f = Frame("request", req[q], q)
  <2>1. CASE WriteRequest(r)
    BY <2>1, PipeCarries DEF WriteRequest, Write
  <2>2. CASE Register(r) \/ RequestReturn(r)
    BY <2>2 DEF Register, RegisterAs, RequestReturn, WriteRequestFails, WriteFails,
                TakeAnswer, GiveUp, GiveUpWhen, wire
  <2> QED
    BY <1>2, <2>1, <2>2
<1>3. CASE ScanResponse \/ Deliver \/ ScanOther
  BY <1>3 DEF ScanResponse, Deliver, ScanOther, ScanAsk, ScanAskIn, ScanResult, ScanEnds, Read, wire
<1>4. CASE UserActs
  BY <1>1, <1>4 DEF UserActs, SendUserMessage, SendUserMessageFails, UserStep, WaitForTurnDone,
                    TurnDone, TurnDies, TurnCancelled, AnswerAsk, WriteFails, wire
<1>5. CASE KillActs
  BY <1>5, PipeCarries DEF KillActs, KillStep, Terminate, CliEnds, DeadInTime, Reap, KillCall,
                           SessionClose, KillReturns, wire
<1>6. CASE CliActs
  BY <1>6, PipeCarries DEF CliActs, CliReads, CliResult, CliOverlong, CliExits, CliEnds, CliAsks
<1>7. CASE UNCHANGED processVars
  BY <1>7 DEF processVars, wire
<1> QED
  BY <1>2, <1>3, <1>4, <1>5, <1>6, <1>7, ProcessStepIsOneOf

\* What the scan goroutine can read is what the CLI wrote.
LEMMA FromCliCarries ==
  ASSUME ProcessTypeOK, [ProcessNext]_processVars, NEW f \in Carried(fromCli')
  PROVE  \/ f \in Carried(fromCli)
         \/ \E g \in Carried(toCli) : g.op = "request" /\ f = Frame("response", g.id, g.of)
         \/ \E a \in Asks : f = Frame("ask", 0, a)
         \/ f.op \in {"result", "overlong"}
<1> USE DEF ProcessTypeOK
<1>1. ASSUME NEW g, EmitFrame(g)
      PROVE  f \in Carried(fromCli) \/ f = g
  BY <1>1, PipeCarries DEF EmitFrame
<1>2. ASSUME NEW op, Read(op)
      PROVE  f \in Carried(fromCli)
  BY <1>2, PipeCarries DEF Read
<1>3. ASSUME NEW r \in Requests, Register(r) \/ WriteRequest(r) \/ RequestReturn(r)
      PROVE  f \in Carried(fromCli)
  BY <1>3 DEF Register, RegisterAs, WriteRequest, Write, RequestReturn, WriteRequestFails,
              WriteFails, TakeAnswer, GiveUp, GiveUpWhen, wire
<1>4. CASE ScanResponse \/ Deliver \/ ScanOther
  BY <1>2, <1>4 DEF ScanResponse, Deliver, ScanOther, ScanAsk, ScanAskIn, ScanResult, ScanEnds, wire
<1>5. CASE UserActs
  BY <1>5 DEF UserActs, SendUserMessage, SendUserMessageFails, UserStep, WaitForTurnDone,
              TurnDone, TurnDies, TurnCancelled, AnswerAsk, Write, WriteFails, wire
<1>6. CASE KillActs
  BY <1>6, PipeCarries DEF KillActs, KillStep, Terminate, CliEnds, DeadInTime, Reap, KillCall,
                           SessionClose, KillReturns, wire
<1>7. CASE CliActs
  <2>1. CASE CliReads
    <3>1. Head(toCli) \in Carried(toCli)
      BY <2>1, PipeCarries DEF CliReads
    <3> QED
      BY <1>1, <2>1, <3>1 DEF CliReads
  <2>2. CASE CliResult \/ CliOverlong
    BY <1>1, <2>2 DEF CliResult, CliOverlong, Frame
  <2>3. CASE CliExits
    BY <2>3 DEF CliExits, CliEnds
  <2>4. CASE \E a \in Asks : CliAsks(a)
    BY <1>1, <2>4 DEF CliAsks
  <2> QED
    BY <1>7, <2>1, <2>2, <2>3, <2>4 DEF CliActs
<1>8. CASE UNCHANGED processVars
  BY <1>8 DEF processVars, wire
<1> QED
  BY <1>3, <1>4, <1>5, <1>6, <1>7, <1>8, ProcessStepIsOneOf

\* A number that was given out keeps its request until nobody waits for it.
LEMMA NumbersStay ==
  ASSUME ProcessTypeOK, Numbered, FramesOwned, [ProcessNext]_processVars
  PROVE  /\ reqSeq <= reqSeq'
         /\ \A i \in 1 .. reqSeq : pending'[i] \in {Nobody, pending[i]}
<1>1. reqSeq \in Nat
  BY Sizes DEF ProcessTypeOK
<1>2. \A i \in 1 .. reqSeq : i \in Ids
  BY Sizes DEF ProcessTypeOK, Ids
<1>3. ASSUME NEW r \in Requests, Register(r) \/ WriteRequest(r) \/ RequestReturn(r)
      PROVE  reqSeq <= reqSeq' /\ \A i \in 1 .. reqSeq : pending'[i] \in {Nobody, pending[i]}
  <2>1. CASE Register(r)
    <3>1. reqSeq' = reqSeq + 1 /\ pending' = [pending EXCEPT ![reqSeq + 1] = r]
      BY <2>1 DEF Register, RegisterAs
    <3>2. \A i \in 1 .. reqSeq : i # reqSeq + 1
      BY <1>1
    <3> QED
      BY <1>1, <1>2, <3>1, <3>2 DEF ProcessTypeOK
  <2>2. CASE GiveUp(r)
    BY <1>1, <1>2, <2>2 DEF GiveUp, GiveUpWhen, ProcessTypeOK
  <2>3. CASE WriteRequest(r) \/ WriteRequestFails(r) \/ TakeAnswer(r)
    BY <1>1, <2>3 DEF WriteRequest, WriteRequestFails, TakeAnswer, caller
  <2> QED
    BY <1>3, <2>1, <2>2, <2>3 DEF RequestReturn
<1>4. CASE ScanResponse
  BY <1>1, <1>2, <1>4 DEF ScanResponse, ProcessTypeOK
<1>5. CASE Deliver
  BY <1>1, <1>5 DEF Deliver
<1>6. CASE UserActs \/ KillActs \/ CliActs \/ ScanOther \/ UNCHANGED processVars
  BY <1>1, <1>6, OthersLeaveRequests DEF caller
<1> QED
  BY <1>3, <1>4, <1>5, <1>6, ProcessStepIsOneOf

\* A frame that names a request names one whose caller has its number.
LEMMA FramesOwnedInductive ==
  ASSUME ProcessTypeOK, ProcessTypeOK', Numbered, FramesOwned, [ProcessNext]_processVars
  PROVE  FramesOwned'
<1>1. reqSeq \in Nat /\ reqSeq' \in Nat
  BY Sizes DEF ProcessTypeOK
<1>2. ASSUME NEW f, Owned(f)
      PROVE  /\ f.id \in 1 .. reqSeq'
             /\ f.of \in Requests
             /\ pending'[f.id] \in {Nobody, f.of}
  BY <1>1, <1>2, NumbersStay DEF Owned
<1>3. ASSUME NEW f \in Carried(toCli'), f.op = "request"
      PROVE  /\ f.id \in 1 .. reqSeq'
             /\ f.of \in Requests
             /\ pending'[f.id] \in {Nobody, f.of}
  <2>1. CASE f \in Carried(toCli)
    BY <1>2, <1>3, <2>1 DEF FramesOwned
  <2>2. CASE \E r \in Requests : WriteRequest(r) /\ f = Frame("request", req[r], r)
    <3>1. PICK r \in Requests : WriteRequest(r) /\ f = Frame("request", req[r], r)
      BY <2>2
    <3>2. req[r] # 0 /\ req[r] <= reqSeq
      BY <3>1 DEF WriteRequest, Goto, Numbered
    <3>3. req[r] \in 1 .. reqSeq /\ req[r] \in Ids
      BY <1>1, <3>2, Sizes DEF ProcessTypeOK, Ids
    <3>4. pending[req[r]] \in {Nobody, r}
      <4>1. pending[req[r]] # Nobody =>
              pending[req[r]] \in Requests /\ req[pending[req[r]]] = req[r]
        BY <3>3 DEF Numbered, ProcessTypeOK
      <4> QED
        BY <3>2, <4>1 DEF Numbered
    <3>5. f.id = req[r] /\ f.of = r
      BY <3>1 DEF Frame
    <3>6. reqSeq' = reqSeq /\ pending' = pending
      BY <3>1 DEF WriteRequest, caller
    <3> QED
      BY <3>3, <3>4, <3>5, <3>6
  <2> QED
    BY <1>3, <2>1, <2>2, ToCliCarries
<1>4. ASSUME NEW f \in Carried(fromCli'), f.op = "response"
      PROVE  /\ f.id \in 1 .. reqSeq'
             /\ f.of \in Requests
             /\ pending'[f.id] \in {Nobody, f.of}
  <2>1. CASE f \in Carried(fromCli)
    BY <1>2, <1>4, <2>1 DEF FramesOwned
  <2>2. CASE \E g \in Carried(toCli) : g.op = "request" /\ f = Frame("response", g.id, g.of)
    <3>1. PICK g \in Carried(toCli) : g.op = "request" /\ f = Frame("response", g.id, g.of)
      BY <2>2
    <3>2. f.id = g.id /\ f.of = g.of
      BY <3>1 DEF Frame
    <3>3. Owned(g)
      BY <3>1 DEF FramesOwned
    <3> QED
      BY <1>2, <3>2, <3>3
  <2> QED
    BY <1>4, <2>1, <2>2, FromCliCarries DEF Frame
<1>5. ASSUME NEW f \in Carried(fromCli'), f.op = "ask"
      PROVE  f.of \in Asks
  BY <1>5, FromCliCarries DEF FramesOwned, Frame
<1> QED
  BY <1>3, <1>4, <1>5 DEF FramesOwned, Owned, Carried

-----------------------------------------------------------------------------
(* Responses on their way.                                                 *)

\* A goroutine that has been answered stays answered: no number is given to a
\* goroutine a second time.
LEMMA AnsweredStays ==
  ASSUME ProcessTypeOK, Numbered, FramesOwned, [ProcessNext]_processVars, NEW r \in Requests,
     Answered(r)
  PROVE  pc'[r] # "idle" /\ \A i \in Ids : pending'[i] # r
<1> USE DEF ProcessTypeOK
<1>1. ASSUME NEW q \in Requests, Register(q) \/ WriteRequest(q) \/ RequestReturn(q)
      PROVE  pc'[r] # "idle" /\ \A i \in Ids : pending'[i] # r
  <2>1. r # Nobody
    BY ConstantsAssumption
  <2>2. pc'[r] # "idle"
    <3>1. r \in Callers /\ q \in Callers /\ pc[r] # "idle"
      BY DEF Callers, Answered
    <3>2. \E to \in {"write", "await", "failed", "returned"} : pc' = [pc EXCEPT ![q] = to]
      BY <1>1 DEF Register, RegisterAs, WriteRequest, RequestReturn, WriteRequestFails,
                TakeAnswer, GiveUp, GiveUpWhen, Goto
    <3> QED
      BY <3>1, <3>2
  <2>3. CASE Register(q)
    BY <2>3 DEF Register, RegisterAs, Goto, Answered
  <2>4. CASE WriteRequest(q) \/ RequestReturn(q)
    <3>1. pending' = pending \/ pending' = [pending EXCEPT ![req[q]] = Nobody]
      BY <2>4 DEF WriteRequest, RequestReturn, WriteRequestFails, TakeAnswer, GiveUp,
                  GiveUpWhen, caller
    <3> QED
      BY <2>1, <2>2, <3>1 DEF Answered
  <2> QED
    BY <1>1, <2>2, <2>3, <2>4
<1>2. CASE ScanResponse
  BY <1>2, ConstantsAssumption DEF ScanResponse, Answered
<1>3. CASE Deliver
  BY <1>3 DEF Deliver, Answered
<1>4. CASE UserActs \/ KillActs \/ CliActs \/ ScanOther \/ UNCHANGED processVars
  BY <1>4, OthersLeaveRequests DEF Answered, caller
<1> QED
  BY <1>1, <1>2, <1>3, <1>4, ProcessStepIsOneOf

\* Nobody but the scan goroutine changes what it holds.
LEMMA OthersLeaveScan ==
  ASSUME [ProcessNext]_processVars, ~ScanResponse, ~Deliver
  PROVE  /\ inHand' = inHand
         /\ scan' = scan \/ (scan = "read" /\ scan' \in {"read", "done"})
<1>1. ASSUME NEW r \in Requests, Register(r) \/ WriteRequest(r) \/ RequestReturn(r)
      PROVE  inHand' = inHand /\ scan' = scan
  BY <1>1 DEF Register, RegisterAs, WriteRequest, RequestReturn, WriteRequestFails,
              TakeAnswer, GiveUp, GiveUpWhen, scanner
<1>2. CASE UserActs
  BY <1>2 DEF UserActs, SendUserMessage, SendUserMessageFails, UserStep, WaitForTurnDone,
              TurnDone, TurnDies, TurnCancelled, AnswerAsk, scanner
<1>3. CASE KillActs
  BY <1>3 DEF KillActs, KillStep, Terminate, DeadInTime, Reap, KillCall, SessionClose,
              KillReturns, KillUnchanged, scanner
<1>4. CASE CliActs
  BY <1>4 DEF CliActs, CliReads, CliResult, CliOverlong, CliExits, CliAsks, CliUnchanged, scanner
<1>5. CASE ScanOther
  BY <1>5 DEF ScanOther, ScanAsk, ScanAskIn, ScanResult, ScanEnds, Read, scanner
<1>6. CASE UNCHANGED processVars
  BY <1>6 DEF processVars, scanner
<1> QED
  BY <1>1, <1>2, <1>3, <1>4, <1>5, <1>6, ProcessStepIsOneOf

\* The scan goroutine delivers to whom the number belongs.
LEMMA DeliveringInductive ==
  ASSUME ProcessTypeOK, Numbered, FramesOwned, Delivering, [ProcessNext]_processVars
  PROVE  Delivering'
<1> USE DEF ProcessTypeOK
<1>1. \A r \in Requests : Answered(r) => Answered(r)'
  BY AnsweredStays DEF Answered
<1>2. CASE ScanResponse
  <2> DEFINE id == Head(fromCli).id
  <2>1. Read("response")
    BY <1>2 DEF ScanResponse
  <2>2. Owned(Head(fromCli)) /\ id \in Ids
    BY <2>1, ReadKeepsType, Sizes DEF Read, FramesOwned, Owned, Ids
  <2>3. UNCHANGED <<ch, got, pc, req>>
    BY <1>2 DEF ScanResponse
  <2>4. scan = "read" /\ inHand = <<>>
    BY <2>1 DEF Read, Delivering
  <2>5. CASE pending[id] = Nobody
    <3>1. UNCHANGED <<scan, inHand>>
      BY <1>2, <2>5 DEF ScanResponse
    <3> QED
      BY <1>1, <2>3, <2>4, <3>1 DEF Delivering
  <2>6. CASE pending[id] # Nobody
    <3>1. pending[id] = Head(fromCli).of /\ pending[id] \in Requests
      BY <2>2, <2>6 DEF Owned
    <3>2. /\ scan' = "deliver" /\ inHand' = <<pending[id], Head(fromCli).of>>
          /\ pending' = [pending EXCEPT ![id] = Nobody]
      BY <1>2, <2>6 DEF ScanResponse
    <3>3. inHand' # <<>> /\ inHand'[1] = pending[id] /\ inHand'[2] = pending[id]
      BY <3>1, <3>2
    <3>4. req[pending[id]] = id /\ id # 0
      BY <2>2, <2>6 DEF Numbered, Ids
    <3>5. pc'[pending[id]] # "idle"
      BY <2>3, <3>1, <3>4 DEF Numbered
    <3>6. \A i \in Ids : pending'[i] # pending[id]
      BY <2>2, <2>6, <3>2, <3>4 DEF Numbered
    <3>7. Answered(inHand[1])'
      BY <3>3, <3>5, <3>6 DEF Answered
    <3> QED
      BY <1>1, <2>3, <3>2, <3>3, <3>7 DEF Delivering
  <2> QED
    BY <2>5, <2>6
<1>3. CASE Deliver
  <2>1. inHand # <<>> /\ inHand[1] \in Requests /\ inHand[2] = inHand[1] /\ Answered(inHand[1])
    BY <1>3 DEF Deliver, Delivering
  <2>2. /\ ch' = [ch EXCEPT ![inHand[1]] = <<inHand[1]>>]
        /\ scan' = "read" /\ inHand' = <<>> /\ got' = got
    BY <1>3, <2>1 DEF Deliver
  <2> QED
    BY <1>1, <2>1, <2>2 DEF Delivering
<1>4. ASSUME NEW r \in Requests, Register(r) \/ WriteRequest(r) \/ RequestReturn(r)
      PROVE  Delivering'
  <2>1. UNCHANGED <<scan, inHand>>
    BY <1>4 DEF Register, RegisterAs, WriteRequest, RequestReturn, WriteRequestFails,
                TakeAnswer, GiveUp, GiveUpWhen, scanner
  <2>2. inHand' # <<>> => inHand'[2] = inHand'[1] /\ Answered(inHand[1])'
    BY <1>1, <2>1 DEF Delivering
  <2>3. \A q \in Requests : ch'[q] # <<>> => ch'[q] = ch[q]
    BY <1>4 DEF Register, RegisterAs, WriteRequest, RequestReturn, WriteRequestFails,
                TakeAnswer, GiveUp, GiveUpWhen, caller
  <2>4. \A q \in Requests : got'[q] \in {Nobody, "error", q}
    <3>1. CASE TakeAnswer(r)
      <4>1. Head(ch[r]) = r
        BY <3>1 DEF TakeAnswer, Delivering
      <4> QED
        BY <3>1, <4>1 DEF TakeAnswer, Delivering
    <3>2. CASE Register(r) \/ WriteRequest(r) \/ WriteRequestFails(r) \/ GiveUp(r)
      BY <3>2 DEF Register, RegisterAs, WriteRequest, WriteRequestFails, GiveUp, GiveUpWhen,
                  caller, Delivering
    <3> QED
      BY <1>4, <3>1, <3>2 DEF RequestReturn
  <2> QED
    BY <1>1, <2>1, <2>2, <2>3, <2>4 DEF Delivering
<1>5. CASE UserActs \/ KillActs \/ CliActs \/ ScanOther \/ UNCHANGED processVars
  <2>1. CASE ~ScanResponse /\ ~Deliver
    <3>1. UNCHANGED caller
      BY <1>5, OthersLeaveRequests
    <3>2. inHand' = inHand /\ (scan = "deliver" <=> scan' = "deliver")
      BY <2>1, OthersLeaveScan
    <3> QED
      BY <1>1, <3>1, <3>2 DEF Delivering, caller
  <2> QED
    BY <1>2, <1>3, <2>1
<1> QED
  BY <1>2, <1>3, <1>4, <1>5, ProcessStepIsOneOf

-----------------------------------------------------------------------------
(* Kill.                                                                   *)

\* A goroutine that is not a caller of Kill leaves Killing's part of pc alone.
LEMMA OthersLeaveKillers ==
  ASSUME ProcessTypeOK, FramesOwned, [ProcessNext]_processVars, ~KillActs
  PROVE  kill' = kill /\ lost' = lost /\ \A k \in Killers : pc'[k] = pc[k]
<1>1. ASSUME NEW k \in Killers, NEW a, a \notin Killers, NEW from, NEW to, Goto(a, from, to)
      PROVE  pc'[k] = pc[k]
  BY <1>1 DEF Goto, ProcessTypeOK
<1>2. ASSUME NEW r \in Requests, Register(r) \/ WriteRequest(r) \/ RequestReturn(r)
      PROVE  kill' = kill /\ lost' = lost /\ \A k \in Killers : pc'[k] = pc[k]
  <2>1. kill' = kill /\ lost' = lost
    BY <1>2 DEF Register, RegisterAs, WriteRequest, RequestReturn, WriteRequestFails,
                TakeAnswer, GiveUp, GiveUpWhen
  <2>2. \E from, to \in {"idle", "write", "await", "failed", "returned"} : Goto(r, from, to)
    BY <1>2 DEF Register, RegisterAs, WriteRequest, RequestReturn, WriteRequestFails,
                TakeAnswer, GiveUp, GiveUpWhen
  <2> QED
    BY <1>1, <2>1, <2>2, ConstantsAssumption
<1>3. CASE UserActs
  <2>1. kill' = kill /\ lost' = lost
    BY <1>3 DEF UserActs, SendUserMessage, SendUserMessageFails, UserStep, WaitForTurnDone,
                TurnDone, TurnDies, TurnCancelled, AnswerAsk
  <2>2. \E a \in Asks \cup {User} :
          \E from, to \in {"idle", "sent", "wait", "deciding", "returned"} : Goto(a, from, to)
    BY <1>3 DEF UserActs, SendUserMessage, SendUserMessageFails, UserStep, WaitForTurnDone,
                TurnDone, TurnDies, TurnCancelled, AnswerAsk
  <2> QED
    BY <1>1, <2>1, <2>2, ConstantsAssumption
<1>4. CASE CliActs
  BY <1>4 DEF CliActs, CliReads, CliResult, CliOverlong, CliExits, CliAsks, CliUnchanged
<1>5. CASE ScanAsk
  BY <1>1, <1>5, AskIsNoRequest DEF ScanAsk, ScanAskIn
<1>6. CASE ScanResponse \/ Deliver \/ ScanResult \/ ScanEnds
  BY <1>6 DEF ScanResponse, Deliver, ScanResult, ScanEnds
<1>7. CASE UNCHANGED processVars
  BY <1>7 DEF processVars
<1> QED
  BY <1>2, <1>3, <1>4, <1>5, <1>6, <1>7, ProcessStepIsOneOf DEF ScanOther

\* The CLI does not come back, the scan does not begin again, and nothing
\* comes out of a CLI that is gone.
LEMMA EndsAreFinal ==
  ASSUME ProcessTypeOK, [ProcessNext]_processVars
  PROVE  /\ ~running => ~running' /\ (fromCli = <<>> => fromCli' = <<>>)
         /\ Dead => scan' = "done" /\ cut' = cut
         /\ ~Dead /\ scan' = "done" => fromCli' = fromCli /\ running' = running
                                       /\ (~cut' => fromCli = <<>> /\ ~running)
<1> USE DEF Dead
<1>1. ASSUME NEW r \in Requests, Register(r) \/ WriteRequest(r) \/ RequestReturn(r)
      PROVE  UNCHANGED <<scanner, fromCli, running>>
  BY <1>1 DEF Register, RegisterAs, WriteRequest, Write, RequestReturn, WriteRequestFails,
              WriteFails, TakeAnswer, GiveUp, GiveUpWhen, wire
<1>2. CASE UserActs
  <2>1. UNCHANGED <<scanner, fromCli, running>>
    BY <1>2 DEF UserActs, SendUserMessage, SendUserMessageFails, UserStep, WaitForTurnDone,
                TurnDone, TurnDies, TurnCancelled, AnswerAsk, Write, WriteFails, wire
  <2> QED
    BY <2>1 DEF scanner
<1>3. CASE KillActs
  <2>1. UNCHANGED scanner /\ (running' = running \/ running' = FALSE)
        /\ (fromCli' = fromCli \/ fromCli' = <<>>)
    BY <1>3 DEF KillActs, KillStep, Terminate, CliEnds, DeadInTime, Reap, KillCall, SessionClose,
                KillReturns, KillUnchanged, wire
  <2> QED
    BY <2>1 DEF scanner
<1>4. CASE CliActs
  <2>1. UNCHANGED scanner /\ running
    BY <1>4 DEF CliActs, CliReads, CliResult, CliOverlong, CliExits, CliAsks, CliUnchanged
  <2> QED
    BY <2>1 DEF scanner
<1>5. CASE ScanResponse \/ ScanAsk \/ ScanResult
  BY <1>5 DEF ScanResponse, ScanAsk, ScanAskIn, ScanResult, Read, scanner
<1>6. CASE Deliver
  BY <1>6 DEF Deliver, wire
<1>7. CASE ScanEnds
  BY <1>7 DEF ScanEnds, wire
<1>8. CASE UNCHANGED processVars
  BY <1>8 DEF processVars, scanner, wire
<1> QED
  BY <1>1, <1>2, <1>3, <1>4, <1>5, <1>6, <1>7, <1>8, ProcessStepIsOneOf DEF ScanOther, scanner

\* The scan ends after the CLI, Kill ends after both, and no output is lost.
LEMMA KillingInductive ==
  ASSUME ProcessTypeOK, FramesOwned, Killing, [ProcessNext]_processVars
  PROVE  Killing'
<1> USE DEF ProcessTypeOK
<1>1. ASSUME KillActs
      PROVE  /\ kill' = "done" => ~running' /\ scan' = "done"
             /\ \A k \in Killers : pc'[k] = "returned" => kill' = "done"
             /\ ~lost' /\ (Dead' /\ ~cut' => ~running' /\ fromCli' = <<>>)
  <2>1. CASE Terminate
    BY <2>1 DEF Terminate, CliEnds, KillUnchanged, scanner, Killing, Dead
  <2>2. CASE DeadInTime
    BY <2>2 DEF DeadInTime, KillUnchanged, scanner, wire, Killing, Dead
  <2>3. CASE Reap
    BY <2>3 DEF Reap, KillUnchanged, scanner, Killing, Dead
  <2>4. ASSUME NEW k \in Killers, KillCall(k) \/ SessionClose(k) \/ KillReturns(k)
        PROVE  /\ kill' = "done" => ~running' /\ scan' = "done"
               /\ \A j \in Killers : pc'[j] = "returned" => kill' = "done"
               /\ ~lost' /\ (Dead' /\ ~cut' => ~running' /\ fromCli' = <<>>)
    <3>1. UNCHANGED <<scanner, wire, lost>> /\ (kill = "done" <=> kill' = "done")
      BY <2>4 DEF KillCall, SessionClose, KillReturns, KillUnchanged
    <3>2. \A j \in Killers : pc'[j] = "returned" => pc[j] = "returned" \/ kill = "done"
      <4>1. Killers \subseteq Callers
        BY DEF Callers
      <4>2. \/ pc' = [pc EXCEPT ![k] = "killing"] \/ pc' = [pc EXCEPT ![k] = "skipped"]
            \/ kill = "done"
        BY <2>4 DEF KillCall, SessionClose, KillReturns, Goto
      <4> QED
        BY <4>1, <4>2
    <3> QED
      BY <3>1, <3>2 DEF scanner, wire, Killing, Dead
  <2> QED
    BY <1>1, <2>1, <2>2, <2>3, <2>4 DEF KillActs, KillStep
<1>2. CASE KillActs
  BY <1>1, <1>2 DEF Killing, Dead
<1>3. CASE ~KillActs
  BY <1>3, OthersLeaveKillers, EndsAreFinal DEF Killing, Dead
<1> QED
  BY <1>2, <1>3

-----------------------------------------------------------------------------
\* The invariant holds in the initial state.
LEMMA InitProcess == ProcessInit => ProcessInv
<1> SUFFICES ASSUME ProcessInit PROVE ProcessInv
  OBVIOUS
<1>1. ProcessTypeOK
  BY InitType
<1>2. {r \in Requests : pc[r] # "idle"} = {}
  BY DEF ProcessInit, Callers
<1>3. Numbered
  <2>1. reqSeq = Cardinality({r \in Requests : pc[r] # "idle"})
    BY <1>2, FS_EmptySet DEF ProcessInit
  <2>2. \A r \in Requests : req[r] = 0 /\ reqSeq = 0 /\ pc[r] = "idle"
    BY DEF ProcessInit, Callers
  <2>3. \A i \in Ids : pending[i] = Nobody
    BY DEF ProcessInit
  <2> QED
    BY <2>1, <2>2, <2>3 DEF Numbered
<1>4. FramesOwned
  BY DEF ProcessInit, FramesOwned, Carried
<1>5. Delivering /\ Killing
  BY DEF ProcessInit, Delivering, Killing, Dead, Callers
<1> QED
  BY <1>1, <1>3, <1>4, <1>5 DEF ProcessInv

\* Every step keeps the types.
LEMMA TypeInductive == ProcessInv /\ [ProcessNext]_processVars => ProcessTypeOK'
<1> SUFFICES ASSUME ProcessInv, [ProcessNext]_processVars PROVE ProcessTypeOK'
  OBVIOUS
<1>1. CASE UNCHANGED processVars
  BY <1>1 DEF ProcessInv, ProcessTypeOK, processVars, caller, scanner, wire
<1>2. CASE ProcessNext
  BY <1>2, RequestType, ScanType, UserType, KillType, CliKeepsType DEF ProcessInv, ProcessNext
<1> QED
  BY <1>1, <1>2

\* A caller's answer is its own, nobody waits in pending in vain, Kill returns
\* after the CLI is gone and its output was read: sendControlRequest,
\* handleControlResponse and Kill, for any number of callers.
THEOREM CallersGetWhatIsTrue == ProcessSpec => []ProcessInvariant
<1>1. ProcessInv /\ [ProcessNext]_processVars => ProcessInv'
  BY TypeInductive, NumberedInductive, FramesOwnedInductive, DeliveringInductive,
     KillingInductive DEF ProcessInv
<1>2. ProcessInv => ProcessInvariant
  <2> SUFFICES ASSUME ProcessInv PROVE ProcessInvariant
    OBVIOUS
  <2>1. ProcessTypeOK
    BY DEF ProcessInv
  <2>2. OwnAnswer
    BY DEF ProcessInv, Numbered, Delivering, OwnAnswer, ProcessTypeOK, Ids
  <2>3. KilledIsGone
    BY DEF ProcessInv, Killing, KilledIsGone
  <2> QED
    BY <2>1, <2>2, <2>3 DEF ProcessInvariant
<1> QED
  BY <1>1, <1>2, InitProcess, PTL DEF ProcessSpec

-----------------------------------------------------------------------------
(* The handling of the stream, the model and the page.                     *)

\* What a message says of a background task, and of the process.
StartsBg(msg, t) == msg.type = "tool_result" /\ msg.info = "bg" /\ msg.id = t
EndsBg(msg, t) == msg.type = "task_done" /\ msg.id = t
Stops(msg, t) == msg.type \in {"session_ended", "session_started"} \/ EndsBg(msg, t)

\* The messages that empty the streaming area.
Clears(msg) ==
  \/ msg.type \in {"running", "done", "text"}
  \/ msg.type = "tool_use" /\ msg.agent = None

\* After the first n of the events e, a model that is alive or not (al) will
\* be alive; after all of them a task in state b will run.
AliveAfter(al, e, n) ==
  \E k \in 0 .. n :
    /\ IF k = 0 THEN al ELSE e[k].type = "session_started"
    /\ \A j \in k + 1 .. n : e[j].type # "session_ended"
RunsAfter(al, b, e, t) ==
  \E k \in 0 .. Len(e) :
    /\ IF k = 0 THEN al /\ b = "running" ELSE StartsBg(e[k], t)
    /\ \A j \in k + 1 .. Len(e) : ~ Stops(e[j], t)

WillLive == AliveAfter(m.alive, events, Len(events))
WillRun(t) == RunsAfter(m.alive, m.bg[t], events, t)

-----------------------------------------------------------------------------
(* The invariant.                                                          *)

Headings == {"none", "task", "progress", "summary"}
CliType ==
  [alive : BOOLEAN, turn : {"idle", "running", "stopping"},
   block : {"none", "text", "thinking"}, frags : 0 .. MaxFrags, blocks : Nat,
   cut : SUBSET Nat, turns : Nat, starts : Nat,
   tool : [AllTools -> Phases], agent : [Agents -> AgentPhases]]
StatType == [known : BOOLEAN, open : BOOLEAN, background : BOOLEAN, heading : Headings]
ModelOK(mm) ==
  /\ {"results", "bg", "perms", "sections", "heads", "turn", "alive"} \subseteq DOMAIN mm
  /\ mm.alive \in BOOLEAN /\ mm.perms \subseteq AllTools
  /\ mm.bg \in [Tools -> {"none", "running", "completed"}]
PageOK(p) ==
  /\ {"stream", "prompt"} \subseteq DOMAIN p
  /\ p.prompt \subseteq AllTools
Shapes ==
  /\ cli \in CliType
  /\ stats \in [Agents -> StatType]
  /\ \A a \in Agents : stats[a].open => stats[a].known
  /\ stream.n \in 0 .. MaxFrags
  /\ timers \subseteq Tools
  /\ logged \subseteq {g \in Goroutines : out[g] # <<>>}
  /\ ModelOK(m) /\ PageOK(page)

\* Who says what.
MsgTypes ==
  {"user_message", "running", "done", "delta", "text", "tool_use", "tool_result", "task_done",
   "subagent_started", "subagent_finished", "agent_progress", "permission_request",
   "session_started", "session_ended"}
Infos ==
  Headings \cup {"out", "empty", "images", "bg", "text", "thinking",
                 "Bash", "Read", "Skill", "Other"}
Msgs == [type : MsgTypes, id : AllTools \cup Agents \cup Nat, agent : Agents \cup {None},
         info : Infos]
BgIsMain(msg) == msg.type = "tool_result" /\ msg.info = "bg" => msg.id \in Tools /\ msg.agent = None
ScanMsg(msg) ==
  /\ msg.type \notin {"session_ended", "session_started", "permission_request"}
  /\ BgIsMain(msg)
EventMsg(msg) ==
  /\ msg.type = "permission_request" => msg.id \in AllTools
  /\ BgIsMain(msg)
Ended == Msg("session_ended", 0, None, "none")
Started == Msg("session_started", 0, None, "none")
AskFor(t) == Msg("permission_request", t, None, "none")
Speech ==
  /\ out \in [Goroutines -> Seq(Msgs)]
  /\ \A i \in DOMAIN out["scan"] : ScanMsg(out["scan"][i])
  /\ out["watcher"] \in {<<>>, <<Ended>>}
  /\ out["sender"] \in {<<>>, <<Started>>}
  /\ \A t \in AllTools : out[t] \in {<<>>, <<AskFor(t)>>}
  /\ events \in Seq(Msgs)
  /\ \A i \in DOMAIN events : EventMsg(events[i])

\* Without a process, and until the next one is announced, the CLI has
\* nothing under way.
Quiet ==
  /\ cli.turn = "idle" /\ cli.block = "none"
  /\ out["scan"] = <<>> /\ timers = {}
  /\ \A t \in AllTools : cli.tool[t] \in {"new", "done", "lost"}
  /\ \A a \in Agents : cli.agent[a] \in {"new", "done", "lost"}
OneSpeaks ==
  /\ ~ cli.alive \/ out["sender"] # <<>> => Quiet
  /\ out["watcher"] # <<>> => ~ cli.alive
  /\ out["sender"] # <<>> => cli.alive
  /\ \A a \in Agents : cli.agent[a] # "new" => a \notin Tools

\* The model is about to know of the process what is the case.
ProcessKnown ==
  /\ WillLive <=> (cli.alive /\ out["sender"] = <<>>) \/ out["watcher"] # <<>>
  /\ \A t \in Tools, i \in DOMAIN events :
       StartsBg(events[i], t) => AliveAfter(m.alive, events, i - 1)

\* A task has a timer if the model is about to have it run, or its start or
\* end is being said.
EndSaid(t) == \E i \in DOMAIN out["scan"] : EndsBg(out["scan"][i], t)
TasksTimed ==
  \A t \in Tools :
    /\ t \in timers =>
         /\ cli.tool[t] = "done" /\ ~ EndSaid(t)
         /\ WillRun(t) \/ ("scan" \in logged /\ StartsBg(Head(out["scan"]), t))
    /\ WillRun(t) => t \in timers \/ out["watcher"] # <<>> \/ EndSaid(t)
    /\ \A i \in DOMAIN out["scan"] : StartsBg(out["scan"][i], t) =>
         Len(out["scan"]) = 1 /\ cli.tool[t] = "done" /\ ("scan" \in logged => t \in timers)

\* The accumulator has the fragments of the open block; it has others only
\* after an interrupt, and then not when the next block begins.
Unlogged(i) == "scan" \in logged => i > 1
StreamFollows ==
  LET o == out["scan"] IN
  /\ cli.block # "none" => cli.turn = "running"
  /\ \A i \in DOMAIN o :
       /\ o[i].type = "delta" =>
            /\ Len(o) = 1 /\ "scan" \notin logged /\ stream.n = cli.frags - 1
            /\ cli.block = "none" => cli.turn # "running" /\ cli.cut # {}
       /\ o[i].type = "text" => Len(o) = 1 /\ o[i].agent = None
       /\ IsStreamingFlushTrigger(o[i]) \/ o[i].type = "running" => cli.block = "none"
  /\ cli.block # "none" /\ (\A i \in DOMAIN o : o[i].type # "delta") => stream.n = cli.frags
  /\ cli.turn = "running" /\ cli.block = "none" =>
       stream.n = 0 \/ \E i \in DOMAIN o : o[i].type \in {"text", "running"} /\ Unlogged(i)
  /\ cli.cut = {} /\ cli.block = "none" =>
       stream.n = 0 \/ \E i \in DOMAIN o : o[i].type = "text" /\ Unlogged(i)

\* The page has none or all of it, unless it is about to be emptied.
StreamShown ==
  cli.cut = {} =>
    \/ page.stream \in {0, stream.n}
    \/ \E i \in DOMAIN events : Clears(events[i])
    \/ "scan" \in logged /\ Clears(Head(out["scan"]))

Inv == Shapes /\ Speech /\ OneSpeaks /\ ProcessKnown /\ TasksTimed /\ StreamFollows /\ StreamShown

-----------------------------------------------------------------------------
(* The events ahead of the model.                                          *)

\* One more event.
LEMMA AppendAlive ==
  ASSUME NEW al \in BOOLEAN, NEW e \in Seq(Msgs), NEW msg \in Msgs, NEW n \in 0 .. Len(e)
  PROVE  /\ AliveAfter(al, Append(e, msg), n) <=> AliveAfter(al, e, n)
         /\ AliveAfter(al, Append(e, msg), Len(e) + 1) <=>
              msg.type = "session_started" \/
              (msg.type # "session_ended" /\ AliveAfter(al, e, Len(e)))
<1> DEFINE f == Append(e, msg)
<1>1. /\ Len(f) = Len(e) + 1 /\ f[Len(e) + 1] = msg
      /\ \A i \in 1 .. Len(e) : f[i] = e[i]
  OBVIOUS
<1> HIDE DEF f
<1>2. AliveAfter(al, f, n) <=> AliveAfter(al, e, n)
  <2>1. Len(e) \in Nat /\ n \in Nat /\ n <= Len(e)
    OBVIOUS
  <2>2. \A k \in 0 .. n : k # 0 => f[k] = e[k]
    BY <1>1, <2>1
  <2>3. \A k \in 0 .. n : \A j \in k + 1 .. n : f[j] = e[j]
    BY <1>1, <2>1
  <2> QED
    BY <2>2, <2>3 DEF AliveAfter
<1>3. ASSUME AliveAfter(al, f, Len(e) + 1)
      PROVE  msg.type = "session_started" \/
             (msg.type # "session_ended" /\ AliveAfter(al, e, Len(e)))
  <2>1. PICK k \in 0 .. Len(e) + 1 :
          /\ IF k = 0 THEN al ELSE f[k].type = "session_started"
          /\ \A j \in k + 1 .. Len(e) + 1 : f[j].type # "session_ended"
    BY <1>3 DEF AliveAfter
  <2>2. CASE k = Len(e) + 1
    BY <1>1, <2>1, <2>2
  <2>3. CASE k # Len(e) + 1
    <3>1. k \in 0 .. Len(e) /\ Len(e) + 1 \in k + 1 .. Len(e) + 1
      BY <2>3
    <3>2. msg.type # "session_ended"
      BY <1>1, <2>1, <3>1
    <3>3. \A j \in k + 1 .. Len(e) : e[j].type # "session_ended"
      BY <1>1, <2>1, <3>1
    <3> QED
      BY <1>1, <2>1, <3>1, <3>2, <3>3 DEF AliveAfter
  <2> QED
    BY <2>2, <2>3
<1>4. ASSUME msg.type = "session_started" \/
             (msg.type # "session_ended" /\ AliveAfter(al, e, Len(e)))
      PROVE  AliveAfter(al, f, Len(e) + 1)
  <2>1. CASE msg.type = "session_started"
    <3>1. /\ Len(e) + 1 \in 0 .. Len(e) + 1 /\ Len(e) + 1 # 0
          /\ f[Len(e) + 1].type = "session_started"
          /\ \A j \in (Len(e) + 1) + 1 .. Len(e) + 1 : FALSE
      BY <1>1, <2>1
    <3> QED
      BY <3>1 DEF AliveAfter
  <2>2. CASE msg.type # "session_ended" /\ AliveAfter(al, e, Len(e))
    BY <1>1, <2>2 DEF AliveAfter
  <2> QED
    BY <1>4, <2>1, <2>2
<1> QED
  BY <1>2, <1>3, <1>4 DEF f

\* One more event: a task runs after it if it starts, or ran before and does not
\* stop.
LEMMA AppendRuns ==
  ASSUME NEW al \in BOOLEAN, NEW b, NEW e \in Seq(Msgs), NEW msg \in Msgs, NEW t
  PROVE  RunsAfter(al, b, Append(e, msg), t) <=>
           StartsBg(msg, t) \/ (~ Stops(msg, t) /\ RunsAfter(al, b, e, t))
<1> DEFINE f == Append(e, msg)
<1>1. /\ Len(f) = Len(e) + 1 /\ f[Len(e) + 1] = msg
      /\ \A i \in 1 .. Len(e) : f[i] = e[i]
  OBVIOUS
<1> HIDE DEF f
<1>3. ASSUME RunsAfter(al, b, f, t)
      PROVE  StartsBg(msg, t) \/ (~ Stops(msg, t) /\ RunsAfter(al, b, e, t))
  <2>1. PICK k \in 0 .. Len(e) + 1 :
          /\ IF k = 0 THEN al /\ b = "running" ELSE StartsBg(f[k], t)
          /\ \A j \in k + 1 .. Len(e) + 1 : ~ Stops(f[j], t)
    BY <1>1, <1>3 DEF RunsAfter
  <2>2. CASE k = Len(e) + 1
    BY <1>1, <2>1, <2>2
  <2>3. CASE k # Len(e) + 1
    <3>1. k \in 0 .. Len(e) /\ Len(e) + 1 \in k + 1 .. Len(e) + 1
      BY <2>3
    <3>2. ~ Stops(msg, t)
      BY <1>1, <2>1, <3>1
    <3>3. \A j \in k + 1 .. Len(e) : ~ Stops(e[j], t)
      BY <1>1, <2>1, <3>1
    <3> QED
      BY <1>1, <2>1, <3>1, <3>2, <3>3 DEF RunsAfter
  <2> QED
    BY <2>2, <2>3
<1>4. ASSUME StartsBg(msg, t) \/ (~ Stops(msg, t) /\ RunsAfter(al, b, e, t))
      PROVE  RunsAfter(al, b, f, t)
  <2>1. CASE StartsBg(msg, t)
    <3>1. /\ Len(e) + 1 \in 0 .. Len(f) /\ Len(e) + 1 # 0
          /\ StartsBg(f[Len(e) + 1], t)
          /\ \A j \in (Len(e) + 1) + 1 .. Len(f) : FALSE
      BY <1>1, <2>1
    <3> QED
      BY <3>1 DEF RunsAfter
  <2>2. CASE ~ Stops(msg, t) /\ RunsAfter(al, b, e, t)
    BY <1>1, <2>2 DEF RunsAfter
  <2> QED
    BY <1>4, <2>1, <2>2
<1> QED
  BY <1>3, <1>4 DEF f

\* One event taken: what is left does to a model that took it what all of them
\* did before.
LEMMA TailAlive ==
  ASSUME NEW al \in BOOLEAN, NEW bl \in BOOLEAN, NEW e \in Seq(Msgs), e # <<>>,
         bl <=> \/ e[1].type = "session_started"
                \/ e[1].type # "session_ended" /\ al,
         NEW n \in 1 .. Len(e)
  PROVE  AliveAfter(bl, Tail(e), n - 1) <=> AliveAfter(al, e, n)
<1> DEFINE f == Tail(e)
<1>1. /\ Len(e) \in Nat /\ n \in Nat /\ 1 <= n /\ n <= Len(e)
      /\ \A i \in 1 .. Len(e) - 1 : f[i] = e[i + 1]
  OBVIOUS
<1> HIDE DEF f
<1>2. ASSUME AliveAfter(al, e, n) PROVE AliveAfter(bl, f, n - 1)
  <2>1. PICK k \in 0 .. n :
          /\ IF k = 0 THEN al ELSE e[k].type = "session_started"
          /\ \A j \in k + 1 .. n : e[j].type # "session_ended"
    BY <1>2 DEF AliveAfter
  <2>2. CASE k <= 1
    <3>1. bl
      <4>1. CASE k = 0
        BY <2>1, <4>1
      <4>2. CASE k = 1
        BY <2>1, <4>2
      <4> QED
        BY <2>2, <4>1, <4>2
    <3>2. \A j \in 0 + 1 .. n - 1 : f[j].type # "session_ended"
      BY <1>1, <2>1, <2>2
    <3> QED
      <4>1. 0 \in 0 .. n - 1 /\ IF 0 = 0 THEN bl ELSE f[0].type = "session_started"
        BY <1>1, <3>1
      <4> QED
        BY <3>2, <4>1 DEF AliveAfter
  <2>3. CASE k > 1
    <3>1. k - 1 \in 0 .. n - 1 /\ k - 1 # 0 /\ f[k - 1] = e[k]
      BY <1>1, <2>3
    <3>2. \A j \in (k - 1) + 1 .. n - 1 : f[j].type # "session_ended"
      BY <1>1, <2>1, <2>3
    <3> QED
      BY <2>1, <2>3, <3>1, <3>2 DEF AliveAfter
  <2> QED
    BY <1>1, <2>2, <2>3
<1>3. ASSUME AliveAfter(bl, f, n - 1) PROVE AliveAfter(al, e, n)
  <2>1. PICK k \in 0 .. n - 1 :
          /\ IF k = 0 THEN bl ELSE f[k].type = "session_started"
          /\ \A j \in k + 1 .. n - 1 : f[j].type # "session_ended"
    BY <1>3 DEF AliveAfter
  <2>2. \A j \in k + 2 .. n : e[j].type # "session_ended"
    <3> SUFFICES ASSUME NEW j \in k + 2 .. n PROVE e[j].type # "session_ended"
      OBVIOUS
    <3>1. j - 1 \in k + 1 .. n - 1 /\ f[j - 1] = e[j]
      BY <1>1
    <3> QED
      BY <2>1, <3>1
  <2>3. CASE k > 0 \/ e[1].type = "session_started"
    <3>1. k + 1 \in 0 .. n /\ k + 1 # 0 /\ e[k + 1].type = "session_started"
      BY <1>1, <2>1, <2>3
    <3> QED
      BY <2>2, <3>1 DEF AliveAfter
  <2>4. CASE k = 0 /\ e[1].type # "session_started"
    <3>1. al /\ e[1].type # "session_ended"
      BY <2>1, <2>4
    <3>2. \A j \in 0 + 1 .. n : e[j].type # "session_ended"
      BY <2>2, <2>4, <3>1
    <3> QED
      BY <3>1, <3>2 DEF AliveAfter
  <2> QED
    BY <2>3, <2>4
<1> QED
  BY <1>2, <1>3 DEF f

\* The same of a task.
LEMMA TailRuns ==
  ASSUME NEW al \in BOOLEAN, NEW bl \in BOOLEAN, NEW b, NEW c, NEW t,
         NEW e \in Seq(Msgs), e # <<>>,
         bl <=> \/ e[1].type = "session_started"
                \/ e[1].type # "session_ended" /\ al,
         StartsBg(e[1], t) => al /\ c = "running",
         Stops(e[1], t) => ~ bl \/ c # "running",
         ~ StartsBg(e[1], t) /\ ~ Stops(e[1], t) => c = b
  PROVE  RunsAfter(bl, c, Tail(e), t) <=> RunsAfter(al, b, e, t)
<1> DEFINE f == Tail(e)
<1>1. Len(e) \in Nat /\ Len(e) > 0 /\ Len(f) = Len(e) - 1 /\ \A i \in 1 .. Len(e) - 1 : f[i] =
   e[i + 1]
  OBVIOUS
<1> HIDE DEF f
<1>2. ASSUME RunsAfter(al, b, e, t) PROVE RunsAfter(bl, c, f, t)
  <2>1. PICK k \in 0 .. Len(e) :
          /\ IF k = 0 THEN al /\ b = "running" ELSE StartsBg(e[k], t)
          /\ \A j \in k + 1 .. Len(e) : ~ Stops(e[j], t)
    BY <1>2 DEF RunsAfter
  <2>2. CASE k <= 1
    <3>1. bl /\ c = "running"
      <4>1. CASE k = 0
        <5>1. ~ Stops(e[1], t)
          BY <1>1, <2>1, <4>1
        <5> QED
          BY <2>1, <4>1, <5>1 DEF Stops
      <4>2. CASE k = 1
        BY <2>1, <4>2 DEF StartsBg
      <4> QED
        BY <2>2, <4>1, <4>2
    <3>2. \A j \in 0 + 1 .. Len(f) : ~ Stops(f[j], t)
      BY <1>1, <2>1, <2>2
    <3> QED
      <4>1. 0 \in 0 .. Len(f) /\ IF 0 = 0 THEN bl /\ c = "running" ELSE StartsBg(f[0], t)
        BY <1>1, <3>1
      <4> QED
        BY <3>2, <4>1 DEF RunsAfter
  <2>3. CASE k > 1
    <3>1. k - 1 \in 0 .. Len(f) /\ k - 1 # 0 /\ f[k - 1] = e[k]
      BY <1>1, <2>3
    <3>2. \A j \in (k - 1) + 1 .. Len(f) : ~ Stops(f[j], t)
      BY <1>1, <2>1, <2>3
    <3> QED
      BY <2>1, <2>3, <3>1, <3>2 DEF RunsAfter
  <2> QED
    BY <1>1, <2>2, <2>3
<1>3. ASSUME RunsAfter(bl, c, f, t) PROVE RunsAfter(al, b, e, t)
  <2>1. PICK k \in 0 .. Len(f) :
          /\ IF k = 0 THEN bl /\ c = "running" ELSE StartsBg(f[k], t)
          /\ \A j \in k + 1 .. Len(f) : ~ Stops(f[j], t)
    BY <1>3 DEF RunsAfter
  <2>2. \A j \in k + 2 .. Len(e) : ~ Stops(e[j], t)
    <3> SUFFICES ASSUME NEW j \in k + 2 .. Len(e) PROVE ~ Stops(e[j], t)
      OBVIOUS
    <3>1. j - 1 \in k + 1 .. Len(f) /\ f[j - 1] = e[j]
      BY <1>1
    <3> QED
      BY <2>1, <3>1
  <2>3. CASE k > 0 \/ StartsBg(e[1], t)
    <3>1. k + 1 \in 0 .. Len(e) /\ k + 1 # 0 /\ StartsBg(e[k + 1], t)
      BY <1>1, <2>1, <2>3
    <3> QED
      BY <2>2, <3>1 DEF RunsAfter
  <2>4. CASE k = 0 /\ ~ StartsBg(e[1], t)
    <3>1. al /\ b = "running" /\ ~ Stops(e[1], t)
      BY <2>1, <2>4 DEF Stops
    <3>2. \A j \in 0 + 1 .. Len(e) : ~ Stops(e[j], t)
      BY <2>2, <2>4, <3>1
    <3> QED
      BY <3>1, <3>2 DEF RunsAfter
  <2> QED
    BY <2>3, <2>4
<1> QED
  BY <1>2, <1>3 DEF f

-----------------------------------------------------------------------------
(* One event taken by the model and the page.                              *)

\* Apply: what a message makes the model know of the process and of the tasks.
LEMMA ApplyKnown ==
  ASSUME NEW mm, ModelOK(mm), NEW msg \in Msgs, EventMsg(msg)
  PROVE  /\ ModelOK(ApplyMsg(mm, msg))
         /\ ApplyMsg(mm, msg).alive <=>
              \/ msg.type = "session_started"
              \/ msg.type # "session_ended" /\ mm.alive
         /\ \A t \in Tools :
              /\ StartsBg(msg, t) => ApplyMsg(mm, msg).bg[t] = "running"
              /\ msg.type = "session_started" \/ EndsBg(msg, t) =>
                   ApplyMsg(mm, msg).bg[t] # "running"
              /\ ~ StartsBg(msg, t) /\ ~ Stops(msg, t) => ApplyMsg(mm, msg).bg[t] = mm.bg[t]
<1> DEFINE new == ApplyMsg(mm, msg)
<1>1. CASE msg.type = "tool_result"
  <2>1. new = ApplyResult(mm, msg)
    BY <1>1 DEF ApplyMsg
  <2>2. ModelOK(new) /\ (new.alive <=> mm.alive)
    <3> DEFINE answered == [mm EXCEPT !.perms = @ \ {msg.id}]
    <3>1. ModelOK(answered) /\ (answered.alive <=> mm.alive)
      BY DEF ModelOK
    <3>2. new = IF msg.agent # None THEN answered
                ELSE [answered EXCEPT !.results[msg.id] = msg.info,
                                      !.bg[msg.id] = IF msg.info = "bg" THEN "running" ELSE @]
      BY <2>1 DEF ApplyResult
    <3> HIDE DEF answered, new
    <3> QED
      BY <3>1, <3>2 DEF ModelOK
  <2>3. \A t \in Tools : /\ StartsBg(msg, t) => new.bg[t] = "running"
                         /\ ~ StartsBg(msg, t) => new.bg[t] = mm.bg[t]
    BY <1>1, <2>1 DEF ApplyResult, ModelOK, StartsBg, EventMsg, BgIsMain
  <2> QED
    BY <1>1, <2>2, <2>3 DEF Stops, EndsBg
<1>2. CASE msg.type = "task_done"
  <2>1. new = IF msg.id \in Tools
                THEN [mm EXCEPT !.bg[msg.id] = IF @ = "none" THEN @ ELSE "completed"] ELSE mm
    BY <1>2 DEF ApplyMsg
  <2>2. ModelOK(new) /\ (new.alive <=> mm.alive)
    BY <2>1 DEF ModelOK
  <2>3. \A t \in Tools : /\ msg.id = t => new.bg[t] # "running"
                         /\ msg.id # t => new.bg[t] = mm.bg[t]
    BY <2>1 DEF ModelOK
  <2> QED
    BY <1>2, <2>2, <2>3 DEF Stops, EndsBg, StartsBg
<1>3. CASE msg.type = "session_started"
  <2>1. new = ApplySessionStarted(mm)
    BY <1>3 DEF ApplyMsg
  <2>2. ModelOK(new) /\ new.alive /\ \A t \in Tools : new.bg[t] = "none"
    BY <2>1 DEF ApplySessionStarted, ModelOK
  <2> QED
    BY <1>3, <2>2 DEF Stops, EndsBg, StartsBg
<1>4. CASE msg.type = "session_ended"
  <2>1. new = [mm EXCEPT !.alive = FALSE]
    BY <1>4 DEF ApplyMsg
  <2>2. ModelOK(new) /\ ~ new.alive /\ new.bg = mm.bg
    BY <2>1 DEF ModelOK
  <2> QED
    BY <1>4, <2>2 DEF Stops, EndsBg, StartsBg
<1>5. CASE msg.type \notin {"tool_result", "task_done", "session_started", "session_ended"}
  <2>1. ModelOK(new) /\ (new.alive <=> mm.alive) /\ new.bg = mm.bg
    <3>1. CASE msg.type = "running"
      <4>1. new = [mm EXCEPT !.turn = TRUE]
        BY <3>1 DEF ApplyMsg
      <4> QED
        BY <4>1 DEF ModelOK
    <3>2. CASE msg.type = "done"
      <4>1. new = [mm EXCEPT !.turn = FALSE]
        BY <3>2 DEF ApplyMsg
      <4> QED
        BY <4>1 DEF ModelOK
    <3>3. CASE msg.type = "permission_request"
      <4>1. new = [mm EXCEPT !.perms = @ \cup {msg.id}]
        BY <3>3 DEF ApplyMsg
      <4> QED
        BY <3>3, <4>1 DEF ModelOK, EventMsg
    <3>4. CASE msg.type = "subagent_started"
      <4>1. new = [mm EXCEPT !.sections[msg.id] = "running", !.heads[msg.id] = msg.info]
        BY <3>4 DEF ApplyMsg
      <4> QED
        BY <4>1 DEF ModelOK
    <3>5. CASE msg.type = "subagent_finished"
      <4>1. new = ApplyFinished(mm, msg)
        BY <3>5 DEF ApplyMsg
      <4> QED
        BY <4>1 DEF ModelOK, ApplyFinished
    <3>6. CASE msg.type \notin {"running", "done", "permission_request", "subagent_started",
                                "subagent_finished"}
      <4>1. new = mm
        BY <1>5, <3>6 DEF ApplyMsg
      <4> QED
        BY <4>1
    <3> QED
      BY <3>1, <3>2, <3>3, <3>4, <3>5, <3>6
  <2> QED
    BY <1>5, <2>1 DEF Stops, EndsBg, StartsBg
<1> QED
  BY <1>1, <1>2, <1>3, <1>4, <1>5

\* Any change of other fields leaves these alone.
LEMMA AddChipShows ==
  ASSUME NEW p, PageOK(p), NEW chip
  PROVE  PageOK(AddChip(p, chip)) /\ AddChip(p, chip).stream = p.stream
BY DEF AddChip, PageOK

\* RenderEvent: which messages empty the streaming area.
LEMMA RenderShows ==
  ASSUME NEW mm, NEW p, PageOK(p), NEW msg \in Msgs, EventMsg(msg)
  PROVE  /\ PageOK(RenderEvent(mm, msg, p))
         /\ RenderEvent(mm, msg, p).stream = IF Clears(msg) THEN 0 ELSE p.stream
<1> DEFINE new == RenderEvent(mm, msg, p)
<1>1. CASE msg.type = "running"
  <2>1. new = [p EXCEPT !.stream = 0]
    BY <1>1 DEF RenderEvent
  <2> QED
    BY <1>1, <2>1 DEF PageOK, Clears
<1>2. CASE msg.type = "done"
  <2>1. new = [p EXCEPT !.stream = 0, !.dots = FALSE]
    BY <1>2 DEF RenderEvent
  <2> QED
    BY <1>2, <2>1 DEF PageOK, Clears
<1>3. CASE msg.type = "tool_use"
  <2>1. new = RenderToolUse(p, msg)
    BY <1>3 DEF RenderEvent
  <2>2. CASE msg.agent # None
    BY <1>3, <2>1, <2>2 DEF RenderToolUse, PageOK, Clears
  <2>3. CASE msg.agent = None
    <3> DEFINE q == AddChip(p, <<"tool", msg.id>>)
    <3>1. PageOK(q)
      BY AddChipShows
    <3>2. new = [q EXCEPT !.stream = 0, !.spin = @ \cup {msg.id}]
      BY <2>1, <2>3 DEF RenderToolUse
    <3> HIDE DEF q
    <3> QED
      BY <1>3, <2>3, <3>1, <3>2 DEF PageOK, Clears
  <2> QED
    BY <2>2, <2>3
<1>4. CASE msg.type = "tool_result"
  <2>1. new = RenderToolResult(mm, p, msg)
    BY <1>4 DEF RenderEvent
  <2> QED
    BY <1>4, <2>1 DEF RenderToolResult, PageOK, Clears
<1>5. CASE msg.type = "task_done"
  <2>1. new = [p EXCEPT !.spin = @ \ {msg.id}]
    BY <1>5 DEF RenderEvent
  <2> QED
    BY <1>5, <2>1 DEF PageOK, Clears
<1>6. CASE msg.type = "text"
  <2> DEFINE q == AddChip(p, <<"text", msg.id>>)
  <2>1. PageOK(q)
    BY AddChipShows
  <2>2. new = [q EXCEPT !.stream = 0]
    BY <1>6 DEF RenderEvent, RenderText
  <2> HIDE DEF q
  <2> QED
    BY <1>6, <2>1, <2>2 DEF PageOK, Clears
<1>7. CASE msg.type = "permission_request"
  <2>1. new = IF OnPage(p, msg.id) THEN [p EXCEPT !.prompt = @ \cup {msg.id}] ELSE p
    BY <1>7 DEF RenderEvent
  <2>2. msg.id \in AllTools
    BY <1>7 DEF EventMsg
  <2> QED
    BY <1>7, <2>1, <2>2 DEF PageOK, Clears
<1>8. CASE msg.type = "subagent_started"
  <2> DEFINE q == AddChip(p, Section(msg.id))
  <2>1. PageOK(q) /\ q.stream = p.stream
    BY AddChipShows
  <2>2. new = [q EXCEPT !.sspin = @ \cup {msg.id}, !.head[msg.id] = msg.info]
    BY <1>8 DEF RenderEvent
  <2> HIDE DEF q
  <2> QED
    BY <1>8, <2>1, <2>2 DEF PageOK, Clears
<1>9. CASE msg.type = "subagent_finished"
  <2>1. new = RenderFinished(mm, p, msg)
    BY <1>9 DEF RenderEvent
  <2> QED
    BY <1>9, <2>1 DEF RenderFinished, PageOK, Clears
<1>10. CASE msg.type \in {"session_started", "session_ended"}
  <2>1. \E b : new = [p EXCEPT !.alive = b]
    BY <1>10 DEF RenderEvent
  <2> QED
    BY <1>10, <2>1 DEF PageOK, Clears
<1>11. CASE msg.type = "user_message"
  <2>1. new = AddChip(p, <<"user", msg.id>>)
    BY <1>11 DEF RenderEvent
  <2> QED
    BY <1>11, <2>1, AddChipShows DEF Clears
<1>12. CASE msg.type \notin {"running", "done", "tool_use", "tool_result", "task_done", "text",
                             "permission_request", "subagent_started", "subagent_finished",
                             "session_started", "session_ended", "user_message"}
  <2>1. new = p
    BY <1>12 DEF RenderEvent
  <2> QED
    BY <1>12, <2>1 DEF Clears
<1> QED
  BY <1>1, <1>2, <1>3, <1>4, <1>5, <1>6, <1>7, <1>8, <1>9, <1>10, <1>11, <1>12

\* The active commands are refreshed apart from it.
LEMMA ProcessShows ==
  ASSUME NEW before, NEW after, NEW p, PageOK(p), NEW msg \in Msgs, EventMsg(msg)
  PROVE  /\ PageOK(ProcessEvent(before, after, msg, p))
         /\ ProcessEvent(before, after, msg, p).stream = IF Clears(msg) THEN 0 ELSE p.stream
<1> DEFINE q == RenderEvent(after, msg, p)
<1>1. PageOK(q) /\ q.stream = IF Clears(msg) THEN 0 ELSE p.stream
  BY RenderShows
<1>2. ProcessEvent(before, after, msg, p) \in {q, ActiveCmds(after, q)}
  BY DEF ProcessEvent
<1> HIDE DEF q
<1>3. PageOK(ActiveCmds(after, q)) /\ ActiveCmds(after, q).stream = q.stream
  BY <1>1 DEF ActiveCmds, PageOK
<1> QED
  BY <1>1, <1>2, <1>3

-----------------------------------------------------------------------------
(* What the scan goroutine does with one stream event.                     *)

ScanActs ==
  \/ UserMessage \/ Text \/ TurnEnds
  \/ \E kind \in {"text", "thinking"} : Delta(kind)
  \/ \E t \in Tools : UseTool(t) \/ BgDone(t)
  \/ \E t \in Tools, info \in {"out", "empty", "images", "bg"} : ToolResult(t, info)
  \/ \E t \in Inner : UseInner(t)
  \/ \E t \in Inner, info \in {"out", "empty", "images"} : InnerResultEvent(t, info)
  \/ \E a \in Agents : \/ TaskStarted(a) \/ TaskProgress(a) \/ TaskNotification(a)
                       \/ AgentResult(a)
                       \/ \E background \in BOOLEAN : UseAgent(a, background)

StatsOK == stats \in [Agents -> StatType] /\ \A a \in Agents : stats[a].open => stats[a].known
Says(msgs) ==
  /\ msgs \in Seq(Msgs)
  /\ \A i \in DOMAIN msgs : ScanMsg(msgs[i])
  /\ out' = [out EXCEPT !["scan"] = msgs]

\* One message to say.
LEMMA OneMsg ==
  ASSUME NEW x \in Msgs
  PROVE  <<x>> \in Seq(Msgs) /\ DOMAIN <<x>> = {1} /\ <<x>>[1] = x /\ Len(<<x>>) = 1
OBVIOUS

\* Two messages to say.
LEMMA TwoMsgs ==
  ASSUME NEW x \in Msgs, NEW y \in Msgs
  PROVE  /\ <<x, y>> \in Seq(Msgs) /\ DOMAIN <<x, y>> = {1, 2} /\ Len(<<x, y>>) = 2
         /\ <<x, y>>[1] = x /\ <<x, y>>[2] = y
OBVIOUS

\* What Msg makes is a message.
LEMMA MsgIsMsg ==
  ASSUME NEW type \in MsgTypes, NEW id \in AllTools \cup Agents \cup Nat,
         NEW agent \in Agents \cup {None}, NEW info \in Infos
  PROVE  /\ Msg(type, id, agent, info) \in Msgs
         /\ Msg(type, id, agent, info).type = type /\ Msg(type, id, agent, info).id = id
         /\ Msg(type, id, agent, info).agent = agent /\ Msg(type, id, agent, info).info = info
BY DEF Msg, Msgs

\* A handler without a message.
LEMMA SaysNothing ==
  ASSUME out' = [out EXCEPT !["scan"] = <<>>]
  PROVE  Says(<<>>)
<1>1. <<>> \in Seq(Msgs) /\ DOMAIN <<>> = {}
  OBVIOUS
<1> QED
  BY <1>1 DEF Says

\* A handler with one message.
LEMMA SaysOne ==
  ASSUME NEW x \in Msgs, ScanMsg(x), out' = [out EXCEPT !["scan"] = <<x>>]
  PROVE  Says(<<x>>)
BY OneMsg DEF Says

\* A handler with two messages.
LEMMA SaysTwo ==
  ASSUME NEW x \in Msgs, NEW y \in Msgs, ScanMsg(x), ScanMsg(y),
         out' = [out EXCEPT !["scan"] = <<x, y>>]
  PROVE  Says(<<x, y>>)
BY TwoMsgs DEF Says

\* StartAgent and FinishAgent keep the types of the stats, and close no unknown agent.
LEMMA StatsKept ==
  ASSUME StatsOK, NEW a \in Agents, NEW h \in Headings
  PROVE  /\ StartAgent(a, h) \in [Agents -> StatType]
         /\ FinishAgent(a) \in [Agents -> StatType]
         /\ \A b \in Agents : StartAgent(a, h)[b].open => StartAgent(a, h)[b].known
         /\ \A b \in Agents : FinishAgent(a)[b].open => FinishAgent(a)[b].known
<1>1. /\ FinishAgent(a) \in [Agents -> StatType]
      /\ \A b \in Agents : FinishAgent(a)[b].open => FinishAgent(a)[b].known
  BY DEF StatsOK, FinishAgent, StatType
<1>2. CASE stats[a].open
  BY <1>1, <1>2 DEF StatsOK, StartAgent, StatType
<1>3. CASE ~ stats[a].open
  BY <1>1, <1>3 DEF StatsOK, StartAgent, StatType
<1> QED
  BY <1>1, <1>2, <1>3

\* What a step of the scan goroutine that says msgs keeps of each part of the
\* invariant.
OthersKept ==
  /\ cli' \in CliType /\ cli'.alive = cli.alive
  /\ stats' \in [Agents -> StatType]
  /\ \A a \in Agents : stats[a].open' => stats[a].known'
  /\ timers' \subseteq timers
  /\ out["sender"] = <<>>
  /\ \A a \in Agents : cli'.agent[a] # "new" => a \notin Tools
TasksSaid(msgs) ==
  \A t \in Tools :
    /\ cli.tool[t] = "done" => cli'.tool[t] = "done"
    /\ \A i \in DOMAIN msgs : StartsBg(msgs[i], t) => Len(msgs) = 1 /\ cli'.tool[t] = "done"
    /\ t \in timers \ timers' => \E i \in DOMAIN msgs : EndsBg(msgs[i], t)
    /\ \A i \in DOMAIN msgs : EndsBg(msgs[i], t) => t \notin timers'
StreamSaid(msgs) ==
  /\ cli'.cut = cli.cut
  /\ cli'.block # "none" => cli'.turn = "running"
  /\ \A i \in DOMAIN msgs :
       /\ msgs[i].type = "delta" =>
            Len(msgs) = 1 /\ stream.n = cli'.frags - 1 /\ cli'.block # "none"
       /\ msgs[i].type = "text" => Len(msgs) = 1 /\ msgs[i].agent = None
       /\ IsStreamingFlushTrigger(msgs[i]) \/ msgs[i].type = "running" => cli'.block = "none"
  /\ cli'.block # "none" /\ (\A i \in DOMAIN msgs : msgs[i].type # "delta") =>
       stream.n = cli'.frags
  /\ cli'.turn = "running" /\ cli'.block = "none" =>
       stream.n = 0 \/ \E i \in DOMAIN msgs : msgs[i].type \in {"text", "running"}
  /\ cli'.cut = {} /\ cli'.block = "none" =>
       stream.n = 0 \/ \E i \in DOMAIN msgs : msgs[i].type = "text"
Handled(msgs) == Says(msgs) /\ TasksSaid(msgs) /\ StreamSaid(msgs)

\* Messages about neither a block nor a turn leave the stream as it is.
LEMMA OtherStream ==
  ASSUME Shapes, StreamFollows, Scans, NEW msgs,
         cli'.block = cli.block, cli'.frags = cli.frags, cli'.turn = cli.turn, cli'.cut = cli.cut,
         \A i \in DOMAIN msgs :
           /\ msgs[i].type \notin {"delta", "text", "running"}
           /\ IsStreamingFlushTrigger(msgs[i]) => cli.block = "none"
  PROVE  StreamSaid(msgs)
<1>1. DOMAIN out["scan"] = {}
  BY DEF Scans
<1> QED
  BY <1>1 DEF StreamFollows, StreamSaid

\* Messages that are no start or end of a task leave the timers alone.
LEMMA OtherTasks ==
  ASSUME NEW msgs, timers' = timers,
         \A t \in Tools : cli.tool[t] = "done" => cli'.tool[t] = "done",
         \A t \in Tools, i \in DOMAIN msgs :
           ~ StartsBg(msgs[i], t) /\ ~ EndsBg(msgs[i], t)
  PROVE  TasksSaid(msgs)
BY DEF TasksSaid

-----------------------------------------------------------------------------
(* One lemma for each group of events: the turn and its text, the tools,   *)
(* the agents.                                                             *)

ScanInv == Shapes /\ Speech /\ OneSpeaks /\ TasksTimed /\ StreamFollows

\* The events that begin and end a turn.
LEMMA TurnSays ==
  ASSUME ScanInv, UserMessage \/ TurnEnds
  PROVE  OthersKept /\ \E msgs : Handled(msgs)
<1> USE DEF ScanInv
<1>1. DOMAIN out["scan"] = {} /\ cli \in CliType
  BY DEF UserMessage, TurnEnds, Scans, Shapes
<1>2. CASE UserMessage
  <2> DEFINE x == Msg("user_message", cli.turns + 1, None, "none")
             y == Msg("running", 0, None, "none")
  <2>1. /\ x \in Msgs /\ x.type = "user_message"
        /\ y \in Msgs /\ y.type = "running" /\ y.agent = None
    <3>1. cli.turns + 1 \in Nat
      BY <1>1 DEF CliType
    <3> QED
      BY <3>1 DEF Msg, Msgs, MsgTypes, Infos, Headings
  <2>2. /\ cli.turn = "idle" /\ out["sender"] = <<>> /\ out' = [out EXCEPT !["scan"] = <<x, y>>]
        /\ cli' = [cli EXCEPT !.turn = "running", !.turns = @ + 1]
        /\ timers' = timers /\ stats' = stats
    BY <1>2 DEF UserMessage, Emit
  <2> HIDE DEF x, y
  <2>3. ScanMsg(x) /\ ScanMsg(y)
    BY <2>1 DEF ScanMsg, BgIsMain
  <2>4. Says(<<x, y>>)
    BY <2>1, <2>2, <2>3, SaysTwo
  <2>5. DOMAIN <<x, y>> = {1, 2} /\ <<x, y>>[1] = x /\ <<x, y>>[2] = y
    OBVIOUS
  <2>6. /\ cli' \in CliType /\ cli'.tool = cli.tool /\ cli'.agent = cli.agent
        /\ cli'.cut = cli.cut /\ cli'.block = cli.block /\ cli'.alive = cli.alive
    <3>1. cli.turns + 1 \in Nat /\ cli' = [[cli EXCEPT !.turn = "running"] EXCEPT !.turns =
       cli.turns + 1]
      BY <1>1, <2>2 DEF CliType
    <3>2. [cli EXCEPT !.turn = "running"] \in CliType
      BY <1>1 DEF CliType
    <3>3. cli' \in CliType
      BY <3>1, <3>2 DEF CliType
    <3> QED
      BY <1>1, <2>2, <3>3 DEF CliType
  <2>7. TasksSaid(<<x, y>>)
    BY <2>1, <2>2, <2>5, <2>6, OtherTasks DEF StartsBg, EndsBg
  <2>8. cli.block = "none"
    BY <2>2 DEF StreamFollows
  <2>9. StreamSaid(<<x, y>>)
    <3>1. cli.cut = {} => stream.n = 0
      BY <1>1, <2>8 DEF StreamFollows
    <3> QED
      BY <2>1, <2>5, <2>6, <2>8, <3>1 DEF StreamSaid, IsStreamingFlushTrigger
  <2>10. OthersKept
    BY <2>2, <2>6 DEF OthersKept, Shapes, OneSpeaks
  <2> QED
    BY <2>4, <2>7, <2>9, <2>10 DEF Handled
<1>3. CASE TurnEnds
  <2> DEFINE x == Msg("done", 0, None, "none")
  <2>1. x \in Msgs /\ x.type = "done"
    BY DEF Msg, Msgs, MsgTypes, Infos, Headings
  <2>2. /\ cli.turn # "idle" /\ cli.block = "none" /\ out' = [out EXCEPT !["scan"] = <<x>>]
        /\ cli' = [cli EXCEPT !.turn = "idle"]
        /\ timers' = timers /\ stats' = stats
    BY <1>3 DEF TurnEnds, Emit
  <2> HIDE DEF x
  <2>3. ScanMsg(x)
    BY <2>1 DEF ScanMsg, BgIsMain
  <2>4. Says(<<x>>)
    BY <2>1, <2>2, <2>3, SaysOne
  <2>5. DOMAIN <<x>> = {1} /\ <<x>>[1] = x
    OBVIOUS
  <2>6. /\ cli' \in CliType /\ cli'.tool = cli.tool /\ cli'.agent = cli.agent /\ cli'.turn = "idle"
        /\ cli'.cut = cli.cut /\ cli'.block = cli.block /\ cli'.alive = cli.alive
    BY <1>1, <2>2 DEF CliType
  <2>7. TasksSaid(<<x>>)
    BY <2>1, <2>2, <2>5, <2>6, OtherTasks DEF StartsBg, EndsBg
  <2>9. StreamSaid(<<x>>)
    <3>1. cli.cut = {} => stream.n = 0
      BY <1>1, <2>2 DEF StreamFollows
    <3> QED
      BY <2>1, <2>2, <2>5, <2>6, <3>1 DEF StreamSaid, IsStreamingFlushTrigger
  <2>10. OthersKept
    BY <2>2, <2>6 DEF OthersKept, Shapes, OneSpeaks, Quiet
  <2> QED
    BY <2>4, <2>7, <2>9, <2>10 DEF Handled
<1> QED
  BY <1>2, <1>3

\* The events of a block.
LEMMA TextSays ==
  ASSUME ScanInv, Text \/ \E kind \in {"text", "thinking"} : Delta(kind)
  PROVE  OthersKept /\ \E msgs : Handled(msgs)
<1> USE DEF ScanInv
<1>1. /\ DOMAIN out["scan"] = {} /\ cli \in CliType /\ cli.turn = "running"
      /\ timers' = timers /\ stats' = stats
  BY DEF Text, Delta, Scans, Shapes
<1>2. out["sender"] = <<>>
  BY <1>1 DEF OneSpeaks, Quiet
<1>3. CASE Text
  <2> DEFINE x == Msg("text", cli.blocks, None, cli.block)
  <2>1. x \in Msgs /\ x.type = "text" /\ x.agent = None
    <3>1. cli.blocks \in Nat /\ cli.block \in {"none", "text", "thinking"}
      BY <1>1 DEF CliType
    <3> QED
      BY <3>1 DEF Msg, Msgs, MsgTypes, Infos, Headings
  <2>2. /\ cli.block # "none" /\ out' = [out EXCEPT !["scan"] = <<x>>]
        /\ cli' = [cli EXCEPT !.block = "none"]
    BY <1>3 DEF Text, Emit
  <2> HIDE DEF x
  <2>3. ScanMsg(x)
    BY <2>1 DEF ScanMsg, BgIsMain
  <2>4. Says(<<x>>)
    BY <2>1, <2>2, <2>3, SaysOne
  <2>5. DOMAIN <<x>> = {1} /\ <<x>>[1] = x /\ Len(<<x>>) = 1
    OBVIOUS
  <2>6. /\ cli' \in CliType /\ cli'.tool = cli.tool /\ cli'.agent = cli.agent
        /\ cli'.cut = cli.cut /\ cli'.block = "none" /\ cli'.alive = cli.alive
    BY <1>1, <2>2 DEF CliType
  <2>7. TasksSaid(<<x>>)
    BY <1>1, <2>1, <2>5, <2>6, OtherTasks DEF StartsBg, EndsBg
  <2>9. StreamSaid(<<x>>)
    BY <2>1, <2>5, <2>6 DEF StreamSaid, IsStreamingFlushTrigger
  <2>10. OthersKept
    BY <1>1, <1>2, <2>6 DEF OthersKept, Shapes, OneSpeaks
  <2> QED
    BY <2>4, <2>7, <2>9, <2>10 DEF Handled
<1>4. ASSUME NEW kind \in {"text", "thinking"}, Delta(kind)
      PROVE  OthersKept /\ \E msgs : Handled(msgs)
  <2> DEFINE x == Msg("delta", cli'.blocks, None, kind)
  <2>6. /\ cli' \in CliType /\ cli'.tool = cli.tool /\ cli'.agent = cli.agent
        /\ cli'.cut = cli.cut /\ cli'.block = kind /\ cli'.alive = cli.alive
        /\ cli'.turn = "running" /\ stream.n = cli'.frags - 1
    <3>1. CASE cli.block = kind /\ cli.frags < MaxFrags /\ cli' = [cli EXCEPT !.frags = @ + 1]
      <4>1. stream.n = cli.frags
        BY <1>1, <3>1 DEF StreamFollows
      <4>2. cli.frags \in 0 .. MaxFrags
        BY <1>1 DEF CliType
      <4>3. cli.frags + 1 \in 0 .. MaxFrags /\ cli'.frags = cli.frags + 1
        BY <1>1, <3>1, <4>2, BoundAssumption DEF CliType
      <4> QED
        BY <1>1, <3>1, <4>1, <4>2, <4>3 DEF CliType
    <3>2. CASE cli.block = "none" /\ cli' = [cli EXCEPT !.block = kind, !.frags = 1, !.blocks = @
       + 1]
      <4>1. stream.n = 0
        BY <1>1, <3>2 DEF StreamFollows
      <4>2. 1 \in 0 .. MaxFrags /\ cli.blocks + 1 \in Nat
        BY <1>1, BoundAssumption DEF CliType
      <4> DEFINE c == [cli EXCEPT !.block = kind, !.frags = 1]
      <4>3. c \in CliType /\ c.blocks = cli.blocks
        BY <1>1, <4>2 DEF CliType
      <4>4. cli' = [c EXCEPT !.blocks = cli.blocks + 1]
        BY <1>1, <3>2 DEF CliType
      <4>5. /\ c.tool = cli.tool /\ c.agent = cli.agent /\ c.cut = cli.cut /\ c.block = kind
            /\ c.alive = cli.alive /\ c.turn = "running" /\ c.frags = 1
        BY <1>1 DEF CliType
      <4> HIDE DEF c
      <4> QED
        BY <4>1, <4>2, <4>3, <4>4, <4>5 DEF CliType
    <3> QED
      BY <1>4, <3>1, <3>2 DEF Delta
  <2>1. x \in Msgs /\ x.type = "delta"
    <3>1. cli'.blocks \in Nat
      BY <2>6 DEF CliType
    <3> QED
      BY <3>1 DEF Msg, Msgs, MsgTypes, Infos, Headings
  <2>2. out' = [out EXCEPT !["scan"] = <<x>>]
    BY <1>4 DEF Delta, Emit
  <2> HIDE DEF x
  <2>3. ScanMsg(x)
    BY <2>1 DEF ScanMsg, BgIsMain
  <2>4. Says(<<x>>)
    BY <2>1, <2>2, <2>3, SaysOne
  <2>5. DOMAIN <<x>> = {1} /\ <<x>>[1] = x /\ Len(<<x>>) = 1
    OBVIOUS
  <2>7. TasksSaid(<<x>>)
    BY <1>1, <2>1, <2>5, <2>6, OtherTasks DEF StartsBg, EndsBg
  <2>9. StreamSaid(<<x>>)
    BY <2>1, <2>5, <2>6 DEF StreamSaid, IsStreamingFlushTrigger
  <2>10. OthersKept
    BY <1>1, <1>2, <2>6 DEF OthersKept, Shapes, OneSpeaks
  <2> QED
    BY <2>4, <2>7, <2>9, <2>10 DEF Handled
<1> QED
  BY <1>3, <1>4

\* A tool or an agent enters another phase.
LEMMA ToolMoves ==
  ASSUME cli \in CliType, NEW t \in AllTools, NEW phase \in Phases,
         cli' = [cli EXCEPT !.tool[t] = phase]
  PROVE  /\ cli' \in CliType /\ cli'.agent = cli.agent /\ cli'.alive = cli.alive
         /\ cli'.block = cli.block /\ cli'.frags = cli.frags
         /\ cli'.turn = cli.turn /\ cli'.cut = cli.cut
         /\ cli'.tool = [cli.tool EXCEPT ![t] = phase]
         /\ cli'.tool[t] = phase /\ \A u \in AllTools : u # t => cli'.tool[u] = cli.tool[u]
BY DEF CliType

\* An agent enters another phase.
LEMMA AgentMoves ==
  ASSUME cli \in CliType, NEW a \in Agents, NEW phase \in AgentPhases,
         cli' = [cli EXCEPT !.agent[a] = phase]
  PROVE  /\ cli' \in CliType /\ cli'.tool = cli.tool /\ cli'.alive = cli.alive
         /\ cli'.block = cli.block /\ cli'.frags = cli.frags
         /\ cli'.turn = cli.turn /\ cli'.cut = cli.cut
         /\ cli'.agent[a] = phase /\ \A b \in Agents : b # a => cli'.agent[b] = cli.agent[b]
BY DEF CliType

\* A handler that leaves out alone has nothing to say.
LEMMA SilentScan ==
  ASSUME Speech, Scans, UNCHANGED out
  PROVE  Says(<<>>) /\ DOMAIN <<>> = {}
<1>1. out' = [out EXCEPT !["scan"] = <<>>] /\ DOMAIN <<>> = {}
  BY DEF Speech, Scans, Goroutines
<1> QED
  BY <1>1, SaysNothing

\* The messages of the end of an agent.
LEMMA FinishSays ==
  ASSUME NEW a \in Agents, NEW h \in Headings,
         out' = [out EXCEPT !["scan"] = <<Msg("subagent_finished", a, None, h),
                                          Msg("task_done", a, None, "none")>>]
  PROVE  \E x, y \in Msgs :
           /\ Says(<<x, y>>) /\ DOMAIN <<x, y>> = {1, 2} /\ <<x, y>>[1] = x /\ <<x, y>>[2] = y
           /\ x.type = "subagent_finished" /\ y.type = "task_done" /\ y.id = a
<1> DEFINE x == Msg("subagent_finished", a, None, h)
           y == Msg("task_done", a, None, "none")
<1>1. x \in Msgs /\ y \in Msgs /\ x.type = "subagent_finished" /\ y.type = "task_done" /\ y.id = a
  BY DEF Msg, Msgs, MsgTypes, Infos, Headings
<1>2. out' = [out EXCEPT !["scan"] = <<x, y>>]
  OBVIOUS
<1> HIDE DEF x, y
<1>3. ScanMsg(x) /\ ScanMsg(y)
  BY <1>1 DEF ScanMsg, BgIsMain
<1>4. Says(<<x, y>>) /\ DOMAIN <<x, y>> = {1, 2} /\ <<x, y>>[1] = x /\ <<x, y>>[2] = y
  <2>1. Says(<<x, y>>)
    BY <1>1, <1>2, <1>3, SaysTwo
  <2> QED
    BY <1>1, <2>1, TwoMsgs
<1> QED
  BY <1>1, <1>4

\* The messages of a handler after those of another.
LEMMA ConcatTwo ==
  ASSUME NEW x \in Msgs, NEW y \in Msgs
  PROVE  <<x>> \o <<y>> = <<x, y>>
<1> DEFINE s == <<x>>  u == <<y>>  v == <<x, y>>
<1>1. /\ s \in Seq(Msgs) /\ u \in Seq(Msgs) /\ v \in Seq(Msgs)
      /\ Len(s) = 1 /\ Len(u) = 1 /\ Len(v) = 2
      /\ s[1] = x /\ u[1] = y /\ v[1] = x /\ v[2] = y
  BY OneMsg, TwoMsgs
<1> HIDE DEF s, u, v
<1>2. /\ s \o u \in Seq(Msgs) /\ Len(s \o u) = 2
      /\ (s \o u)[1] = x /\ (s \o u)[2] = y
  <2>1. /\ s \o u \in Seq(Msgs) /\ Len(s \o u) = Len(s) + Len(u)
        /\ \A i \in 1 .. Len(s) + Len(u) :
             (s \o u)[i] = IF i <= Len(s) THEN s[i] ELSE u[i - Len(s)]
    BY <1>1, ConcatProperties
  <2>2. Len(s \o u) = 2
    BY <1>1, <2>1
  <2>3. (s \o u)[1] = s[1] /\ (s \o u)[2] = u[1]
    BY <1>1, <2>1
  <2> QED
    BY <1>1, <2>1, <2>2, <2>3
<1>3. s \o u = v
  BY <1>1, <1>2, SeqEqual
<1> QED
  BY <1>3 DEF s, u, v

\* The events of the tools of the main conversation.
LEMMA ToolsSay ==
  ASSUME ScanInv, NEW t \in Tools,
         UseTool(t) \/ BgDone(t) \/ \E info \in {"out", "empty", "images", "bg"} : ToolResult(t,
            info)
  PROVE  OthersKept /\ \E msgs : Handled(msgs)
<1> USE DEF ScanInv
<1>0. t \in AllTools
  BY DEF AllTools
<1>1. DOMAIN out["scan"] = {} /\ cli \in CliType /\ cli.alive /\ Scans
  BY DEF UseTool, BgDone, ToolResult, Scans, Shapes
<1>2. out["sender"] = <<>>
  BY DEF OneSpeaks, Quiet, UseTool, BgDone, ToolResult
<1>3. CASE UseTool(t)
  <2> DEFINE x == Msg("tool_use", t, None, Kind[t])
  <2>1. x \in Msgs /\ x.type = "tool_use"
    <3>1. Kind[t] \in {"Bash", "Read", "Skill", "Other"}
      BY ToolAssumption
    <3> QED
      BY <1>0, <3>1 DEF Msg, Msgs, MsgTypes, Infos
  <2>2. /\ cli.block = "none" /\ out' = [out EXCEPT !["scan"] = <<x>>]
        /\ cli' = [cli EXCEPT !.tool[t] = "used"] /\ cli.tool[t] = "new"
        /\ timers' = timers /\ stats' = stats
    BY <1>3 DEF UseTool, Emit
  <2> HIDE DEF x
  <2>3. ScanMsg(x)
    BY <2>1 DEF ScanMsg, BgIsMain
  <2>4. Says(<<x>>)
    BY <2>1, <2>2, <2>3, SaysOne
  <2>5. DOMAIN <<x>> = {1} /\ <<x>>[1] = x /\ Len(<<x>>) = 1
    OBVIOUS
  <2>6. /\ cli' \in CliType /\ cli'.agent = cli.agent /\ cli'.alive = cli.alive
        /\ cli'.block = cli.block /\ cli'.frags = cli.frags
        /\ cli'.turn = cli.turn /\ cli'.cut = cli.cut
        /\ \A u \in AllTools : u # t => cli'.tool[u] = cli.tool[u]
    BY <1>0, <1>1, <2>2, ToolMoves DEF Phases
  <2>7. \A u \in Tools : cli.tool[u] = "done" => cli'.tool[u] = "done"
    BY <2>2, <2>6 DEF AllTools
  <2>8. TasksSaid(<<x>>)
    BY <2>1, <2>2, <2>5, <2>7, OtherTasks DEF StartsBg, EndsBg
  <2>9. StreamSaid(<<x>>)
    BY <1>1, <2>1, <2>2, <2>5, <2>6, OtherStream
  <2>10. OthersKept
    BY <1>2, <2>2, <2>6 DEF OthersKept, Shapes, OneSpeaks
  <2> QED
    BY <2>4, <2>8, <2>9, <2>10 DEF Handled
<1>4. CASE BgDone(t)
  <2> DEFINE x == Msg("task_done", t, None, "none")
  <2>1. x \in Msgs /\ x.type = "task_done" /\ x.id = t
    BY <1>0 DEF Msg, Msgs, MsgTypes, Infos, Headings
  <2>2. /\ t \in timers /\ timers' = timers \ {t}
        /\ cli' = cli /\ stats' = stats /\ out' = [out EXCEPT !["scan"] = <<x>>]
    BY <1>4 DEF BgDone, Emit
  <2> HIDE DEF x
  <2>3. ScanMsg(x)
    BY <2>1 DEF ScanMsg, BgIsMain
  <2>4. Says(<<x>>)
    BY <2>1, <2>2, <2>3, SaysOne
  <2>5. DOMAIN <<x>> = {1} /\ <<x>>[1] = x /\ Len(<<x>>) = 1
    OBVIOUS
  <2>8. TasksSaid(<<x>>)
    BY <2>1, <2>2, <2>5 DEF TasksSaid, StartsBg, EndsBg
  <2>9. StreamSaid(<<x>>)
    BY <1>1, <2>1, <2>2, <2>5, OtherStream DEF IsStreamingFlushTrigger
  <2>10. OthersKept
    BY <1>1, <1>2, <2>2 DEF OthersKept, Shapes, OneSpeaks
  <2> QED
    BY <2>4, <2>8, <2>9, <2>10 DEF Handled
<1>5. ASSUME NEW info \in {"out", "empty", "images", "bg"}, ToolResult(t, info)
      PROVE  OthersKept /\ \E msgs : Handled(msgs)
  <2>1. /\ cli.block = "none" /\ cli.tool[t] # "done" /\ timers' = timers
        /\ cli' = [cli EXCEPT !.tool[t] = "done"]
    BY <1>5 DEF ToolResult, Unresolved
  <2>2. /\ cli' \in CliType /\ cli'.agent = cli.agent /\ cli'.alive = cli.alive
        /\ cli'.block = cli.block /\ cli'.frags = cli.frags
        /\ cli'.turn = cli.turn /\ cli'.cut = cli.cut /\ cli'.tool[t] = "done"
        /\ \A u \in AllTools : u # t => cli'.tool[u] = cli.tool[u]
    BY <1>0, <1>1, <2>1, ToolMoves DEF Phases
  <2>3. \A u \in Tools : cli.tool[u] = "done" => cli'.tool[u] = "done"
    BY <2>2 DEF AllTools
  <2>4. t \notin timers
    BY <2>1 DEF TasksTimed
  <2>5. CASE t \in Agents /\ stats[t].known
    <3>1. stats[t].heading \in Headings
      BY <2>5 DEF Shapes, StatType
    <3>2. stats' = FinishAgent(t) /\ out' = [out EXCEPT !["scan"] = FinishedBy(t)]
      BY <1>5, <2>5 DEF ToolResult, Emit
    <3>3. PICK x, y \in Msgs :
           /\ Says(<<x, y>>) /\ DOMAIN <<x, y>> = {1, 2} /\ <<x, y>>[1] = x /\ <<x, y>>[2] = y
           /\ x.type = "subagent_finished" /\ y.type = "task_done" /\ y.id = t
      BY <2>5, <3>1, <3>2, FinishSays DEF FinishedBy
    <3>4. TasksSaid(<<x, y>>)
      BY <2>1, <2>3, <2>4, <3>3 DEF TasksSaid, StartsBg, EndsBg
    <3>5. StreamSaid(<<x, y>>)
      BY <1>1, <2>1, <2>2, <3>3, OtherStream
    <3>6. /\ stats' \in [Agents -> StatType]
          /\ \A a \in Agents : stats'[a].open => stats'[a].known
      BY <2>5, <3>1, <3>2, StatsKept DEF StatsOK, Shapes
    <3>7. OthersKept
      BY <1>2, <2>1, <2>2, <3>6 DEF OthersKept, OneSpeaks
    <3> QED
      BY <3>3, <3>4, <3>5, <3>7 DEF Handled
  <2>6. CASE ~ (t \in Agents /\ stats[t].known)
    <3> DEFINE i == IF Suppressed(t) /\ info = "out" THEN "empty" ELSE info
               x == Msg("tool_result", t, None, i)
    <3>1. /\ x \in Msgs /\ x.type = "tool_result" /\ x.agent = None
          /\ x.info = i /\ x.id = t
      BY <1>0 DEF Msg, Msgs, MsgTypes, Infos
    <3>2. stats' = stats /\ out' = [out EXCEPT !["scan"] = <<x>>]
      BY <1>5, <2>6 DEF ToolResult, Emit
    <3> HIDE DEF x, i
    <3>3. ScanMsg(x)
      BY <3>1 DEF ScanMsg, BgIsMain
    <3>4. Says(<<x>>)
      BY <3>1, <3>2, <3>3, SaysOne
    <3>5. DOMAIN <<x>> = {1} /\ <<x>>[1] = x /\ Len(<<x>>) = 1
      OBVIOUS
    <3>6. TasksSaid(<<x>>)
      BY <2>1, <2>2, <2>3, <3>1, <3>5 DEF TasksSaid, StartsBg, EndsBg
    <3>7. StreamSaid(<<x>>)
      BY <1>1, <2>1, <2>2, <3>1, <3>5, OtherStream
    <3>8. OthersKept
      BY <1>2, <2>1, <2>2, <3>2 DEF OthersKept, OneSpeaks, Shapes
    <3> QED
      BY <3>4, <3>6, <3>7, <3>8 DEF Handled
  <2> QED
    BY <2>5, <2>6
<1> QED
  BY <1>3, <1>4, <1>5

\* The events of the tools of agents, and of forked skills.
LEMMA InnerSays ==
  ASSUME ScanInv, NEW t \in Inner,
         UseInner(t) \/ \E info \in {"out", "empty", "images"} : InnerResultEvent(t, info)
  PROVE  OthersKept /\ \E msgs : Handled(msgs)
<1> USE DEF ScanInv
<1> DEFINE a == AgentOf[t]
<1>0. t \in AllTools /\ a \in Agents /\ a # None /\ t \notin Tools
  BY ToolAssumption DEF AllTools
<1> HIDE DEF a
<1>1. /\ DOMAIN out["scan"] = {} /\ cli \in CliType /\ cli.alive /\ Scans /\ timers' = timers
      /\ StatsOK
  BY DEF UseInner, InnerResultEvent, Scans, Shapes, StatsOK
<1>3. CASE UseInner(t)
  <2> DEFINE x == Msg("tool_use", t, a, Kind[t])
             y == Msg("subagent_started", a, None, "task")
  <2>1. x \in Msgs /\ x.type = "tool_use" /\ x.agent = a /\ y \in Msgs /\ y.type =
     "subagent_started"
    <3>1. Kind[t] \in {"Bash", "Read", "Skill", "Other"}
      BY ToolAssumption
    <3> QED
      BY <1>0, <3>1 DEF Msg, Msgs, MsgTypes, Infos, Headings
  <2>2. /\ cli' = [cli EXCEPT !.tool[t] = "used"] /\ cli.tool[t] = "new"
        /\ out' = [out EXCEPT !["scan"] =
             (IF stats[a].known THEN <<>> ELSE <<y>>) \o <<x>>]
        /\ stats' = IF stats[a].known THEN stats ELSE StartAgent(a, "task")
        /\ IF a \in Tools THEN cli.tool[a] = "used" ELSE cli.agent[a] = "started"
    BY <1>3 DEF UseInner, Emit, a
  <2> HIDE DEF x, y
  <2>s. out["sender"] = <<>>
    BY <1>0, <2>2 DEF OneSpeaks, Quiet, AllTools
  <2>3. ScanMsg(x) /\ ScanMsg(y)
    BY <2>1 DEF ScanMsg, BgIsMain
  <2>6. /\ cli' \in CliType /\ cli'.agent = cli.agent /\ cli'.alive = cli.alive
        /\ cli'.block = cli.block /\ cli'.frags = cli.frags
        /\ cli'.turn = cli.turn /\ cli'.cut = cli.cut
        /\ \A u \in AllTools : u # t => cli'.tool[u] = cli.tool[u]
    BY <1>0, <1>1, <2>2, ToolMoves DEF Phases
  <2>7. \A u \in Tools : cli.tool[u] = "done" => cli'.tool[u] = "done"
    BY <2>2, <2>6 DEF AllTools
  <2>8. OthersKept
    <3>1. "task" \in Headings
      BY DEF Headings
    <3>2. /\ stats' \in [Agents -> StatType]
          /\ \A b \in Agents : stats'[b].open => stats'[b].known
      <4>1. CASE stats[a].known
        BY <1>1, <2>2, <4>1 DEF StatsOK
      <4>2. CASE ~ stats[a].known
        BY <1>0, <1>1, <2>2, <3>1, <4>2, StatsKept
      <4> QED
        BY <4>1, <4>2
    <3> QED
      BY <1>1, <2>s, <2>6, <3>2 DEF OthersKept, OneSpeaks
  <2>9. CASE stats[a].known
    <3>1. <<>> \o <<x>> = <<x>> /\ DOMAIN <<x>> = {1} /\ <<x>>[1] = x
      BY <2>1
    <3>2. Says(<<x>>)
      BY <2>1, <2>2, <2>3, <2>9, <3>1, SaysOne
    <3>3. TasksSaid(<<x>>)
      BY <1>1, <2>1, <2>7, <3>1, OtherTasks DEF StartsBg, EndsBg
    <3>4. StreamSaid(<<x>>)
      BY <1>0, <1>1, <2>1, <2>6, <3>1, OtherStream DEF IsStreamingFlushTrigger
    <3> QED
      BY <2>8, <3>2, <3>3, <3>4 DEF Handled
  <2>10. CASE ~ stats[a].known
    <3>1. /\ <<y>> \o <<x>> = <<y, x>> /\ DOMAIN <<y, x>> = {1, 2}
          /\ <<y, x>>[1] = y /\ <<y, x>>[2] = x
      BY <2>1, TwoMsgs, ConcatTwo
    <3>2. Says(<<y, x>>)
      BY <2>1, <2>2, <2>3, <2>10, <3>1, SaysTwo
    <3>3. TasksSaid(<<y, x>>)
      BY <1>1, <2>1, <2>7, <3>1, OtherTasks DEF StartsBg, EndsBg
    <3>4. StreamSaid(<<y, x>>)
      BY <1>0, <1>1, <2>1, <2>6, <3>1, OtherStream DEF IsStreamingFlushTrigger
    <3> QED
      BY <2>8, <3>2, <3>3, <3>4 DEF Handled
  <2> QED
    BY <2>9, <2>10
<1>4. ASSUME NEW info \in {"out", "empty", "images"}, InnerResultEvent(t, info)
      PROVE  OthersKept /\ \E msgs : Handled(msgs)
  <2> DEFINE x == Msg("tool_result", t, a, info)
  <2>1. /\ x \in Msgs /\ x.type = "tool_result" /\ x.agent = a /\ x.info = info
    BY <1>0 DEF Msg, Msgs, MsgTypes, Infos
  <2>2. /\ cli' = [cli EXCEPT !.tool[t] = "done"] /\ cli.tool[t] \in {"used", "answered"}
        /\ \/ out' = [out EXCEPT !["scan"] = <<x>>]
           \/ out' = [out EXCEPT !["scan"] = <<>>]
        /\ stats' = stats
    BY <1>4 DEF InnerResultEvent, Emit, a
  <2> HIDE DEF x
  <2>s. out["sender"] = <<>>
    BY <1>0, <2>2 DEF OneSpeaks, Quiet
  <2>3. ScanMsg(x)
    BY <2>1 DEF ScanMsg, BgIsMain
  <2>6. /\ cli' \in CliType /\ cli'.agent = cli.agent /\ cli'.alive = cli.alive
        /\ cli'.block = cli.block /\ cli'.frags = cli.frags
        /\ cli'.turn = cli.turn /\ cli'.cut = cli.cut
        /\ \A u \in AllTools : u # t => cli'.tool[u] = cli.tool[u]
    BY <1>0, <1>1, <2>2, ToolMoves DEF Phases
  <2>7. \A u \in Tools : cli.tool[u] = "done" => cli'.tool[u] = "done"
    BY <2>2, <2>6 DEF AllTools
  <2>8. OthersKept
    BY <1>1, <2>s, <2>2, <2>6 DEF OthersKept, OneSpeaks, StatsOK
  <2>9. PICK msgs \in {<<x>>, <<>>} : out' = [out EXCEPT !["scan"] = msgs]
    BY <2>2
  <2>10. /\ \A i \in DOMAIN <<x>> : <<x>>[i] = x
         /\ DOMAIN <<>> = {}
    OBVIOUS
  <2>11. Says(msgs)
    BY <2>1, <2>3, <2>9, SaysOne, SaysNothing
  <2>12. TasksSaid(msgs)
    <3>1. \A u \in Tools, i \in DOMAIN msgs : ~ StartsBg(msgs[i], u) /\ ~ EndsBg(msgs[i], u)
      BY <2>1, <2>9, <2>10 DEF StartsBg, EndsBg
    <3> QED
      BY <1>1, <2>7, <3>1, OtherTasks
  <2>13. StreamSaid(msgs)
    <3>1. \A i \in DOMAIN msgs :
           /\ msgs[i].type \notin {"delta", "text", "running"}
           /\ IsStreamingFlushTrigger(msgs[i]) => cli.block = "none"
      BY <1>0, <2>1, <2>9, <2>10 DEF IsStreamingFlushTrigger
    <3> QED
      BY <1>1, <2>6, <3>1, OtherStream
  <2> QED
    BY <2>8, <2>11, <2>12, <2>13 DEF Handled
<1> QED
  BY <1>3, <1>4

\* The events of agents and of background tasks.
LEMMA AgentsSay ==
  ASSUME ScanInv, NEW a \in Agents,
         \/ TaskStarted(a) \/ TaskProgress(a) \/ TaskNotification(a) \/ AgentResult(a)
         \/ \E background \in BOOLEAN : UseAgent(a, background)
  PROVE  OthersKept /\ \E msgs : Handled(msgs)
<1> USE DEF ScanInv
<1>0. {"none", "task", "progress", "summary"} = Headings
  BY DEF Headings
<1>1. DOMAIN out["scan"] = {} /\ cli \in CliType /\ cli.alive /\ Scans /\ StatsOK
  BY DEF TaskStarted, TaskProgress, TaskNotification, AgentResult, UseAgent, Scans, Shapes, StatsOK
<1>2. a \notin Tools
  BY DEF OneSpeaks, TaskStarted, TaskProgress, TaskNotification, AgentResult, UseAgent
<1>3. out["sender"] = <<>>
  BY DEF OneSpeaks, Quiet, TaskStarted, TaskProgress, TaskNotification, AgentResult, UseAgent
<1>4. timers' = timers
  <2>1. timers' \in {timers, timers \ {a}}
    BY DEF TaskStarted, TaskProgress, TaskNotification, AgentResult, UseAgent
  <2> QED
    BY <1>2, <2>1 DEF Shapes
<1>5. \E phase \in AgentPhases : cli' = [cli EXCEPT !.agent[a] = phase]
  <2>1. CASE TaskProgress(a)
    <3>1. cli' = cli /\ cli.agent[a] \in AgentPhases
      BY <1>1, <2>1 DEF TaskProgress, CliType
    <3>2. cli = [cli EXCEPT !.agent[a] = cli.agent[a]]
      BY <1>1 DEF CliType
    <3> QED
      BY <3>1, <3>2
  <2>2. CASE ~ TaskProgress(a)
    BY <2>2 DEF TaskStarted, TaskNotification, AgentResult, UseAgent, AgentPhases
  <2> QED
    BY <2>1, <2>2
<1>6. /\ cli' \in CliType /\ cli'.tool = cli.tool /\ cli'.alive = cli.alive
      /\ cli'.block = cli.block /\ cli'.frags = cli.frags
      /\ cli'.turn = cli.turn /\ cli'.cut = cli.cut
      /\ \A b \in Agents : b # a => cli'.agent[b] = cli.agent[b]
  BY <1>1, <1>5, AgentMoves
<1>7. /\ stats' \in [Agents -> StatType]
      /\ \A b \in Agents : stats'[b].open => stats'[b].known
  <2>1. CASE TaskStarted(a)
    BY <1>0, <1>1, <2>1, StatsKept DEF TaskStarted
  <2>2. CASE TaskProgress(a)
    BY <1>0, <1>1, <2>2 DEF TaskProgress, StatsOK, StatType
  <2>3. CASE TaskNotification(a)
    <3> DEFINE s == IF stats[a].background THEN FinishAgent(a) ELSE stats
    <3>1. s \in [Agents -> StatType] /\ \A b \in Agents : s[b].open => s[b].known
      BY <1>0, <1>1, StatsKept DEF StatsOK
    <3>2. stats' = [s EXCEPT ![a].heading = "summary"]
      BY <2>3 DEF TaskNotification
    <3> HIDE DEF s
    <3> QED
      BY <1>0, <3>1, <3>2 DEF StatType
  <2>4. CASE AgentResult(a)
    BY <1>0, <1>1, <2>4, StatsKept DEF AgentResult
  <2>5. ASSUME NEW background \in BOOLEAN, UseAgent(a, background)
        PROVE  /\ stats' \in [Agents -> StatType]
               /\ \A b \in Agents : stats'[b].open => stats'[b].known
    <3> DEFINE s == StartAgent(a, "none")
    <3>1. s \in [Agents -> StatType] /\ \A b \in Agents : s[b].open => s[b].known
      BY <1>0, <1>1, StatsKept
    <3>2. stats' = [s EXCEPT ![a].background = background]
      BY <2>5 DEF UseAgent
    <3> HIDE DEF s
    <3> QED
      BY <3>1, <3>2 DEF StatType
  <2> QED
    BY <2>1, <2>2, <2>3, <2>4, <2>5
<1>8. OthersKept
  BY <1>2, <1>3, <1>4, <1>6, <1>7 DEF OthersKept, OneSpeaks
<1>9. \E msgs :
        /\ Says(msgs)
        /\ \A i \in DOMAIN msgs :
             /\ msgs[i].type \in {"subagent_started", "subagent_finished", "agent_progress",
                "task_done"}
             /\ msgs[i].type = "task_done" => msgs[i].id = a
  <2>1. CASE TaskStarted(a) \/ TaskProgress(a)
    <3> DEFINE x == Msg("subagent_started", a, None, "task")
               y == Msg("agent_progress", a, None, "progress")
    <3>1. /\ x \in Msgs /\ x.type = "subagent_started"
          /\ y \in Msgs /\ y.type = "agent_progress"
      BY DEF Msg, Msgs, MsgTypes, Infos, Headings
    <3>2. out' = [out EXCEPT !["scan"] = <<x>>] \/ out' = [out EXCEPT !["scan"] = <<y>>]
      BY <2>1 DEF TaskStarted, TaskProgress, Emit
    <3> HIDE DEF x, y
    <3>3. PICK z \in Msgs : /\ z.type \in {"subagent_started", "agent_progress"}
                            /\ out' = [out EXCEPT !["scan"] = <<z>>]
      BY <3>1, <3>2
    <3>4. ScanMsg(z)
      BY <3>3 DEF ScanMsg, BgIsMain
    <3>5. Says(<<z>>) /\ \A i \in DOMAIN <<z>> : <<z>>[i] = z
      BY <3>3, <3>4, SaysOne, OneMsg
    <3> QED
      BY <3>3, <3>5
  <2>2. CASE TaskNotification(a) \/ AgentResult(a)
    <3>1. \/ UNCHANGED out
          \/ \E h \in Headings : out' = [out EXCEPT !["scan"] =
                                   <<Msg("subagent_finished", a, None, h),
                                     Msg("task_done", a, None, "none")>>]
      <4>1. stats[a].heading \in Headings /\ "none" \in Headings
        BY <1>0, <1>1 DEF StatsOK, StatType
      <4> QED
        BY <2>2, <4>1 DEF TaskNotification, AgentResult, FinishedBy, NotifiedBy, Emit
    <3>2. CASE UNCHANGED out
      BY <1>1, <3>2, SilentScan
    <3>3. CASE ~ UNCHANGED out
      <4>1. PICK x, y \in Msgs :
           /\ Says(<<x, y>>) /\ DOMAIN <<x, y>> = {1, 2} /\ <<x, y>>[1] = x /\ <<x, y>>[2] = y
           /\ x.type = "subagent_finished" /\ y.type = "task_done" /\ y.id = a
        BY <3>1, <3>3, FinishSays
      <4>2. \A i \in DOMAIN <<x, y>> :
             /\ <<x, y>>[i].type \in {"subagent_finished", "task_done"}
             /\ <<x, y>>[i].type = "task_done" => <<x, y>>[i].id = a
        BY <4>1
      <4> QED
        BY <4>1, <4>2
    <3> QED
      BY <3>2, <3>3
  <2>3. CASE \E background \in BOOLEAN : UseAgent(a, background)
    <3>1. UNCHANGED out
      BY <2>3 DEF UseAgent
    <3> QED
      BY <1>1, <3>1, SilentScan
  <2> QED
    BY <2>1, <2>2, <2>3
<1>10. PICK msgs :
        /\ Says(msgs)
        /\ \A i \in DOMAIN msgs :
             /\ msgs[i].type \in {"subagent_started", "subagent_finished", "agent_progress",
                "task_done"}
             /\ msgs[i].type = "task_done" => msgs[i].id = a
  BY <1>9
<1>11. TasksSaid(msgs)
  <2>1. \A t \in Tools, i \in DOMAIN msgs : ~ StartsBg(msgs[i], t) /\ ~ EndsBg(msgs[i], t)
    BY <1>2, <1>10 DEF StartsBg, EndsBg
  <2>2. \A t \in Tools : cli.tool[t] = "done" => cli'.tool[t] = "done"
    BY <1>6
  <2> QED
    BY <1>4, <2>1, <2>2, OtherTasks
<1>12. StreamSaid(msgs)
  <2>1. \A i \in DOMAIN msgs :
           /\ msgs[i].type \notin {"delta", "text", "running"}
           /\ IsStreamingFlushTrigger(msgs[i]) => cli.block = "none"
    BY <1>10 DEF IsStreamingFlushTrigger
  <2> QED
    BY <1>1, <1>6, <2>1, OtherStream
<1> QED
  BY <1>8, <1>10, <1>11, <1>12 DEF Handled

\* Any stream event.
LEMMA ScanSays ==
  ASSUME ScanInv, ScanActs
  PROVE  Scans /\ Rest /\ OthersKept /\ \E msgs : Handled(msgs)
<1>1. Scans /\ Rest
  BY DEF ScanActs, UserMessage, Text, TurnEnds, Delta, UseTool, BgDone, ToolResult, UseInner,
         InnerResultEvent, TaskStarted, TaskProgress, TaskNotification, AgentResult, UseAgent
<1> QED
  BY <1>1, TurnSays, TextSays, ToolsSay, InnerSays, AgentsSay DEF ScanActs

\* A step is one of the scan goroutine, of the other goroutines or of the CLI.
LEMMA NextIsOneOf ==
  ASSUME [Next]_vars
  PROVE  \/ ScanActs \/ Interrupt \/ ModelStep \/ Exit \/ Restart \/ UNCHANGED vars
         \/ \E g \in Goroutines : LogMessage(g) \/ HandToModel(g)
         \/ \E t \in AllTools : AskPermission(t) \/ Answer(t) \/ ShowAnswer(t)
BY DEF Next, ScanActs

-----------------------------------------------------------------------------
(* Each step keeps the invariant.                                          *)

\* The goroutines.
LEMMA Names ==
  /\ {"scan", "watcher", "sender"} \subseteq Goroutines /\ AllTools \subseteq Goroutines
  /\ Tools \subseteq AllTools
  /\ \A t \in AllTools : t # "scan" /\ t # "watcher" /\ t # "sender"
BY GoroutineAssumption DEF Goroutines, AllTools

\* What the model will know depends on the model and its events alone.
LEMMA SameAhead ==
  ASSUME UNCHANGED <<m, events>>
  PROVE  (WillLive' <=> WillLive) /\ \A t \in Tools : WillRun(t)' <=> WillRun(t)
BY DEF WillLive, WillRun, RunsAfter, AliveAfter

\* Nothing about the process changes if neither it nor the events do.
LEMMA KnownKept ==
  ASSUME ProcessKnown, UNCHANGED <<m, events>>,
         (cli'.alive /\ out'["sender"] = <<>>) \/ out'["watcher"] # <<>>
         <=> (cli.alive /\ out["sender"] = <<>>) \/ out["watcher"] # <<>>
  PROVE  ProcessKnown'
<1>1. WillLive' <=> WillLive
  BY SameAhead
<1>2. \A t \in Tools, i \in DOMAIN events' :
       StartsBg(events'[i], t) => AliveAfter(m'.alive, events', i - 1)
  BY DEF ProcessKnown
<1> QED
  BY <1>1, <1>2 DEF ProcessKnown

\* A stream event keeps the invariant.
LEMMA ScanKeeps ==
  ASSUME Inv, ScanActs
  PROVE  Inv'
<1>1. ScanInv
  BY DEF Inv, ScanInv
<1>2. Scans /\ Rest /\ OthersKept
  BY <1>1, ScanSays
<1>3. PICK msgs : Handled(msgs)
  BY <1>1, ScanSays
<1>4. /\ out["scan"] = <<>> /\ DOMAIN out["scan"] = {} /\ cli.alive
      /\ UNCHANGED <<log, stream, logged, m, events, answering, page>>
  BY <1>2 DEF Scans, Rest
<1>5. /\ out \in [Goroutines -> Seq(Msgs)] /\ msgs \in Seq(Msgs)
      /\ out' = [out EXCEPT !["scan"] = msgs]
  BY <1>3 DEF Handled, Says, Inv, Speech
<1>6. /\ out'["scan"] = msgs /\ out' \in [Goroutines -> Seq(Msgs)]
      /\ \A g \in Goroutines : g # "scan" => out'[g] = out[g]
  BY <1>5, Names
<1>7. /\ out'["sender"] = <<>> /\ out'["watcher"] = <<>> /\ out["watcher"] = <<>>
      /\ \A t \in AllTools : out'[t] = out[t]
  BY <1>2, <1>4, <1>6, Names DEF OthersKept, Inv, OneSpeaks
<1>8. "scan" \notin logged
  BY <1>4, Names DEF Inv, Shapes
<1>9. Shapes'
  <2>1. logged' \subseteq {g \in Goroutines : out'[g] # <<>>}
    BY <1>4, <1>6, <1>8 DEF Inv, Shapes
  <2> QED
    BY <1>2, <1>4, <2>1 DEF Inv, Shapes, OthersKept, ModelOK, PageOK
<1>10. Speech'
  BY <1>3, <1>4, <1>6, <1>7 DEF Inv, Speech, Handled, Says
<1>11. OneSpeaks'
  BY <1>2, <1>4, <1>7 DEF OneSpeaks, OthersKept
<1>12. ProcessKnown'
  BY <1>2, <1>4, <1>7, KnownKept DEF Inv, OthersKept
<1>13. TasksTimed'
  <2> SUFFICES ASSUME NEW t \in Tools
      PROVE  /\ t \in timers' =>
                  /\ cli'.tool[t] = "done" /\ ~ EndSaid(t)'
                  /\ WillRun(t)' \/ ("scan" \in logged' /\ StartsBg(Head(out'["scan"]), t))
             /\ WillRun(t)' => t \in timers' \/ out'["watcher"] # <<>> \/ EndSaid(t)'
             /\ \A i \in DOMAIN out'["scan"] : StartsBg(out'["scan"][i], t) =>
                  Len(out'["scan"]) = 1 /\ cli'.tool[t] = "done" /\ ("scan" \in logged' => t \in
                     timers')
    BY DEF TasksTimed
  <2>1. WillRun(t)' <=> WillRun(t)
    BY <1>4, SameAhead
  <2>2. EndSaid(t)' <=> \E i \in DOMAIN msgs : EndsBg(msgs[i], t)
    BY <1>6 DEF EndSaid, EndsBg
  <2>3. ~ EndSaid(t)
    BY <1>4 DEF EndSaid
  <2>4. timers' \subseteq timers
    BY <1>2 DEF OthersKept
  <2>5. /\ cli.tool[t] = "done" => cli'.tool[t] = "done"
        /\ \A i \in DOMAIN msgs : StartsBg(msgs[i], t) => Len(msgs) = 1 /\ cli'.tool[t] = "done"
        /\ t \in timers \ timers' => EndSaid(t)'
        /\ EndSaid(t)' => t \notin timers'
    BY <1>3, <2>2 DEF Handled, TasksSaid
  <2>6. t \in timers => cli.tool[t] = "done" /\ WillRun(t)
    BY <1>8 DEF Inv, TasksTimed
  <2>7. WillRun(t) => t \in timers
    BY <1>7, <2>3 DEF Inv, TasksTimed
  <2> QED
    BY <1>4, <1>6, <1>8, <2>1, <2>4, <2>5, <2>6, <2>7
<1>14. StreamFollows'
  BY <1>3, <1>4, <1>6, <1>8 DEF StreamFollows, Handled, StreamSaid, Unlogged,
     IsStreamingFlushTrigger
<1>15. StreamShown'
  <2>1. cli'.cut = cli.cut
    BY <1>3 DEF Handled, StreamSaid
  <2> QED
    BY <1>4, <1>8, <2>1 DEF Inv, StreamShown
<1> QED
  BY <1>9, <1>10, <1>11, <1>12, <1>13, <1>14, <1>15 DEF Inv

\* So does the end of a turn by an interrupt,
LEMMA InterruptKeeps ==
  ASSUME Inv, Interrupt
  PROVE  Inv'
<1>1. /\ cli.alive /\ cli.turn = "running"
      /\ cli' = [cli EXCEPT !.turn = "stopping", !.block = "none", !.cut = CutOff]
      /\ UNCHANGED <<stats, timers, out, log, stream, logged, m, events, answering, page>>
  BY DEF Interrupt, Rest
<1>2. cli \in CliType
  BY DEF Inv, Shapes
<1>3. CutOff \in SUBSET Nat /\ (CutOff = {} => cli.block = "none" /\ cli.cut = {})
  BY <1>2 DEF CutOff, CliType
<1>4. /\ cli' \in CliType /\ cli'.alive = cli.alive /\ cli'.turn = "stopping"
      /\ cli'.block = "none" /\ cli'.cut = CutOff /\ cli'.tool = cli.tool /\ cli'.agent = cli.agent
      /\ cli'.frags = cli.frags
  <2>1. [cli EXCEPT !.turn = "stopping", !.block = "none"] \in CliType
    BY <1>2 DEF CliType
  <2> QED
    BY <1>1, <1>2, <1>3, <2>1 DEF CliType
<1>5. out["sender"] = <<>>
  BY <1>1 DEF Inv, OneSpeaks, Quiet
<1>6. Shapes'
  BY <1>1, <1>4 DEF Inv, Shapes, ModelOK, PageOK
<1>7. Speech'
  BY <1>1 DEF Inv, Speech
<1>8. OneSpeaks'
  BY <1>1, <1>4, <1>5 DEF Inv, OneSpeaks
<1>9. ProcessKnown'
  BY <1>1, <1>4, KnownKept DEF Inv
<1>10. TasksTimed'
  BY <1>1, <1>4, SameAhead DEF Inv, TasksTimed, EndSaid
<1>11. StreamFollows'
  BY <1>1, <1>3, <1>4 DEF Inv, StreamFollows, Unlogged, IsStreamingFlushTrigger
<1>12. StreamShown'
  BY <1>1, <1>3, <1>4 DEF Inv, StreamShown
<1> QED
  BY <1>6, <1>7, <1>8, <1>9, <1>10, <1>11, <1>12 DEF Inv

\* a permission request,
LEMMA AskKeeps ==
  ASSUME Inv, NEW t \in AllTools, AskPermission(t)
  PROVE  Inv'
<1>1. /\ Scans /\ cli.tool[t] = "used" /\ cli' = [cli EXCEPT !.tool[t] = "asked"]
      /\ out' = [out EXCEPT ![t] = <<AskFor(t)>>]
      /\ UNCHANGED <<stats, timers, log, stream, logged, m, events, answering, page>>
  BY DEF AskPermission, Rest, AskFor
<1>2. cli \in CliType
  BY DEF Inv, Shapes
<1>3. /\ cli' \in CliType /\ cli'.agent = cli.agent /\ cli'.alive = cli.alive
      /\ cli'.block = cli.block /\ cli'.frags = cli.frags
      /\ cli'.turn = cli.turn /\ cli'.cut = cli.cut
      /\ cli'.tool[t] = "asked" /\ \A u \in AllTools : u # t => cli'.tool[u] = cli.tool[u]
  BY <1>1, <1>2, ToolMoves DEF Phases
<1>4. <<AskFor(t)>> \in Seq(Msgs) /\ <<AskFor(t)>> # <<>>
  <2>1. AskFor(t) \in Msgs
    BY DEF AskFor, Msg, Msgs, MsgTypes, Infos, Headings
  <2> QED
    BY <2>1
<1>5. /\ out'["scan"] = out["scan"] /\ out'["watcher"] = out["watcher"]
      /\ out'["sender"] = out["sender"] /\ out'[t] = <<AskFor(t)>>
      /\ out' \in [Goroutines -> Seq(Msgs)]
      /\ \A g \in Goroutines : g # t => out'[g] = out[g]
  BY <1>1, <1>4, Names DEF Inv, Speech
<1>6. out["sender"] = <<>> /\ cli.alive
  BY <1>1 DEF Inv, OneSpeaks, Quiet, Scans
<1>7. Shapes'
  <2>1. logged' \subseteq {g \in Goroutines : out'[g] # <<>>}
    BY <1>1, <1>4, <1>5 DEF Inv, Shapes
  <2> QED
    BY <1>1, <1>3, <2>1 DEF Inv, Shapes, ModelOK, PageOK
<1>8. Speech'
  BY <1>1, <1>5, Names DEF Inv, Speech
<1>9. OneSpeaks'
  BY <1>3, <1>5, <1>6 DEF Inv, OneSpeaks
<1>10. ProcessKnown'
  BY <1>1, <1>3, <1>5, KnownKept DEF Inv
<1>11. TasksTimed'
  <2>1. \A u \in Tools : (cli.tool[u] = "done" => cli'.tool[u] = "done")
    BY <1>1, <1>3, Names
  <2> QED
    BY <1>1, <1>5, <2>1, SameAhead DEF Inv, TasksTimed, EndSaid
<1>12. StreamFollows'
  BY <1>1, <1>3, <1>5 DEF Inv, StreamFollows, Unlogged, IsStreamingFlushTrigger
<1>13. StreamShown'
  BY <1>1, <1>3, <1>5 DEF Inv, StreamShown
<1> QED
  BY <1>7, <1>8, <1>9, <1>10, <1>11, <1>12, <1>13 DEF Inv

\* its answer,
LEMMA AnswerKeeps ==
  ASSUME Inv, NEW t \in AllTools, Answer(t) \/ ShowAnswer(t)
  PROVE  Inv'
<1>1. /\ UNCHANGED <<stats, stream, timers, out, logged, m, events>>
      /\ cli' = cli \/ cli' = [cli EXCEPT !.tool[t] = IF @ = "asked" THEN "answered" ELSE @]
      /\ page' = page \/ page' = [page EXCEPT !.prompt = @ \ {t}]
  BY DEF Answer, ShowAnswer, session
<1>2. cli \in CliType /\ PageOK(page)
  BY DEF Inv, Shapes
<1>3. /\ cli' \in CliType /\ cli'.agent = cli.agent /\ cli'.alive = cli.alive
      /\ cli'.block = cli.block /\ cli'.frags = cli.frags
      /\ cli'.turn = cli.turn /\ cli'.cut = cli.cut
      /\ \A u \in AllTools : cli'.tool[u] = cli.tool[u]
                             \/ (cli.tool[u] = "asked" /\ cli'.tool[u] = "answered")
  <2>1. CASE cli' = cli
    BY <1>2, <2>1
  <2>2. CASE cli' # cli
    <3> DEFINE phase == IF cli.tool[t] = "asked" THEN "answered" ELSE cli.tool[t]
    <3>1. phase \in Phases
      BY <1>2 DEF Phases, CliType
    <3>2. cli' = [cli EXCEPT !.tool[t] = phase]
      BY <1>1, <2>2
    <3> QED
      BY <1>2, <3>1, <3>2, ToolMoves
  <2> QED
    BY <2>1, <2>2
<1>4. PageOK(page') /\ page'.stream = page.stream
  BY <1>1, <1>2 DEF PageOK
<1>5. Shapes'
  BY <1>1, <1>3, <1>4 DEF Inv, Shapes, ModelOK, PageOK
<1>6. Speech'
  BY <1>1 DEF Inv, Speech
<1>7. OneSpeaks'
  <2>1. Quiet => Quiet'
    BY <1>1, <1>3 DEF Quiet
  <2> QED
    BY <1>1, <1>3, <2>1 DEF Inv, OneSpeaks
<1>8. ProcessKnown'
  BY <1>1, <1>3, KnownKept DEF Inv
<1>9. TasksTimed'
  <2>1. \A u \in Tools : (cli.tool[u] = "done" => cli'.tool[u] = "done")
    BY <1>3, Names
  <2> QED
    BY <1>1, <2>1, SameAhead DEF Inv, TasksTimed, EndSaid
<1>10. StreamFollows'
  BY <1>1, <1>3 DEF Inv, StreamFollows, Unlogged, IsStreamingFlushTrigger
<1>11. StreamShown'
  BY <1>1, <1>3, <1>4 DEF Inv, StreamShown
<1> QED
  BY <1>5, <1>6, <1>7, <1>8, <1>9, <1>10, <1>11 DEF Inv

\* the death of the process with its watcher,
LEMMA ExitKeeps ==
  ASSUME Inv, Exit
  PROVE  Inv'
<1>1. /\ cli.alive /\ out["scan"] = <<>> /\ out["sender"] = <<>> /\ timers' = {}
      /\ out' = [out EXCEPT !["watcher"] = <<Ended>>]
      /\ UNCHANGED <<stats, log, stream, logged, m, events, answering, page>>
  BY DEF Exit, Scans, Rest, Ended
<1>2. cli \in CliType
  BY DEF Inv, Shapes
<1>3. CutOff \in SUBSET Nat /\ (CutOff = {} => cli.block = "none" /\ cli.cut = {})
  BY <1>2 DEF CutOff, CliType
<1> DEFINE tools == [t \in AllTools |-> Lost(cli.tool[t])]
           agents == [a \in Agents |-> Lost(cli.agent[a])]
<1>4. /\ tools \in [AllTools -> Phases] /\ agents \in [Agents -> AgentPhases]
      /\ \A t \in AllTools : tools[t] \in {"new", "done", "lost"}
                             /\ (cli.tool[t] = "done" => tools[t] = "done")
      /\ \A a \in Agents : agents[a] \in {"new", "done", "lost"}
                           /\ (agents[a] # "new" => cli.agent[a] # "new")
  BY <1>2 DEF Lost, Phases, AgentPhases, CliType
<1>5. cli' = [cli EXCEPT !.alive = FALSE, !.turn = "idle", !.block = "none", !.cut = CutOff,
                         !.tool = tools, !.agent = agents]
  BY <1>2 DEF Exit, CliType
<1> HIDE DEF tools, agents
<1>6. /\ cli' \in CliType /\ ~ cli'.alive /\ cli'.turn = "idle"
      /\ cli'.block = "none" /\ cli'.cut = CutOff /\ cli'.tool = tools /\ cli'.agent = agents
  <2> DEFINE c == [cli EXCEPT !.alive = FALSE, !.turn = "idle", !.block = "none"]
  <2>1. c \in CliType /\ ~ c.alive /\ c.turn = "idle" /\ c.block = "none"
    BY <1>2 DEF CliType
  <2>2. cli' = [c EXCEPT !.cut = CutOff, !.tool = tools, !.agent = agents]
    BY <1>5
  <2> HIDE DEF c
  <2> QED
    BY <1>3, <1>4, <2>1, <2>2 DEF CliType
<1>7. <<Ended>> \in Seq(Msgs) /\ <<Ended>> # <<>>
  <2>1. Ended \in Msgs
    BY DEF Ended, Msg, Msgs, MsgTypes, Infos, Headings
  <2> QED
    BY <2>1
<1>8. /\ out'["scan"] = <<>> /\ DOMAIN out'["scan"] = {} /\ DOMAIN out["scan"] = {}
      /\ out'["watcher"] = <<Ended>> /\ out'["sender"] = <<>>
      /\ out' \in [Goroutines -> Seq(Msgs)]
      /\ \A g \in Goroutines : g # "watcher" => out'[g] = out[g]
  BY <1>1, <1>7, Names DEF Inv, Speech
<1>9. Shapes'
  <2>1. logged' \subseteq {g \in Goroutines : out'[g] # <<>>}
    BY <1>1, <1>7, <1>8 DEF Inv, Shapes
  <2> QED
    BY <1>1, <1>6, <2>1 DEF Inv, Shapes, ModelOK, PageOK
<1>10. Speech'
  BY <1>1, <1>8, Names DEF Inv, Speech
<1>11. OneSpeaks'
  <2>1. Quiet'
    BY <1>1, <1>4, <1>6, <1>8 DEF Quiet
  <2> QED
    BY <1>4, <1>6, <1>8, <2>1 DEF Inv, OneSpeaks
<1>12. ProcessKnown'
  BY <1>1, <1>6, <1>7, <1>8, KnownKept DEF Inv
<1>13. TasksTimed'
  BY <1>1, <1>7, <1>8 DEF TasksTimed
<1>14. StreamFollows'
  BY <1>1, <1>3, <1>6, <1>8 DEF Inv, StreamFollows
<1>15. StreamShown'
  BY <1>1, <1>3, <1>6, <1>8 DEF Inv, StreamShown
<1> QED
  BY <1>9, <1>10, <1>11, <1>12, <1>13, <1>14, <1>15 DEF Inv

\* and the next process.
LEMMA RestartKeeps ==
  ASSUME Inv, Restart
  PROVE  Inv'
<1>1. /\ ~ cli.alive /\ out["watcher"] = <<>> /\ out["sender"] = <<>>
      /\ cli' = [cli EXCEPT !.alive = TRUE, !.starts = @ + 1]
      /\ out' = [out EXCEPT !["sender"] = <<Started>>]
      /\ UNCHANGED <<stats, timers, log, stream, logged, m, events, answering, page>>
  BY DEF Restart, Rest, Started
<1>2. cli \in CliType /\ Quiet
  BY <1>1 DEF Inv, Shapes, OneSpeaks
<1>3. /\ cli' \in CliType /\ cli'.alive /\ cli'.turn = cli.turn
      /\ cli'.block = cli.block /\ cli'.cut = cli.cut /\ cli'.tool = cli.tool
      /\ cli'.agent = cli.agent /\ cli'.frags = cli.frags
  <2> DEFINE c == [cli EXCEPT !.alive = TRUE]
  <2>1. /\ c \in CliType /\ c.alive /\ c.turn = cli.turn /\ c.starts = cli.starts
        /\ c.block = cli.block /\ c.cut = cli.cut /\ c.tool = cli.tool
        /\ c.agent = cli.agent /\ c.frags = cli.frags
    BY <1>2 DEF CliType
  <2>2. cli' = [c EXCEPT !.starts = cli.starts + 1] /\ cli.starts + 1 \in Nat
    BY <1>1, <1>2 DEF CliType
  <2> HIDE DEF c
  <2> QED
    BY <2>1, <2>2 DEF CliType
<1>4. <<Started>> \in Seq(Msgs) /\ <<Started>> # <<>>
  <2>1. Started \in Msgs
    BY DEF Started, Msg, Msgs, MsgTypes, Infos, Headings
  <2> QED
    BY <2>1
<1>5. /\ out'["scan"] = out["scan"] /\ out["scan"] = <<>> /\ DOMAIN out["scan"] = {}
      /\ out'["watcher"] = <<>> /\ out'["sender"] = <<Started>>
      /\ out' \in [Goroutines -> Seq(Msgs)]
      /\ \A g \in Goroutines : g # "sender" => out'[g] = out[g]
  BY <1>1, <1>2, <1>4, Names DEF Inv, Speech, Quiet
<1>6. Shapes'
  <2>1. logged' \subseteq {g \in Goroutines : out'[g] # <<>>}
    BY <1>1, <1>4, <1>5 DEF Inv, Shapes
  <2> QED
    BY <1>1, <1>3, <2>1 DEF Inv, Shapes, ModelOK, PageOK
<1>7. Speech'
  BY <1>1, <1>5, Names DEF Inv, Speech
<1>8. OneSpeaks'
  <2>1. Quiet'
    BY <1>1, <1>2, <1>3, <1>5 DEF Quiet
  <2> QED
    BY <1>3, <1>5, <2>1 DEF Inv, OneSpeaks
<1>9. ProcessKnown'
  BY <1>1, <1>3, <1>4, <1>5, KnownKept DEF Inv
<1>10. TasksTimed'
  BY <1>1, <1>3, <1>5, SameAhead DEF Inv, TasksTimed, EndSaid
<1>11. StreamFollows'
  BY <1>1, <1>3, <1>5 DEF Inv, StreamFollows, Unlogged, IsStreamingFlushTrigger
<1>12. StreamShown'
  BY <1>1, <1>3, <1>5 DEF Inv, StreamShown
<1> QED
  BY <1>6, <1>7, <1>8, <1>9, <1>10, <1>11, <1>12 DEF Inv

\* What the other goroutines have to say.
LEMMA OthersSay ==
  ASSUME Speech, NEW g \in Goroutines, g # "scan", out[g] # <<>>
  PROVE  /\ Head(out[g]) \in Msgs /\ Tail(out[g]) = <<>>
         /\ EventMsg(Head(out[g])) /\ ~ Clears(Head(out[g]))
         /\ Head(out[g]).type = IF g = "watcher" THEN "session_ended"
                                ELSE IF g = "sender" THEN "session_started" ELSE
                                   "permission_request"
<1>1. g \in {"watcher", "sender"} \cup AllTools
  BY DEF Goroutines
<1>2. CASE g = "watcher"
  <2>1. out[g] = <<Ended>>
    BY <1>2 DEF Speech
  <2>2. /\ Ended \in Msgs /\ Ended.type = "session_ended"
    BY DEF Ended, Msg, Msgs, MsgTypes, Infos, Headings
  <2>3. Head(<<Ended>>) = Ended /\ Tail(<<Ended>>) = <<>>
    OBVIOUS
  <2> QED
    BY <1>2, <2>1, <2>2, <2>3 DEF EventMsg, Clears, BgIsMain
<1>3. CASE g = "sender"
  <2>1. out[g] = <<Started>>
    BY <1>3 DEF Speech
  <2>2. /\ Started \in Msgs /\ Started.type = "session_started"
    BY DEF Started, Msg, Msgs, MsgTypes, Infos, Headings
  <2>3. Head(<<Started>>) = Started /\ Tail(<<Started>>) = <<>>
    OBVIOUS
  <2> QED
    BY <1>3, <2>1, <2>2, <2>3 DEF EventMsg, Clears, BgIsMain
<1>4. CASE g \in AllTools
  <2>1. out[g] = <<AskFor(g)>>
    BY <1>4 DEF Speech
  <2>2. /\ AskFor(g) \in Msgs /\ AskFor(g).type = "permission_request" /\ AskFor(g).id = g
    BY <1>4 DEF AskFor, Msg, Msgs, MsgTypes, Infos, Headings
  <2>3. Head(<<AskFor(g)>>) = AskFor(g) /\ Tail(<<AskFor(g)>>) = <<>>
    OBVIOUS
  <2> QED
    BY <1>4, <2>1, <2>2, <2>3, Names DEF EventMsg, Clears, BgIsMain
<1> QED
  BY <1>1, <1>2, <1>3, <1>4

\* The message the scan goroutine is at.
LEMMA ScanHead ==
  ASSUME Speech, out["scan"] # <<>>
  PROVE  /\ 1 \in DOMAIN out["scan"] /\ Head(out["scan"]) = out["scan"][1]
         /\ Head(out["scan"]) \in Msgs /\ ScanMsg(Head(out["scan"]))
         /\ out["scan"] \in Seq(Msgs) /\ Tail(out["scan"]) \in Seq(Msgs)
         /\ Len(out["scan"]) \in Nat /\ DOMAIN out["scan"] = 1 .. Len(out["scan"])
         /\ DOMAIN Tail(out["scan"]) = 1 .. Len(out["scan"]) - 1
         /\ \A i \in 1 .. Len(out["scan"]) - 1 : Tail(out["scan"])[i] = out["scan"][i + 1]
<1>1. out["scan"] \in Seq(Msgs)
  BY Names DEF Speech
<1>2. /\ 1 \in DOMAIN out["scan"] /\ Head(out["scan"]) = out["scan"][1]
      /\ Head(out["scan"]) \in Msgs /\ Tail(out["scan"]) \in Seq(Msgs)
      /\ Len(out["scan"]) \in Nat /\ DOMAIN out["scan"] = 1 .. Len(out["scan"])
      /\ Len(Tail(out["scan"])) = Len(out["scan"]) - 1
      /\ \A i \in 1 .. Len(out["scan"]) - 1 : Tail(out["scan"])[i] = out["scan"][i + 1]
  BY <1>1
<1>3. DOMAIN Tail(out["scan"]) = 1 .. Len(out["scan"]) - 1
  BY <1>2
<1> QED
  BY <1>1, <1>2, <1>3 DEF Speech

\* A goroutine other than the scan goroutine logs its message: only the log
\* changes.
LEMMA LogKeepsOther ==
  ASSUME Inv, NEW g \in Goroutines, g # "scan", LogMessage(g)
  PROVE  Inv'
<1>1. out[g] # <<>> /\ g \notin logged
  BY DEF LogMessage
<1> DEFINE msg == Head(out[g])
<1>2. msg.type \in {"session_ended", "session_started", "permission_request"}
  BY <1>1, OthersSay DEF Inv
<1>3. ~ IsStreamingFlushTrigger(msg) /\ Flushed(msg) = <<>> /\ StreamAfter(msg) = stream
  BY <1>2 DEF IsStreamingFlushTrigger, Flushed, StreamAfter
<1>4. UNCHANGED <<cli, stats, m, events, answering, stream, timers, page, out>>
      /\ logged' = logged \cup {g}
  BY <1>2, <1>3 DEF LogMessage
<1>5. "scan" \in logged' <=> "scan" \in logged
  BY <1>4
<1>6. Shapes'
  BY <1>1, <1>4 DEF Inv, Shapes, ModelOK, PageOK
<1>7. Speech'
  BY <1>4 DEF Inv, Speech
<1>8. OneSpeaks'
  BY <1>4 DEF Inv, OneSpeaks, Quiet
<1>9. ProcessKnown'
  BY <1>4, KnownKept DEF Inv
<1>10. TasksTimed'
  BY <1>4, <1>5, SameAhead DEF Inv, TasksTimed, EndSaid
<1>11. StreamFollows'
  BY <1>4, <1>5 DEF Inv, StreamFollows, Unlogged, IsStreamingFlushTrigger
<1>12. StreamShown'
  BY <1>4, <1>5 DEF Inv, StreamShown
<1> QED
  BY <1>6, <1>7, <1>8, <1>9, <1>10, <1>11, <1>12 DEF Inv

\* A fragment goes to the page.
LEMMA DeltaKeeps ==
  ASSUME Inv, LogMessage("scan"), Head(out["scan"]).type = "delta"
  PROVE  Inv'
<1> DEFINE msg == Head(out["scan"])
<1>1. /\ out["scan"] # <<>> /\ "scan" \notin logged
      /\ PushDelta(msg) /\ out' = [out EXCEPT !["scan"] = Tail(@)]
      /\ UNCHANGED <<log, timers, logged, cli, stats, m, events, answering>>
  BY DEF LogMessage
<1>2. /\ 1 \in DOMAIN out["scan"] /\ msg = out["scan"][1] /\ out["scan"] \in Seq(Msgs)
  BY <1>1, ScanHead DEF Inv
<1>3. /\ Len(out["scan"]) = 1 /\ stream.n = cli.frags - 1
      /\ cli.block = "none" => cli.turn # "running" /\ cli.cut # {}
  BY <1>2 DEF Inv, StreamFollows
<1>4. Tail(out["scan"]) = <<>>
  <2>1. Tail(out["scan"]) \in Seq(Msgs) /\ Len(Tail(out["scan"])) = 0
    BY <1>1, <1>2, <1>3
  <2> QED
    BY <2>1, EmptySeq
<1>5. /\ out'["scan"] = <<>> /\ DOMAIN out'["scan"] = {} /\ DOMAIN out["scan"] = {1}
      /\ out' \in [Goroutines -> Seq(Msgs)]
      /\ \A g \in Goroutines : g # "scan" => out'[g] = out[g]
  BY <1>1, <1>2, <1>3, <1>4, Names DEF Inv, Speech
<1>6. stream'.n = stream.n + 1 /\ stream.n \in Nat /\ stream'.n = cli.frags
      /\ stream'.n \in 0 .. MaxFrags
  BY <1>1, <1>3, BoundAssumption DEF PushDelta, Inv, Shapes, CliType
<1>7. PageOK(page') /\ page'.stream = IF stream.n = 0 THEN 1
                                      ELSE IF page.stream = 0 THEN 0 ELSE page.stream + 1
  BY <1>1 DEF PushDelta, Inv, Shapes, PageOK
<1>8. Shapes'
  <2>1. logged' \subseteq {g \in Goroutines : out'[g] # <<>>}
    BY <1>1, <1>5 DEF Inv, Shapes
  <2> QED
    BY <1>1, <1>6, <1>7, <2>1 DEF Inv, Shapes, ModelOK
<1>9. Speech'
  BY <1>1, <1>5, Names DEF Inv, Speech
<1>10. OneSpeaks'
  <2>1. ~ Quiet
    BY <1>1 DEF Quiet
  <2> QED
    BY <1>1, <1>5, <2>1, Names DEF Inv, OneSpeaks
<1>11. ProcessKnown'
  BY <1>1, <1>5, Names, KnownKept DEF Inv
<1>12. TasksTimed'
  <2>1. \A t \in Tools : ~ EndSaid(t) /\ ~ EndSaid(t)'
    BY <1>2, <1>5 DEF EndSaid, EndsBg
  <2> QED
    BY <1>1, <1>5, <2>1, Names, SameAhead DEF Inv, TasksTimed
<1>13. StreamFollows'
  BY <1>1, <1>3, <1>5, <1>6 DEF Inv, StreamFollows
<1>14. StreamShown'
  <2> SUFFICES ASSUME cli'.cut = {}
               PROVE  \/ page'.stream \in {0, stream'.n}
                      \/ \E i \in DOMAIN events' : Clears(events'[i])
    BY DEF StreamShown
  <2>1. page.stream \in {0, stream.n} \/ \E i \in DOMAIN events : Clears(events[i])
    BY <1>1 DEF Inv, StreamShown
  <2>2. CASE page.stream \in {0, stream.n}
    BY <1>6, <1>7, <2>2
  <2>3. CASE \E i \in DOMAIN events : Clears(events[i])
    BY <1>1, <2>3
  <2> QED
    BY <2>1, <2>2, <2>3
<1> QED
  BY <1>8, <1>9, <1>10, <1>11, <1>12, <1>13, <1>14 DEF Inv

\* Any other message of the scan goroutine goes to the log.
LEMMA LogKeepsScan ==
  ASSUME Inv, LogMessage("scan"), Head(out["scan"]).type # "delta"
  PROVE  Inv'
<1> DEFINE msg == Head(out["scan"])
           o == out["scan"]
<1>1. /\ o # <<>> /\ "scan" \notin logged
      /\ stream' = StreamAfter(msg)
      /\ timers' = IF msg.type = "tool_result" /\ msg.info = "bg" THEN timers \cup {msg.id} ELSE
         timers
      /\ page' = IF Flushed(msg) = <<>> THEN page ELSE AddChip(page, <<"text", stream.id>>)
      /\ logged' = logged \cup {"scan"}
      /\ UNCHANGED <<cli, stats, m, events, answering, out>>
  BY DEF LogMessage
<1>2. /\ 1 \in DOMAIN o /\ msg = o[1] /\ o \in Seq(Msgs) /\ msg \in Msgs /\ ScanMsg(msg)
      /\ Len(o) \in Nat /\ DOMAIN o = 1 .. Len(o)
  BY <1>1, ScanHead DEF Inv
<1>3. PageOK(page') /\ page'.stream = page.stream
  BY <1>1, AddChipShows DEF Inv, Shapes
<1>4. stream' = NoStream \/ stream' = stream
  BY <1>1 DEF StreamAfter
<1>5. NoStream.n = 0
  BY DEF NoStream
<1>6. \A i \in DOMAIN o : o[i].type # "delta"
  <2> SUFFICES ASSUME NEW i \in DOMAIN o, o[i].type = "delta" PROVE FALSE
    OBVIOUS
  <2>1. Len(o) = 1
    BY DEF Inv, StreamFollows
  <2>2. i = 1
    BY <1>2, <2>1
  <2> QED
    BY <1>2, <2>2
<1>7. stream' = stream \/ cli.block = "none"
  <2>1. IsStreamingFlushTrigger(msg) \/ msg.type = "running" => cli.block = "none"
    BY <1>2 DEF Inv, StreamFollows
  <2> QED
    BY <1>1, <2>1 DEF StreamAfter
<1>8. msg.type \in {"text", "running"} => stream' = NoStream
  BY <1>1, <1>2 DEF Inv, StreamFollows, StreamAfter, IsStreamingFlushTrigger
<1>9. "scan" \in logged'
  BY <1>1
<1> HIDE DEF msg, o
<1>10. Shapes'
  <2>1. timers' \subseteq Tools
    BY <1>1, <1>2 DEF Inv, Shapes, ScanMsg, BgIsMain
  <2>2. logged' \subseteq {g \in Goroutines : out'[g] # <<>>}
    BY <1>1, Names DEF Inv, Shapes, o
  <2>3. stream'.n \in 0 .. MaxFrags
    BY <1>4, <1>5, BoundAssumption DEF Inv, Shapes
  <2> QED
    BY <1>1, <1>3, <2>1, <2>2, <2>3 DEF Inv, Shapes, ModelOK
<1>11. Speech'
  BY <1>1 DEF Inv, Speech
<1>12. OneSpeaks'
  <2>1. ~ Quiet
    BY <1>1 DEF Quiet, o
  <2> QED
    BY <1>1, <2>1 DEF Inv, OneSpeaks
<1>13. ProcessKnown'
  BY <1>1, KnownKept DEF Inv
<1>14. TasksTimed'
  <2> SUFFICES ASSUME NEW t \in Tools
      PROVE  /\ t \in timers' =>
                  /\ cli.tool[t] = "done" /\ ~ EndSaid(t)
                  /\ WillRun(t) \/ StartsBg(msg, t)
             /\ WillRun(t) => t \in timers' \/ out["watcher"] # <<>> \/ EndSaid(t)
             /\ \A i \in DOMAIN o : StartsBg(o[i], t) =>
                  Len(o) = 1 /\ cli.tool[t] = "done" /\ t \in timers'
    BY <1>1, <1>9, SameAhead DEF TasksTimed, EndSaid, o, msg
  <2>1. /\ t \in timers => cli.tool[t] = "done" /\ ~ EndSaid(t) /\ WillRun(t)
        /\ WillRun(t) => t \in timers \/ out["watcher"] # <<>> \/ EndSaid(t)
        /\ \A i \in DOMAIN o : StartsBg(o[i], t) => Len(o) = 1 /\ cli.tool[t] = "done"
    BY <1>1 DEF Inv, TasksTimed, o
  <2>2. t \in timers' <=> t \in timers \/ StartsBg(msg, t)
    BY <1>1 DEF StartsBg
  <2>3. StartsBg(msg, t) => ~ EndSaid(t)
    <3> SUFFICES ASSUME StartsBg(msg, t), NEW i \in DOMAIN o, EndsBg(o[i], t) PROVE FALSE
      BY DEF EndSaid, o
    <3>1. i = 1
      BY <1>2, <2>1
    <3> QED
      BY <1>2, <3>1 DEF StartsBg, EndsBg
  <2>4. \A i \in DOMAIN o : StartsBg(o[i], t) => i = 1
    BY <1>2, <2>1
  <2> QED
    BY <1>2, <2>1, <2>2, <2>3, <2>4
<1>15. StreamFollows'
  <2>1. /\ cli.turn = "running" /\ cli.block = "none" =>
             stream'.n = 0 \/ \E i \in DOMAIN o : o[i].type \in {"text", "running"} /\ i > 1
        /\ cli.cut = {} /\ cli.block = "none" =>
             stream'.n = 0 \/ \E i \in DOMAIN o : o[i].type = "text" /\ i > 1
    <3>1. CASE stream' = NoStream
      BY <1>5, <3>1
    <3>2. CASE stream' # NoStream
      <4>1. stream' = stream /\ o[1].type \notin {"text", "running"}
        BY <1>2, <1>4, <1>8, <3>2
      <4>2. /\ cli.turn = "running" /\ cli.block = "none" =>
                 stream.n = 0 \/ \E i \in DOMAIN o : o[i].type \in {"text", "running"}
            /\ cli.cut = {} /\ cli.block = "none" =>
                 stream.n = 0 \/ \E i \in DOMAIN o : o[i].type = "text"
        BY DEF Inv, StreamFollows, o
      <4>3. \A i \in DOMAIN o : i = 1 \/ i > 1
        BY <1>2
      <4> QED
        BY <4>1, <4>2, <4>3
    <3> QED
      BY <3>1, <3>2
  <2>2. cli.block # "none" => stream'.n = cli.frags
    BY <1>6, <1>7 DEF Inv, StreamFollows, o
  <2>3. \A i \in DOMAIN o :
           /\ o[i].type = "text" => Len(o) = 1 /\ o[i].agent = None
           /\ IsStreamingFlushTrigger(o[i]) \/ o[i].type = "running" => cli.block = "none"
    BY DEF Inv, StreamFollows, o
  <2>4. cli.block # "none" => cli.turn = "running"
    BY DEF Inv, StreamFollows
  <2> QED
    BY <1>1, <1>6, <1>9, <2>1, <2>2, <2>3, <2>4 DEF StreamFollows, Unlogged, o,
       IsStreamingFlushTrigger
<1>16. StreamShown'
  <2> SUFFICES ASSUME cli.cut = {}
               PROVE  \/ page.stream \in {0, stream'.n}
                      \/ \E i \in DOMAIN events : Clears(events[i])
                      \/ Clears(msg)
    BY <1>1, <1>3, <1>9 DEF StreamShown, msg
  <2>1. page.stream \in {0, stream.n} \/ \E i \in DOMAIN events : Clears(events[i])
    BY <1>1 DEF Inv, StreamShown
  <2>2. CASE stream' = stream
    BY <2>1, <2>2
  <2>3. CASE stream' # stream
    <3>1. stream' = NoStream /\ cli.block = "none"
      BY <1>4, <1>7, <2>3
    <3>2. stream.n = 0 \/ \E i \in DOMAIN o : o[i].type = "text"
      BY <3>1 DEF Inv, StreamFollows, o
    <3>3. CASE stream.n = 0
      BY <1>5, <2>1, <3>1, <3>3
    <3>4. ASSUME NEW i \in DOMAIN o, o[i].type = "text" PROVE Clears(msg)
      <4>1. Len(o) = 1
        BY <3>4 DEF Inv, StreamFollows, o
      <4>2. i = 1
        BY <1>2, <4>1
      <4> QED
        BY <1>2, <3>4, <4>2 DEF Clears
    <3> QED
      BY <3>2, <3>3, <3>4
  <2> QED
    BY <2>2, <2>3
<1> QED
  BY <1>10, <1>11, <1>12, <1>13, <1>14, <1>15, <1>16 DEF Inv

\* One event more, of any goroutine.
LEMMA EventAdded ==
  ASSUME Inv, NEW msg \in Msgs, EventMsg(msg), m' = m, events' = Append(events, msg)
  PROVE  /\ WillLive' <=> msg.type = "session_started" \/
                          (msg.type # "session_ended" /\ WillLive)
         /\ \A t \in Tools : WillRun(t)' <=>
              StartsBg(msg, t) \/ (~ Stops(msg, t) /\ WillRun(t))
         /\ events' \in Seq(Msgs) /\ \A i \in DOMAIN events' : EventMsg(events'[i])
         /\ (\E i \in DOMAIN events' : Clears(events'[i])) <=>
              Clears(msg) \/ \E i \in DOMAIN events : Clears(events[i])
         /\ (\A t \in Tools : StartsBg(msg, t) => WillLive) =>
              \A t \in Tools, i \in DOMAIN events' :
                StartsBg(events'[i], t) => AliveAfter(m'.alive, events', i - 1)
<1>1. events \in Seq(Msgs) /\ m.alive \in BOOLEAN
  BY DEF Inv, Speech, Shapes, ModelOK
<1>2. /\ events' \in Seq(Msgs) /\ Len(events') = Len(events) + 1 /\ Len(events) \in Nat
      /\ DOMAIN events = 1 .. Len(events) /\ DOMAIN events' = 1 .. Len(events) + 1
      /\ events'[Len(events) + 1] = msg
      /\ \A i \in 1 .. Len(events) : events'[i] = events[i]
  BY <1>1
<1>3. WillLive' <=> msg.type = "session_started" \/ (msg.type # "session_ended" /\ WillLive)
  <2>1. Len(events) \in 0 .. Len(events)
    BY <1>2
  <2>2. AliveAfter(m.alive, Append(events, msg), Len(events) + 1) <=>
          msg.type = "session_started" \/ (msg.type # "session_ended" /\ WillLive)
    BY <1>1, <2>1, AppendAlive DEF WillLive
  <2> QED
    BY <1>2, <2>2 DEF WillLive
<1>4. ASSUME NEW t \in Tools
      PROVE  WillRun(t)' <=> StartsBg(msg, t) \/ (~ Stops(msg, t) /\ WillRun(t))
  BY <1>1, AppendRuns DEF WillRun
<1>5. \A i \in DOMAIN events' : EventMsg(events'[i])
  <2> SUFFICES ASSUME NEW i \in 1 .. Len(events) + 1 PROVE EventMsg(events'[i])
    BY <1>2
  <2>1. CASE i = Len(events) + 1
    BY <1>2, <2>1
  <2>2. CASE i # Len(events) + 1
    <3>1. i \in 1 .. Len(events)
      BY <1>2, <2>2
    <3> QED
      BY <1>2, <3>1 DEF Inv, Speech
  <2> QED
    BY <2>1, <2>2
<1>6. (\E i \in DOMAIN events' : Clears(events'[i])) <=>
        Clears(msg) \/ \E i \in DOMAIN events : Clears(events[i])
  <2>1. \A i \in 1 .. Len(events) + 1 : i = Len(events) + 1 \/ i \in 1 .. Len(events)
    BY <1>2
  <2>2. Len(events) + 1 \in 1 .. Len(events) + 1 /\ 1 .. Len(events) \subseteq 1 .. Len(events) + 1
    BY <1>2
  <2> QED
    BY <1>2, <2>1, <2>2
<1>7. ASSUME \A t \in Tools : StartsBg(msg, t) => WillLive,
             NEW t \in Tools, NEW i \in DOMAIN events', StartsBg(events'[i], t)
      PROVE  AliveAfter(m'.alive, events', i - 1)
  <2>1. i \in 1 .. Len(events) + 1 /\ i - 1 \in 0 .. Len(events)
    BY <1>2
  <2>2. AliveAfter(m.alive, Append(events, msg), i - 1) <=> AliveAfter(m.alive, events, i - 1)
    BY <1>1, <2>1, AppendAlive
  <2>3. CASE i = Len(events) + 1
    <3>1. i - 1 = Len(events) /\ WillLive
      BY <1>2, <1>7, <2>3
    <3> QED
      BY <2>2, <3>1 DEF WillLive
  <2>4. CASE i # Len(events) + 1
    <3>1. i \in DOMAIN events /\ events'[i] = events[i]
      BY <1>2, <2>1, <2>4
    <3>2. AliveAfter(m.alive, events, i - 1)
      BY <1>7, <3>1 DEF Inv, ProcessKnown
    <3> QED
      BY <2>2, <3>2
  <2> QED
    BY <2>3, <2>4
<1> QED
  BY <1>2, <1>3, <1>4, <1>5, <1>6, <1>7

\* A message of the scan goroutine goes to the model.
LEMMA HandKeepsScan ==
  ASSUME Inv, HandToModel("scan")
  PROVE  Inv'
<1> DEFINE o == out["scan"]
           msg == Head(o)
<1>1. /\ "scan" \in logged /\ logged' = logged \ {"scan"}
      /\ events' = Append(events, msg) /\ out' = [out EXCEPT !["scan"] = Tail(o)]
      /\ UNCHANGED <<cli, stats, stream, timers, log, m, answering, page>>
  BY DEF HandToModel, session
<1>2. o # <<>>
  BY <1>1 DEF Inv, Shapes
<1>3. /\ 1 \in DOMAIN o /\ msg = o[1] /\ msg \in Msgs /\ ScanMsg(msg)
      /\ o \in Seq(Msgs) /\ Tail(o) \in Seq(Msgs) /\ Len(o) \in Nat /\ DOMAIN o = 1 .. Len(o)
      /\ DOMAIN Tail(o) = 1 .. Len(o) - 1
      /\ \A i \in 1 .. Len(o) - 1 : Tail(o)[i] = o[i + 1]
  BY <1>2, ScanHead DEF Inv
<1>4. EventMsg(msg)
  BY <1>3 DEF ScanMsg, EventMsg
<1>5. /\ WillLive' <=> msg.type = "session_started" \/ (msg.type # "session_ended" /\ WillLive)
      /\ \A t \in Tools : WillRun(t)' <=> StartsBg(msg, t) \/ (~ Stops(msg, t) /\ WillRun(t))
      /\ events' \in Seq(Msgs) /\ \A i \in DOMAIN events' : EventMsg(events'[i])
      /\ (\E i \in DOMAIN events' : Clears(events'[i])) <=>
           Clears(msg) \/ \E i \in DOMAIN events : Clears(events[i])
      /\ (\A t \in Tools : StartsBg(msg, t) => WillLive) =>
           \A t \in Tools, i \in DOMAIN events' :
             StartsBg(events'[i], t) => AliveAfter(m'.alive, events', i - 1)
  BY <1>1, <1>3, <1>4, EventAdded
<1>6. /\ out'["scan"] = Tail(o) /\ out' \in [Goroutines -> Seq(Msgs)]
      /\ \A g \in Goroutines : g # "scan" => out'[g] = out[g]
  BY <1>1, <1>3, Names DEF Inv, Speech
<1>7. out'["watcher"] = out["watcher"] /\ out'["sender"] = out["sender"]
  BY <1>6, Names
<1>8. cli.alive /\ out["sender"] = <<>> /\ out["watcher"] = <<>>
  BY <1>2 DEF Inv, OneSpeaks, Quiet
<1>9. "scan" \notin logged'
  BY <1>1
<1>10. \A i \in 1 .. Len(o) - 1 : i + 1 \in DOMAIN o /\ i + 1 > 1 /\ Len(o) # 1
  <2>1. Len(o) \in Nat /\ DOMAIN o = 1 .. Len(o)
    BY <1>3
  <2> HIDE DEF o
  <2> QED
    BY <2>1
<1> HIDE DEF msg, o
<1>11. Shapes'
  <2>1. logged' \subseteq {g \in Goroutines : out'[g] # <<>>}
    BY <1>1, <1>6 DEF Inv, Shapes
  <2> QED
    BY <1>1, <2>1 DEF Inv, Shapes, ModelOK, PageOK
<1>12. Speech'
  <2>1. \A i \in DOMAIN out'["scan"] : ScanMsg(out'["scan"][i])
    BY <1>3, <1>6, <1>10 DEF Inv, Speech, o
  <2>2. \A t \in AllTools : out'[t] = out[t]
    BY <1>6, Names
  <2> QED
    BY <1>5, <1>6, <1>7, <2>1, <2>2 DEF Inv, Speech
<1>13. OneSpeaks'
  BY <1>1, <1>7, <1>8 DEF Inv, OneSpeaks
<1>14. ProcessKnown'
  <2>1. WillLive
    BY <1>8 DEF Inv, ProcessKnown
  <2>2. msg.type # "session_ended"
    BY <1>3 DEF ScanMsg
  <2> QED
    BY <1>1, <1>5, <1>7, <1>8, <2>1, <2>2 DEF ProcessKnown
<1>15. TasksTimed'
  <2> SUFFICES ASSUME NEW t \in Tools
      PROVE  /\ t \in timers =>
                  /\ cli.tool[t] = "done" /\ ~ EndSaid(t)'
                  /\ WillRun(t)'
             /\ WillRun(t)' => t \in timers \/ EndSaid(t)'
             /\ \A i \in DOMAIN out'["scan"] : StartsBg(out'["scan"][i], t) => FALSE
    BY <1>1 DEF TasksTimed
  <2>1. EndSaid(t)' <=> \E i \in 1 .. Len(o) - 1 : EndsBg(o[i + 1], t)
    BY <1>3, <1>6 DEF EndSaid, EndsBg
  <2>2. EndSaid(t)' => EndSaid(t)
    BY <1>10, <2>1 DEF EndSaid, o
  <2>3. EndSaid(t) => EndsBg(msg, t) \/ EndSaid(t)'
    <3> SUFFICES ASSUME NEW i \in 1 .. Len(o), EndsBg(o[i], t), i # 1
                 PROVE  \E j \in 1 .. Len(o) - 1 : EndsBg(o[j + 1], t)
      BY <1>3, <2>1 DEF EndSaid, o
    <3>1. i - 1 \in 1 .. Len(o) - 1 /\ (i - 1) + 1 = i
      BY <1>3
    <3> QED
      BY <3>1
  <2>4. EndsBg(msg, t) => EndSaid(t)
    BY <1>3 DEF EndSaid, o
  <2>5. Stops(msg, t) <=> EndsBg(msg, t)
    BY <1>3 DEF Stops, ScanMsg
  <2>6. WillRun(t)' <=> StartsBg(msg, t) \/ (~ Stops(msg, t) /\ WillRun(t))
    BY <1>5
  <2>7. /\ t \in timers => cli.tool[t] = "done" /\ ~ EndSaid(t) /\ (WillRun(t) \/ StartsBg(msg, t))
        /\ WillRun(t) => t \in timers \/ EndSaid(t)
        /\ \A i \in DOMAIN o : StartsBg(o[i], t) => Len(o) = 1 /\ t \in timers
    BY <1>1, <1>8 DEF Inv, TasksTimed, o, msg
  <2>8. \A i \in DOMAIN out'["scan"] : ~ StartsBg(out'["scan"][i], t)
    BY <1>3, <1>6, <1>10, <2>7
  <2>9. StartsBg(msg, t) => t \in timers
    BY <1>3, <2>7
  <2> QED
    BY <2>2, <2>3, <2>4, <2>5, <2>6, <2>7, <2>8, <2>9
<1>16. StreamFollows'
  <2>1. \A i \in DOMAIN o : o[i].type # "delta"
    BY <1>1 DEF Inv, StreamFollows, o
  <2>2. \A i \in 1 .. Len(o) - 1 :
           /\ Tail(o)[i].type \notin {"delta", "text"}
           /\ IsStreamingFlushTrigger(Tail(o)[i]) \/ Tail(o)[i].type = "running" => cli.block =
              "none"
    <3> SUFFICES ASSUME NEW i \in 1 .. Len(o) - 1
        PROVE  /\ Tail(o)[i].type \notin {"delta", "text"}
               /\ IsStreamingFlushTrigger(Tail(o)[i]) \/ Tail(o)[i].type = "running" => cli.block
                  = "none"
      OBVIOUS
    <3>1. i + 1 \in DOMAIN o /\ Len(o) # 1 /\ Tail(o)[i] = o[i + 1]
      BY <1>3, <1>10
    <3>2. /\ o[i + 1].type = "text" => Len(o) = 1
          /\ IsStreamingFlushTrigger(o[i + 1]) \/ o[i + 1].type = "running" => cli.block = "none"
      BY <3>1 DEF Inv, StreamFollows, o
    <3> QED
      BY <2>1, <3>1, <3>2
  <2>3. cli.block # "none" => cli.turn = "running" /\ stream.n = cli.frags
    BY <2>1 DEF Inv, StreamFollows, o
  <2>4. \A i \in DOMAIN o : i > 1 => i - 1 \in 1 .. Len(o) - 1 /\ Tail(o)[i - 1] = o[i]
    BY <1>3
  <2>5. /\ cli.turn = "running" /\ cli.block = "none" =>
             stream.n = 0 \/ \E i \in 1 .. Len(o) - 1 : Tail(o)[i].type \in {"text", "running"}
        /\ cli.cut = {} /\ cli.block = "none" =>
             stream.n = 0 \/ \E i \in 1 .. Len(o) - 1 : Tail(o)[i].type = "text"
    <3>1. /\ cli.turn = "running" /\ cli.block = "none" =>
               stream.n = 0 \/ \E i \in DOMAIN o : o[i].type \in {"text", "running"} /\ i > 1
          /\ cli.cut = {} /\ cli.block = "none" =>
               stream.n = 0 \/ \E i \in DOMAIN o : o[i].type = "text" /\ i > 1
      BY <1>1 DEF Inv, StreamFollows, Unlogged, o
    <3> QED
      BY <2>4, <3>1
  <2> QED
    BY <1>1, <1>3, <1>6, <1>9, <2>2, <2>3, <2>5
       DEF StreamFollows, Unlogged, IsStreamingFlushTrigger
<1>17. StreamShown'
  <2>1. cli.cut = {} => \/ page.stream \in {0, stream.n}
                        \/ \E i \in DOMAIN events : Clears(events[i])
                        \/ Clears(msg)
    BY DEF Inv, StreamShown, o, msg
  <2> QED
    BY <1>1, <1>5, <2>1 DEF StreamShown
<1> QED
  BY <1>11, <1>12, <1>13, <1>14, <1>15, <1>16, <1>17 DEF Inv

\* A message of another goroutine goes to the model.
LEMMA HandKeepsOther ==
  ASSUME Inv, NEW g \in Goroutines, g # "scan", HandToModel(g)
  PROVE  Inv'
<1> DEFINE msg == Head(out[g])
<1>1. /\ g \in logged /\ logged' = logged \ {g}
      /\ events' = Append(events, msg) /\ out' = [out EXCEPT ![g] = Tail(@)]
      /\ UNCHANGED <<cli, stats, stream, timers, log, m, answering, page>>
  BY DEF HandToModel, session
<1>2. out[g] # <<>>
  BY <1>1 DEF Inv, Shapes
<1>3. /\ msg \in Msgs /\ Tail(out[g]) = <<>> /\ EventMsg(msg) /\ ~ Clears(msg)
      /\ msg.type = IF g = "watcher" THEN "session_ended"
                    ELSE IF g = "sender" THEN "session_started" ELSE "permission_request"
  BY <1>2, OthersSay DEF Inv
<1> HIDE DEF msg
<1>4. /\ WillLive' <=> msg.type = "session_started" \/ (msg.type # "session_ended" /\ WillLive)
      /\ \A t \in Tools : WillRun(t)' <=> StartsBg(msg, t) \/ (~ Stops(msg, t) /\ WillRun(t))
      /\ events' \in Seq(Msgs) /\ \A i \in DOMAIN events' : EventMsg(events'[i])
      /\ (\E i \in DOMAIN events' : Clears(events'[i])) <=>
           Clears(msg) \/ \E i \in DOMAIN events : Clears(events[i])
      /\ (\A t \in Tools : StartsBg(msg, t) => WillLive) =>
           \A t \in Tools, i \in DOMAIN events' :
             StartsBg(events'[i], t) => AliveAfter(m'.alive, events', i - 1)
  BY <1>1, <1>3, EventAdded
<1>5. \A t \in Tools : ~ StartsBg(msg, t) /\ ~ EndsBg(msg, t)
  BY <1>3 DEF StartsBg, EndsBg
<1>6. /\ out' \in [Goroutines -> Seq(Msgs)] /\ out'[g] = <<>>
      /\ \A h \in Goroutines : h # g => out'[h] = out[h]
  <2>1. <<>> \in Seq(Msgs)
    OBVIOUS
  <2> QED
    BY <1>1, <1>3, <2>1 DEF Inv, Speech
<1>7. out'["scan"] = out["scan"] /\ ("scan" \in logged' <=> "scan" \in logged)
  BY <1>1, <1>6, Names
<1>8. /\ out'["watcher"] = IF g = "watcher" THEN <<>> ELSE out["watcher"]
      /\ out'["sender"] = IF g = "sender" THEN <<>> ELSE out["sender"]
  BY <1>6, Names
<1>9. Shapes'
  <2>1. logged' \subseteq {h \in Goroutines : out'[h] # <<>>}
    BY <1>1, <1>6 DEF Inv, Shapes
  <2> QED
    BY <1>1, <2>1 DEF Inv, Shapes, ModelOK, PageOK
<1>10. Speech'
  <2>1. \A t \in AllTools : out'[t] \in {<<>>, out[t]}
    BY <1>6, Names
  <2> QED
    BY <1>4, <1>6, <1>7, <1>8, <2>1 DEF Inv, Speech
<1>11. OneSpeaks'
  <2>1. Quiet => Quiet'
    BY <1>1, <1>7 DEF Quiet
  <2> QED
    BY <1>1, <1>7, <1>8, <2>1 DEF Inv, OneSpeaks
<1>12. ProcessKnown'
  <2>1. WillLive <=> (cli.alive /\ out["sender"] = <<>>) \/ out["watcher"] # <<>>
    BY DEF Inv, ProcessKnown
  <2>2. WillLive' <=> (cli.alive /\ out'["sender"] = <<>>) \/ out'["watcher"] # <<>>
    <3>1. CASE g = "watcher"
      BY <1>2, <1>3, <1>4, <1>8, <3>1 DEF Inv, OneSpeaks
    <3>2. CASE g = "sender"
      BY <1>2, <1>3, <1>4, <1>8, <3>2 DEF Inv, OneSpeaks
    <3>3. CASE g \notin {"watcher", "sender"}
      BY <1>3, <1>4, <1>8, <2>1, <3>3
    <3> QED
      BY <3>1, <3>2, <3>3
  <2> QED
    BY <1>1, <1>4, <1>5, <2>2 DEF ProcessKnown
<1>13. TasksTimed'
  <2>1. CASE g \in {"watcher", "sender"}
    <3>1. Quiet
      BY <1>2, <2>1 DEF Inv, OneSpeaks
    <3>2. out["scan"] = <<>> /\ timers = {} /\ DOMAIN out["scan"] = {}
      BY <3>1 DEF Quiet
    <3>3. \A t \in Tools : ~ WillRun(t)'
      BY <1>3, <1>4, <1>5, <2>1 DEF Stops
    <3> QED
      BY <1>1, <1>7, <3>2, <3>3 DEF TasksTimed
  <2>2. CASE g \notin {"watcher", "sender"}
    <3>1. \A t \in Tools : WillRun(t)' <=> WillRun(t)
      BY <1>3, <1>4, <1>5, <2>2 DEF Stops
    <3> QED
      BY <1>1, <1>7, <1>8, <2>2, <3>1 DEF Inv, TasksTimed, EndSaid
  <2> QED
    BY <2>1, <2>2
<1>14. StreamFollows'
  BY <1>1, <1>7 DEF Inv, StreamFollows, Unlogged, IsStreamingFlushTrigger
<1>15. StreamShown'
  BY <1>1, <1>4, <1>7 DEF Inv, StreamShown
<1> QED
  BY <1>9, <1>10, <1>11, <1>12, <1>13, <1>14, <1>15 DEF Inv

\* The model takes an event and renders it.
LEMMA ModelKeeps ==
  ASSUME Inv, ModelStep
  PROVE  Inv'
<1> DEFINE msg == Head(events)
<1>1. /\ events # <<>> /\ m' = ApplyMsg(m, msg) /\ page' = ProcessEvent(m, m', msg, page)
      /\ events' = Tail(events)
      /\ UNCHANGED <<cli, stats, stream, timers, log, out, logged, answering>>
  BY DEF ModelStep, session
<1>2. /\ events \in Seq(Msgs) /\ Len(events) \in Nat \ {0} /\ msg = events[1] /\ msg \in Msgs
      /\ DOMAIN events = 1 .. Len(events)
      /\ events' \in Seq(Msgs) /\ Len(events') = Len(events) - 1
      /\ DOMAIN events' = 1 .. Len(events) - 1
      /\ \A i \in 1 .. Len(events) - 1 : events'[i] = events[i + 1]
  BY <1>1 DEF Inv, Speech
<1>3. EventMsg(msg) /\ ModelOK(m) /\ PageOK(page)
  BY <1>2 DEF Inv, Speech, Shapes
<1> HIDE DEF msg
<1>4. /\ ModelOK(m')
      /\ m'.alive <=> msg.type = "session_started" \/ (msg.type # "session_ended" /\ m.alive)
      /\ \A t \in Tools :
           /\ StartsBg(msg, t) => m'.bg[t] = "running"
           /\ msg.type = "session_started" \/ EndsBg(msg, t) => m'.bg[t] # "running"
           /\ ~ StartsBg(msg, t) /\ ~ Stops(msg, t) => m'.bg[t] = m.bg[t]
  BY <1>1, <1>2, <1>3, ApplyKnown
<1>5. PageOK(page') /\ page'.stream = IF Clears(msg) THEN 0 ELSE page.stream
  BY <1>1, <1>2, <1>3, ProcessShows
<1>6. m.alive \in BOOLEAN /\ m'.alive \in BOOLEAN
  BY <1>3, <1>4 DEF ModelOK
<1>7. ASSUME NEW n \in 1 .. Len(events)
      PROVE  AliveAfter(m'.alive, events', n - 1) <=> AliveAfter(m.alive, events, n)
  <2>1. AliveAfter(m'.alive, Tail(events), n - 1) <=> AliveAfter(m.alive, events, n)
    BY <1>1, <1>2, <1>4, <1>6, TailAlive
  <2> QED
    BY <1>1, <2>1
<1>8. \A t \in Tools : StartsBg(msg, t) => m.alive
  <2> SUFFICES ASSUME NEW t \in Tools, StartsBg(msg, t) PROVE m.alive
    OBVIOUS
  <2>1. 1 \in DOMAIN events /\ 1 - 1 = 0
    BY <1>2
  <2>2. AliveAfter(m.alive, events, 0)
    BY <1>2, <2>1 DEF Inv, ProcessKnown
  <2> QED
    BY <2>2 DEF AliveAfter
<1>9. ASSUME NEW t \in Tools PROVE WillRun(t)' <=> WillRun(t)
  <2>1. Stops(msg, t) => ~ m'.alive \/ m'.bg[t] # "running"
    BY <1>4 DEF Stops
  <2>2. RunsAfter(m'.alive, m'.bg[t], Tail(events), t) <=> RunsAfter(m.alive, m.bg[t], events, t)
    BY <1>1, <1>2, <1>4, <1>6, <1>8, <2>1, TailRuns
  <2> QED
    BY <1>1, <2>2 DEF WillRun
<1>10. Shapes'
  BY <1>1, <1>4, <1>5 DEF Inv, Shapes
<1>11. Speech'
  <2>1. \A i \in DOMAIN events' : EventMsg(events'[i])
    BY <1>2 DEF Inv, Speech
  <2> QED
    BY <1>1, <1>2, <2>1 DEF Inv, Speech
<1>12. OneSpeaks'
  BY <1>1 DEF Inv, OneSpeaks, Quiet
<1>13. ProcessKnown'
  <2>1. WillLive' <=> WillLive
    <3>1. Len(events) \in 1 .. Len(events)
      BY <1>2
    <3> QED
      BY <1>2, <1>7, <3>1 DEF WillLive
  <2>2. ASSUME NEW t \in Tools, NEW i \in DOMAIN events', StartsBg(events'[i], t)
        PROVE  AliveAfter(m'.alive, events', i - 1)
    <3>1. i + 1 \in DOMAIN events /\ events'[i] = events[i + 1] /\ (i + 1) - 1 = i
          /\ i \in 1 .. Len(events)
      BY <1>2
    <3>2. AliveAfter(m.alive, events, i)
      BY <2>2, <3>1 DEF Inv, ProcessKnown
    <3> QED
      BY <1>7, <3>1, <3>2
  <2> QED
    BY <1>1, <2>1, <2>2 DEF Inv, ProcessKnown
<1>14. TasksTimed'
  BY <1>1, <1>9 DEF Inv, TasksTimed, EndSaid
<1>15. StreamFollows'
  BY <1>1 DEF Inv, StreamFollows, Unlogged, IsStreamingFlushTrigger
<1>16. StreamShown'
  <2>1. ASSUME NEW i \in DOMAIN events, Clears(events[i]), ~ Clears(msg)
        PROVE  \E j \in DOMAIN events' : Clears(events'[j])
    <3>1. i - 1 \in DOMAIN events' /\ events'[i - 1] = events[i]
      BY <1>2, <2>1
    <3> QED
      BY <2>1, <3>1
  <2> QED
    BY <1>1, <1>5, <2>1 DEF Inv, StreamShown
<1> QED
  BY <1>10, <1>11, <1>12, <1>13, <1>14, <1>15, <1>16 DEF Inv

-----------------------------------------------------------------------------
(* The theorems.                                                           *)

\* The invariant holds in the initial state.
LEMMA InitInv == Init => Inv
<1> SUFFICES ASSUME Init PROVE Inv
  OBVIOUS
<1>1. /\ stats = [a \in Agents |-> NoStat] /\ stream = NoStream /\ timers = {}
      /\ out = [g \in Goroutines |-> <<>>] /\ logged = {} /\ m = NewModel(TRUE) /\ events = <<>>
      /\ page = RenderFull(NewModel(TRUE), <<>>, 0)
  BY DEF Init
<1>2. /\ cli \in CliType /\ cli.alive /\ cli.turn = "idle" /\ cli.block = "none" /\ cli.cut = {}
      /\ \A a \in Agents : cli.agent[a] = "new"
  BY BoundAssumption DEF Init, CliType, Phases, AgentPhases
<1>3. ModelOK(m) /\ m.alive = TRUE /\ m.perms = {} /\ \A t \in Tools : m.bg[t] = "none"
  BY <1>1 DEF NewModel, ModelOK
<1>4. PageOK(page) /\ page.stream = 0
  BY <1>1, <1>3 DEF RenderFull, PageOK
<1>5. stream.n = 0
  BY <1>1 DEF NoStream
<1>6. Shapes
  <2>1. stats \in [Agents -> StatType] /\ \A a \in Agents : ~ stats[a].open
    BY <1>1 DEF NoStat, StatType, Headings
  <2>2. stream.n \in 0 .. MaxFrags
    BY <1>5, BoundAssumption
  <2>3. timers \subseteq Tools /\ logged \subseteq {g \in Goroutines : out[g] # <<>>}
    BY <1>1
  <2> QED
    BY <1>2, <1>3, <1>4, <2>1, <2>2, <2>3 DEF Shapes
<1>7. out["scan"] = <<>> /\ out["watcher"] = <<>> /\ out["sender"] = <<>>
  BY <1>1, Names
<1>8. DOMAIN out["scan"] = {} /\ DOMAIN events = {} /\ Len(events) = 0
  BY <1>1, <1>7
<1>9. Speech
  <2>1. <<>> \in Seq(Msgs)
    OBVIOUS
  <2>2. \A t \in AllTools : out[t] = <<>>
    BY <1>1, Names
  <2> QED
    BY <1>1, <1>7, <1>8, <2>1, <2>2 DEF Speech
<1>10. OneSpeaks
  BY <1>2, <1>7 DEF OneSpeaks
<1>11. ProcessKnown
  <2>1. WillLive
    BY <1>3, <1>8 DEF WillLive, AliveAfter
  <2> QED
    BY <1>2, <1>7, <1>8, <2>1 DEF ProcessKnown
<1>12. TasksTimed
  <2>1. \A t \in Tools : ~ WillRun(t)
    BY <1>3, <1>8 DEF WillRun, RunsAfter
  <2> QED
    BY <1>1, <1>8, <2>1 DEF TasksTimed
<1>13. StreamFollows
  BY <1>2, <1>5, <1>8 DEF StreamFollows
<1>14. StreamShown
  BY <1>4 DEF StreamShown
<1> QED
  BY <1>6, <1>9, <1>10, <1>11, <1>12, <1>13, <1>14 DEF Inv

\* Every step keeps it.
LEMMA NextInv == Inv /\ [Next]_vars => Inv'
<1> SUFFICES ASSUME Inv, [Next]_vars PROVE Inv'
  OBVIOUS
<1>1. CASE UNCHANGED vars
  <2>1. UNCHANGED <<cli, stats, stream, timers, log, out, logged, m, events, answering, page>>
    BY <1>1 DEF vars, session
  <2>2. Shapes' /\ Speech' /\ OneSpeaks'
    BY <2>1 DEF Inv, Shapes, Speech, OneSpeaks, Quiet
  <2>3. ProcessKnown'
    BY <2>1, KnownKept DEF Inv
  <2>4. TasksTimed'
    BY <2>1, SameAhead DEF Inv, TasksTimed, EndSaid
  <2>5. StreamFollows' /\ StreamShown'
    BY <2>1 DEF Inv, StreamFollows, StreamShown, Unlogged, IsStreamingFlushTrigger
  <2> QED
    BY <2>2, <2>3, <2>4, <2>5 DEF Inv
<1>2. ASSUME NEW g \in Goroutines, LogMessage(g) \/ HandToModel(g) PROVE Inv'
  BY <1>2, LogKeepsOther, DeltaKeeps, LogKeepsScan, HandKeepsScan, HandKeepsOther
<1>3. ASSUME NEW t \in AllTools, AskPermission(t) \/ Answer(t) \/ ShowAnswer(t) PROVE Inv'
  BY <1>3, AskKeeps, AnswerKeeps
<1> QED
  BY <1>1, <1>2, <1>3, NextIsOneOf, ScanKeeps, InterruptKeeps, ExitKeeps, RestartKeeps, ModelKeeps

\* The invariant of the page, the model and the messages on their way holds
\* in every state of Broadcast, handleStreamEvent and SessionModel.run.
THEOREM InvHolds == Spec => []Inv
<1>1. Init => Inv
  BY InitInv
<1>2. Inv /\ [Next]_vars => Inv'
  BY NextInv
<1> QED
  BY <1>1, <1>2, PTL DEF Spec

\* The types are kept; the accumulator never has more fragments than a block.
THEOREM TypeCorrect == Spec => []TypeOK
<1>1. Inv => TypeOK
  BY DEF Inv, Shapes, CliType, TypeOK, ModelOK, PageOK
<1> QED
  BY <1>1, InvHolds, PTL

\* handleStreamEvent, watchProcessDeath, Broadcast and Apply keep the timers and
\* the tasks of the model together, whatever overtakes what.
THEOREM TimersRight == Spec => []TimersMatchTasks
<1>1. Inv => TimersMatchTasks
  <2> SUFFICES ASSUME Inv, Settled
               PROVE  timers = {t \in Tools : m.alive /\ m.bg[t] = "running"}
    BY DEF TimersMatchTasks
  <2>1. /\ out["scan"] = <<>> /\ out["watcher"] = <<>> /\ events = <<>>
        /\ DOMAIN out["scan"] = {} /\ Len(events) = 0
    BY Names DEF Settled
  <2>2. \A t \in Tools : WillRun(t) <=> m.alive /\ m.bg[t] = "running"
    BY <2>1 DEF WillRun, RunsAfter
  <2>3. "scan" \notin logged /\ timers \subseteq Tools
    BY <2>1 DEF Inv, Shapes
  <2>4. \A t \in Tools : t \in timers <=> WillRun(t)
    BY <2>1, <2>3 DEF Inv, TasksTimed, EndSaid
  <2> QED
    BY <2>2, <2>3, <2>4
<1> QED
  BY <1>1, InvHolds, PTL

\* The streaming area has the block that is open or nothing, though fragments
\* overtake the messages that empty it.
THEOREM StreamRight == Spec => []StreamShowsBlockOrNothing
<1>1. Inv => StreamShowsBlockOrNothing
  <2> SUFFICES ASSUME Inv, Settled, cli.cut = {}
               PROVE  page.stream \in {0, stream.n}
    BY DEF StreamShowsBlockOrNothing
  <2>1. out["scan"] = <<>> /\ DOMAIN events = {}
    BY Names DEF Settled
  <2>2. "scan" \notin logged
    BY <2>1 DEF Inv, Shapes
  <2> QED
    BY <2>1, <2>2 DEF Inv, StreamShown
<1> QED
  BY <1>1, InvHolds, PTL
=============================================================================
