---------------------------- MODULE ClaudeProcess ----------------------------
(***************************************************************************)
(* One claude CLI and the wrapper around it (claude.ClaudeProcess): the    *)
(* control requests that callers make and the scan goroutine answers, the  *)
(* permission requests the CLI makes and goroutines answer, the wait for   *)
(* the end of a turn, and Kill.  Both pipes are bounded: who writes to a   *)
(* full pipe waits.                                                        *)
(*                                                                         *)
(* The CLI is external.  It may answer or stay silent, exit, or emit a     *)
(* line longer than the scanner's buffer, which ends the scan.             *)
(***************************************************************************)
EXTENDS Naturals, Sequences, FiniteSets

CONSTANTS
  Requests,    \* goroutines that make one control request each
  Asks,        \* permission requests the CLI may make
  Killers,     \* goroutines that kill the process or close the session
  User,        \* the goroutine that sends messages and waits for their turns
  MaxMessages,    \* bound on the messages it sends
  PipeSize,    \* frames a pipe holds
  Timeout,     \* whether KillTimeout is set (a sandboxed CLI)
  Overlong     \* whether the CLI may emit a line over the scanner's limit

Nobody == "none"

\* The goroutines are not the same, and no request is one of the other two
\* things a caller may get.
ASSUME ConstantsAssumption ==
  /\ IsFiniteSet(Requests)
  /\ Requests \cap Asks = {} /\ Requests \cap Killers = {} /\ Asks \cap Killers = {}
  /\ User \notin Requests \cup Asks \cup Killers
  /\ {Nobody, "error"} \cap Requests = {}
  /\ MaxMessages \in Nat
  /\ PipeSize \in Nat \ {0}
  /\ Timeout \in BOOLEAN
  /\ Overlong \in BOOLEAN

Callers == Requests \cup Asks \cup Killers \cup {User}
Ids == 1 .. Cardinality(Requests)

VARIABLES
  pc,        \* where each goroutine is
  reqSeq,    \* the number of the last control request
  req,       \* the number of each request
  pending,   \* the request that waits for each number, or Nobody
  ch,        \* the response channel of each request, of capacity one
  got,       \* what each request returned: Nobody, "error" or a payload
  scan,      \* the scan goroutine
  inHand,    \* the response the scan goroutine is delivering
  token,     \* whether turnDone, a channel of capacity one, is full
  kill,      \* how far the one Kill got
  toCli, fromCli, \* the pipes
  running,   \* the CLI runs
  unfinished,\* messages the CLI took and has not answered with a result
  sent, results, \* messages sent, result events emitted
  cut,       \* an overlong line ended the scan
  lost       \* (history) Wait dropped output that the scan would have read

caller == <<reqSeq, req, pending, ch, got>>
wire == <<toCli, fromCli, running, unfinished, results>>
scanner == <<scan, inHand, cut>>
processVars == <<pc, caller, scanner, token, kill, sent, lost, wire>>

ProcessInit ==
  /\ pc = [a \in Callers |-> "idle"]
  /\ reqSeq = 0
  /\ req = [r \in Requests |-> 0]
  /\ pending = [i \in Ids |-> Nobody]
  /\ ch = [r \in Requests |-> <<>>]
  /\ got = [r \in Requests |-> Nobody]
  /\ scan = "read"
  /\ inHand = <<>>
  /\ token = FALSE
  /\ kill = "no"
  /\ toCli = <<>>
  /\ fromCli = <<>>
  /\ running = TRUE
  /\ unfinished = 0
  /\ sent = 0
  /\ results = 0
  /\ cut = FALSE
  /\ lost = FALSE

Goto(a, from, to) ==
  /\ pc[a] = from
  /\ pc' = [pc EXCEPT ![a] = to]

Dead == scan = "done"
Open == kill = "no"  \* stdin is open

\* A frame to the CLI names who wrote it; a response repeats the number of its
\* request, and of stands for its payload.
Frame(op, id, of) == [op |-> op, id |-> id, of |-> of]
Frames == [op : {"request", "answer", "user", "response", "ask", "result", "overlong"},
           id : {0} \cup Ids, of : Callers \cup {Nobody}]

Write(frame) ==
  /\ Open
  /\ running
  /\ Len(toCli) < PipeSize
  /\ toCli' = Append(toCli, frame)
  /\ UNCHANGED <<fromCli, running, unfinished, results>>

WriteFails == (~Open \/ ~running) /\ UNCHANGED wire

\* The CLI ends, what it has not read is lost.
CliEnds ==
  /\ running' = FALSE
  /\ toCli' = <<>>
  /\ unfinished' = 0
  /\ UNCHANGED <<fromCli, results>>

-----------------------------------------------------------------------------
(* sendControlRequest.                                                     *)

RegisterAs(r, id) ==
  /\ Goto(r, "idle", "write")
  /\ reqSeq' = reqSeq + 1
  /\ req' = [req EXCEPT ![r] = id]
  /\ pending' = [pending EXCEPT ![id] = r]
  /\ UNCHANGED <<ch, got, scanner, token, kill, sent, lost, wire>>

RegisterSameNumber(r) == RegisterAs(r, 1)  \* wrong: the number is not advanced
Register(r) == RegisterAs(r, reqSeq + 1)

WriteRequest(r) ==
  /\ Goto(r, "write", "await")
  /\ Write(Frame("request", req[r], r))
  /\ UNCHANGED <<caller, scanner, token, kill, sent, lost>>

\* The entry stays in pending.
WriteRequestFails(r) ==
  /\ Goto(r, "write", "failed")
  /\ WriteFails
  /\ got' = [got EXCEPT ![r] = "error"]
  /\ UNCHANGED <<reqSeq, req, pending, ch, scanner, token, kill, sent, lost>>

TakeAnswer(r) ==
  /\ ch[r] # <<>>
  /\ Goto(r, "await", "returned")
  /\ got' = [got EXCEPT ![r] = Head(ch[r])]
  /\ ch' = [ch EXCEPT ![r] = <<>>]
  /\ req' = [req EXCEPT ![r] = 0]
  /\ UNCHANGED <<reqSeq, pending, scanner, token, kill, sent, lost, wire>>

\* The process died, or 30 seconds passed, whatever happened in them.
GiveUpWhen(r, expired) ==
  /\ Dead \/ expired
  /\ Goto(r, "await", "returned")
  /\ got' = [got EXCEPT ![r] = "error"]
  /\ pending' = [pending EXCEPT ![req[r]] = Nobody]
  /\ req' = [req EXCEPT ![r] = 0]
  /\ ch' = [ch EXCEPT ![r] = <<>>]
  /\ UNCHANGED <<reqSeq, scanner, token, kill, sent, lost,
                 wire>>

GiveUpOnlyDead(r) == GiveUpWhen(r, FALSE)  \* wrong: no timer
GiveUp(r) == GiveUpWhen(r, TRUE)

-----------------------------------------------------------------------------
(* The scan goroutine.                                                     *)

Read(op) ==
  /\ scan = "read"
  /\ fromCli # <<>>
  /\ Head(fromCli).op = op
  /\ fromCli' = Tail(fromCli)
  /\ UNCHANGED <<toCli, running, unfinished, results>>

\* handleControlResponse: the entry leaves under the lock, the payload is sent
\* afterwards.
ScanResponse ==
  LET id == Head(fromCli).id IN
  /\ Read("response")
  /\ IF pending[id] # Nobody
       THEN /\ scan' = "deliver"
            /\ inHand' = <<pending[id], Head(fromCli).of>>
            /\ pending' = [pending EXCEPT ![id] = Nobody]
       ELSE UNCHANGED <<scan, inHand, pending>>
  /\ UNCHANGED <<pc, reqSeq, req, ch, got, cut, token, kill, sent, lost>>

Deliver ==
  /\ scan = "deliver"
  /\ ch[inHand[1]] = <<>>
  /\ ch' = [ch EXCEPT ![inHand[1]] = <<inHand[2]>>]
  /\ scan' = "read"
  /\ inHand' = <<>>
  /\ UNCHANGED <<pc, reqSeq, req, pending, got, cut, token, kill, sent, lost,
                 wire>>

\* handleControlRequest runs in a goroutine of its own.
ScanAskIn(next) ==
  /\ Read("ask")
  /\ Goto(Head(fromCli).of, "idle", "deciding")
  /\ scan' = next
  /\ UNCHANGED <<caller, inHand, cut, token, kill, sent, lost>>

ScanAskInline == ScanAskIn("asking")  \* wrong: the scan goroutine decides
ScanAsk == ScanAskIn("read")

\* onEvent, then a token for WaitForTurnDone unless one is there.
ScanResult ==
  /\ Read("result")
  /\ token' = TRUE
  /\ UNCHANGED <<pc, caller, scanner, kill, sent, lost>>

\* End of stdout, or a line the scanner cannot hold: onExit, then dead is
\* closed.
ScanEnds ==
  /\ scan = "read"
  /\ IF fromCli = <<>> THEN ~running ELSE Head(fromCli).op = "overlong"
  /\ scan' = "done"
  /\ cut' = (fromCli # <<>>)
  /\ UNCHANGED <<pc, caller, inHand, token, kill, sent, lost, wire>>

ScanStep == ScanResponse \/ Deliver \/ ScanAsk \/ ScanResult \/ ScanEnds

\* The permission handler decides, whenever the user does, and the answer is
\* written; a failed write is only logged.
AnswerAsk(a) ==
  /\ Goto(a, "deciding", "returned")
  /\ Write(Frame("answer", 0, a)) \/ WriteFails
  /\ UNCHANGED <<caller, scanner, token, kill, sent, lost>>

-----------------------------------------------------------------------------
(* SendUserMessage, then WaitForTurnDone, with a context that may be       *)
(* cancelled.                                                              *)

SendUserMessage ==
  /\ sent < MaxMessages
  /\ Goto(User, "idle", "sent")
  /\ Write(Frame("user", 0, User))
  /\ sent' = sent + 1
  /\ UNCHANGED <<caller, scanner, token, kill, lost>>

SendUserMessageFails ==
  /\ Goto(User, "idle", "returned")
  /\ WriteFails
  /\ UNCHANGED <<caller, scanner, token, kill, sent, lost>>

WaitForTurnDone ==
  /\ Goto(User, "sent", "wait")
  /\ UNCHANGED <<caller, scanner, token, kill, sent, lost, wire>>

TurnDone ==
  /\ token
  /\ Goto(User, "wait", "idle")
  /\ token' = FALSE
  /\ UNCHANGED <<caller, scanner, kill, sent, lost, wire>>

TurnCancelled ==
  /\ Goto(User, "wait", "idle")
  /\ UNCHANGED <<caller, scanner, token, kill, sent, lost, wire>>

TurnDies ==
  /\ Dead
  /\ Goto(User, "wait", "returned")
  /\ UNCHANGED <<caller, scanner, token, kill, sent, lost, wire>>

-----------------------------------------------------------------------------
(* Kill.  Its body runs once, in the first goroutine that calls it; all    *)
(* callers wait for its end.  Session.Close calls it unless IsDead.        *)

KillUnchanged == UNCHANGED <<caller, scanner, token, sent>>

\* The first caller runs beforeKill and closes stdin.
KillCall(k) ==
  /\ Goto(k, "idle", "killing")
  /\ kill' = IF kill = "no" THEN "closed" ELSE kill
  /\ KillUnchanged /\ UNCHANGED <<lost, wire>>

SessionClose(k) ==
  /\ Dead
  /\ Goto(k, "idle", "skipped")
  /\ KillUnchanged /\ UNCHANGED <<kill, lost, wire>>

\* Process.Kill: at once, or when the timer fires.
Terminate ==
  /\ kill = "closed"
  /\ Timeout => ~Dead
  /\ kill' = "drain"
  /\ CliEnds
  /\ KillUnchanged /\ UNCHANGED <<pc, lost>>

\* With a KillTimeout the death of the process is waited for first.
DeadInTime ==
  /\ Timeout
  /\ Dead
  /\ kill = "closed"
  /\ kill' = "drain"
  /\ KillUnchanged /\ UNCHANGED <<pc, lost, wire>>

\* cmd.Wait returns when the CLI has exited and closes the read end of its
\* stdout; then the directory of the shell prefix is removed.
Reap ==
  /\ kill = "drain"
  /\ Dead
  /\ ~running
  /\ kill' = "done"
  /\ fromCli' = <<>>
  /\ lost' = (lost \/ (fromCli # <<>> /\ ~cut))
  /\ KillUnchanged
  /\ UNCHANGED <<pc, toCli, running, unfinished, results>>

KillReturns(k) ==
  /\ kill = "done"
  /\ Goto(k, "killing", "returned")
  /\ KillUnchanged /\ UNCHANGED <<kill, lost, wire>>

KillStep == Terminate \/ DeadInTime \/ Reap

-----------------------------------------------------------------------------
(* The CLI.                                                                *)

CliUnchanged == UNCHANGED <<pc, caller, scanner, token, kill, sent, lost>>

EmitFrame(frame) ==
  /\ Len(fromCli) < PipeSize
  /\ fromCli' = Append(fromCli, frame)

\* A request is answered; an answer or a user message only changes the CLI.
CliReads ==
  LET f == Head(toCli) IN
  /\ running
  /\ toCli # <<>>
  /\ toCli' = Tail(toCli)
  /\ IF f.op = "request" THEN EmitFrame(Frame("response", f.id, f.of))
     ELSE UNCHANGED fromCli
  /\ unfinished' = IF f.op = "user" THEN unfinished + 1 ELSE unfinished
  /\ UNCHANGED <<running, results>>
  /\ CliUnchanged

CliAsks(a) ==
  /\ running
  /\ pc[a] = "idle"
  /\ ~\E i \in DOMAIN fromCli : fromCli[i].of = a
  /\ EmitFrame(Frame("ask", 0, a))
  /\ UNCHANGED <<toCli, running, unfinished, results>>
  /\ CliUnchanged

CliResult ==
  /\ running
  /\ unfinished > 0
  /\ unfinished' = unfinished - 1
  /\ results' = results + 1
  /\ EmitFrame(Frame("result", 0, Nobody))
  /\ UNCHANGED <<toCli, running>>
  /\ CliUnchanged

CliOverlong ==
  /\ Overlong
  /\ running
  /\ ~\E i \in DOMAIN fromCli : fromCli[i].op = "overlong"
  /\ ~Dead
  /\ EmitFrame(Frame("overlong", 0, Nobody))
  /\ UNCHANGED <<toCli, running, unfinished, results>>
  /\ CliUnchanged

CliExits ==
  /\ running
  /\ CliEnds
  /\ CliUnchanged

-----------------------------------------------------------------------------
RequestReturn(r) == WriteRequestFails(r) \/ TakeAnswer(r) \/ GiveUp(r)
UserStep == WaitForTurnDone \/ TurnDone \/ TurnDies

ProcessNext ==
  \/ \E r \in Requests : Register(r) \/ WriteRequest(r) \/ RequestReturn(r)
  \/ ScanStep
  \/ \E a \in Asks : AnswerAsk(a) \/ CliAsks(a)
  \/ SendUserMessage \/ SendUserMessageFails \/ UserStep \/ TurnCancelled
  \/ \E k \in Killers : KillCall(k) \/ SessionClose(k) \/ KillReturns(k)
  \/ KillStep
  \/ CliReads \/ CliResult \/ CliOverlong \/ CliExits

ProcessSpec == ProcessInit /\ [][ProcessNext]_processVars

\* Goroutines that can run do run, and timers fire.  Neither the CLI nor the
\* user who decides about permissions has to do anything.
ProcessFairness ==
  /\ \A r \in Requests : WF_processVars(RequestReturn(r))
  /\ WF_processVars(ScanStep)
  /\ WF_processVars(UserStep)
  /\ WF_processVars(KillStep)
  /\ \A k \in Killers : WF_processVars(KillReturns(k))

FairProcessSpec == ProcessSpec /\ ProcessFairness
-----------------------------------------------------------------------------
ProcessTypeOK ==
  /\ pc \in [Callers -> {"idle", "write", "await", "failed", "returned",
                        "deciding", "sent", "wait", "killing", "skipped"}]
  /\ reqSeq \in 0 .. Cardinality(Requests)
  /\ req \in [Requests -> {0} \cup Ids]
  /\ pending \in [Ids -> Requests \cup {Nobody}]
  /\ ch \in [Requests -> {<<>>} \cup {<<p>> : p \in Requests}]
  /\ got \in [Requests -> Requests \cup {Nobody, "error"}]
  /\ scan \in {"read", "deliver", "done"}
  /\ inHand = <<>> \/ inHand \in Requests \X Requests
  /\ token \in BOOLEAN
  /\ kill \in {"no", "closed", "drain", "done"}
  /\ toCli \in Seq(Frames) /\ Len(toCli) <= PipeSize
  /\ fromCli \in Seq(Frames) /\ Len(fromCli) <= PipeSize
  /\ running \in BOOLEAN
  /\ unfinished \in Nat /\ sent \in Nat /\ results \in Nat
  /\ cut \in BOOLEAN
  /\ lost \in BOOLEAN

\* sendControlRequest "sends a control request and returns the response": the
\* one to this request, whoever else is asking and gave up; and pending holds
\* the requests somebody still waits for, and those whose write failed, which
\* nothing removes: it does not grow with requests that were given up.
OwnAnswer ==
  /\ \A r \in Requests : got[r] \in {Nobody, "error", r}
  /\ \A i \in Ids : pending[i] # Nobody =>
       /\ req[pending[i]] = i
       /\ pc[pending[i]] \in {"write", "await", "failed"}

\* Kill "terminates the process and waits for exit", for every caller; and
\* "Wait closes the stdout pipe, so the scanner must finish first": nothing the
\* CLI wrote before it exited is dropped, but what follows an overlong line.
KilledIsGone ==
  /\ \A k \in Killers : pc[k] = "returned" => ~running /\ kill = "done" /\ Dead
  /\ ~lost

\* The scan goroutine reads on while permission requests are undecided.
ScanReadsOn == []<>((scan = "read" /\ fromCli = <<>>) \/ Dead)

\* What a caller got is true.
ProcessInvariant == ProcessTypeOK /\ OwnAnswer /\ KilledIsGone

\* Whoever calls returns.  A control request, even if the CLI is silent; a wait
\* that starts after SendUserMessage, if the turn ends, whenever its result
\* arrives; and Kill, unless it waits for the death of a CLI whose output was
\* cut short, which looks dead while it runs.
CallersReturn ==
  /\ \A r \in Requests : pc[r] = "await" ~> pc[r] = "returned"
  /\ (pc[User] = "wait" /\ results = sent) ~> pc[User] # "wait"
  /\ \A k \in Killers : pc[k] = "killing" ~> (pc[k] = "returned" \/ (Timeout /\ cut))

\* "KillTimeout bounds how long Kill waits for the process to exit".
KillIsBounded == \A k \in Killers : pc[k] = "killing" ~> pc[k] = "returned"
=============================================================================
