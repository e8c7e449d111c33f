-------------------------- MODULE PermissionsProofs --------------------------
(***************************************************************************)
(* The properties of Permissions hold for any number of requests, answers, *)
(* mode posts, modes and CLIs.                                             *)
(***************************************************************************)
EXTENDS Permissions, TLAPS

\* A request keeps its channel until its goroutine has the answer; only then
\* can its CLI get a verdict.
Registered ==
  \A r \in Requests :
    /\ req[r].at \in {"registered", "waiting", "answered"} => r \in permChans
    /\ req[r].of <= cli.n
    /\ verdict[r] # None => req[r].at = "over"

\* WaiterHasPrompt, while the CLI may already be down.
Prompted ==
  \A r \in Requests :
    req[r].at = "waiting" /\ req[r].of = cli.n /\ ~ Answered(r) => r \in pending \cap log

\* A responder gives one answer.  The one a goroutine took, the one that fills
\* its channel and the one the pages show come from responders to its request,
\* and the first two are not the same.
Gave(u, r) ==
  u \in Responders /\ responder[u].req = r /\ responder[u].at \in {"show", "remove", "returned"}
Answering == {"answered", "replying", "over"}
Answers ==
  /\ \A u \in Responders : responder[u].at # "idle" =>
       responder[u].req \in Requests /\ req[responder[u].req].at \in Answering \cup {"waiting"}
  /\ \A r \in Requests :
       /\ ch[r] # <<>> => Gave(Head(ch[r]), r) /\ resp[r] # Head(ch[r])
       /\ IF req[r].at \in Answering THEN Gave(resp[r], r) ELSE resp[r] = None
       /\ shown[r] # None => Gave(shown[r], r)
       /\ req[r].at = "over" /\ cli.up /\ req[r].of = cli.n => verdict[r] = resp[r]

\* Without an overlap one mode post is under way at most: the session has its
\* mode, and the pages have the session's when there is none.
Active(p) == post[p].at \in {"send", "show"}
OneMode ==
  /\ "overlap" \notin excuse =>
       /\ \A p \in Posts : Active(p) => post[p].mode = mode
       /\ \A p, q \in Posts : Active(p) /\ Active(q) => p = q
       /\ (\A p \in Posts : ~ Active(p)) => pageMode = mode
  /\ excuse = {} /\ cli.up /\ (\A p \in Posts : post[p].at # "send") => cli.mode = mode

Inv == TypeOK /\ Registered /\ Prompted /\ Answers /\ OneMode

ReqActs == \E r \in Requests : CliAsks(r) \/ Request(r)
RespActs == \E u \in Responders : Respond(u) \/ \E r \in Requests : FindChan(u, r)
CliActs == CliExits \/ EnsureProcess \/ Reload \/ \E r \in Requests : CliReports(r)
PostActs == \E p \in Posts : Post(p) \/ \E x \in Modes : SetPermModeAndGetProc(p, x)

\* Next by the kind of goroutine that takes the step.
LEMMA NextIsOneOf ==
  ASSUME [Next]_vars
  PROVE  ReqActs \/ RespActs \/ CliActs \/ PostActs \/ UNCHANGED vars
BY DEF Next, ReqActs, RespActs, CliActs, PostActs

-----------------------------------------------------------------------------
(* Types.                                                                  *)

ReqType == [Requests -> [at : {"new", "asked", "registered", "waiting", "answered",
                               "replying", "over"}, of : 0 .. MaxClis]]

\* The invariant holds in the initial state.
LEMMA InitInv == Init => Inv
<1> SUFFICES ASSUME Init PROVE Inv
  OBVIOUS
<1>1. TypeOK
  BY PermissionsAssumption DEF Init, TypeOK
<1>2. Registered /\ Prompted /\ OneMode
  BY PermissionsAssumption DEF Init, Registered, Prompted, OneMode, Active
<1>3. Answers
  BY DEF Init, Answers, Answering
<1> QED
  BY <1>1, <1>2, <1>3 DEF Inv

\* Every step keeps the types.
LEMMA TypeInductive ==
  ASSUME TypeOK, Answers, [Next]_vars
  PROVE  TypeOK'
<1> USE PermissionsAssumption DEF TypeOK
<1>1. ASSUME NEW r \in Requests, CliAsks(r) \/ Request(r)
      PROVE  TypeOK'
  <2>1. req' \in ReqType
    BY <1>1 DEF ReqType, CliAsks, Request, RegisterPermChan, BroadcastRequest, ReceiveAnswer,
                DeletePermChan, SendPermResponse, SendPermResponseIf, Step
  <2>2. permChans' \subseteq Requests /\ log' \subseteq Requests /\ pending' \subseteq Requests
    BY <1>1 DEF CliAsks, Request, RegisterPermChan, BroadcastRequest, ReceiveAnswer,
                DeletePermChan, SendPermResponse, SendPermResponseIf
  <2>3. /\ ch' \in [Requests -> {<<>>} \cup {<<u>> : u \in Responders}]
        /\ resp' \in [Requests -> Responders \cup {None}]
    <3>1. CASE ReceiveAnswer(r)
      <4>1. PICK u \in Responders : ch[r] = <<u>>
        BY <3>1 DEF ReceiveAnswer
      <4>2. Head(ch[r]) = u /\ Tail(ch[r]) = <<>>
        BY <4>1
      <4> QED
        BY <3>1, <4>2 DEF ReceiveAnswer
    <3>2. CASE ~ ReceiveAnswer(r)
      BY <1>1, <3>2 DEF CliAsks, Request, RegisterPermChan, BroadcastRequest,
                        DeletePermChan, SendPermResponse, SendPermResponseIf
    <3> QED
      BY <3>1, <3>2
  <2>4. verdict' \in [Requests -> Responders \cup {None}]
    BY <1>1 DEF CliAsks, Request, RegisterPermChan, BroadcastRequest, ReceiveAnswer,
                DeletePermChan, SendPermResponse, SendPermResponseIf
  <2>5. UNCHANGED <<cli, shown, responder, modes>>
    BY <1>1 DEF CliAsks, Request, RegisterPermChan, BroadcastRequest, ReceiveAnswer,
                DeletePermChan, SendPermResponse, SendPermResponseIf
  <2> QED
    BY <2>1, <2>2, <2>3, <2>4, <2>5 DEF ReqType, modes
<1>2. ASSUME NEW u \in Responders, Respond(u) \/ \E r \in Requests : FindChan(u, r)
      PROVE  TypeOK'
  <2>1. responder' \in [Responders -> [at : {"idle", "send", "show", "remove", "returned"},
                                       req : Requests \cup {None}]]
    <3>1. \E at \in {"send", "show", "remove", "returned"} :
            \/ responder' = [responder EXCEPT ![u].at = at]
            \/ \E r \in Requests : responder' = [responder EXCEPT ![u] = [at |-> at, req |-> r]]
      BY <1>2 DEF Respond, NoQuestion, SendAnswer, ShowAnswer, RemovePermission,
                  RemovePermissionAnd, FindChan
    <3>2. PICK at \in {"send", "show", "remove", "returned"} :
            \/ responder' = [responder EXCEPT ![u].at = at]
            \/ \E r \in Requests : responder' = [responder EXCEPT ![u] = [at |-> at, req |-> r]]
      BY <3>1
    <3>3. [responder[u] EXCEPT !.at = at] = [at |-> at, req |-> responder[u].req]
      OBVIOUS
    <3>4. \E r \in Requests \cup {None} : responder' = [responder EXCEPT ![u] = [at |-> at, req |-> r]]
      BY <3>2, <3>3
    <3> QED
      BY <3>4
  <2>2. ch' \in [Requests -> {<<>>} \cup {<<v>> : v \in Responders}]
    <3>1. CASE SendAnswer(u)
      <4>1. ch[responder[u].req] = <<>> /\ responder[u].req \in Requests
        BY <3>1 DEF SendAnswer, Answers
      <4>2. Append(<<>>, u) = <<u>>
        OBVIOUS
      <4> QED
        BY <3>1, <4>1, <4>2 DEF SendAnswer
    <3>2. CASE ~ SendAnswer(u)
      BY <1>2, <3>2 DEF Respond, NoQuestion, ShowAnswer, RemovePermission,
                        RemovePermissionAnd, FindChan, requests
    <3> QED
      BY <3>1, <3>2
  <2>3. shown' \in [Requests -> Responders \cup {None}]
    BY <1>2 DEF Respond, NoQuestion, SendAnswer, ShowAnswer, RemovePermission,
                RemovePermissionAnd, FindChan, requests
  <2>4. log' \subseteq Requests /\ pending' \subseteq Requests
    BY <1>2 DEF Respond, NoQuestion, SendAnswer, ShowAnswer, RemovePermission,
                RemovePermissionAnd, FindChan, requests
  <2>5. UNCHANGED <<cli, req, permChans, resp, verdict, modes>>
    BY <1>2 DEF Respond, NoQuestion, SendAnswer, ShowAnswer, RemovePermission,
                RemovePermissionAnd, FindChan, requests
  <2> QED
    BY <2>1, <2>2, <2>3, <2>4, <2>5 DEF modes
<1>3. CASE CliActs
  <2>1. CASE CliExits
    BY <2>1 DEF CliExits, requests, modes
  <2>2. CASE EnsureProcess
    BY <2>2 DEF EnsureProcess, EnsureProcessAs
  <2>3. CASE Reload
    BY <2>3 DEF Reload
  <2>4. ASSUME NEW r \in Requests, CliReports(r)
        PROVE  TypeOK'
    <3>1. pending' \subseteq Requests
      BY <2>4 DEF CliReports
    <3> QED
      BY <2>4, <3>1 DEF CliReports, modes
  <2> QED
    BY <1>3, <2>1, <2>2, <2>3, <2>4 DEF CliActs
<1>4. ASSUME NEW p \in Posts, Post(p) \/ \E x \in Modes : SetPermModeAndGetProc(p, x)
      PROVE  TypeOK'
  <2> DEFINE PostType == [at : {"idle", "send", "show", "done"}, mode : Modes, of : 0 .. MaxClis]
  <2>1. /\ post' \in [Posts -> PostType]
        /\ mode' \in Modes /\ pageMode' \in Modes /\ excuse' \subseteq {"cli", "overlap"}
    <3>1. CASE SetPermissionMode(p)
      <4>1. post' = [post EXCEPT ![p] = [at |-> "show", mode |-> post[p].mode, of |-> 0]]
        BY <3>1 DEF SetPermissionMode
      <4>2. [at |-> "show", mode |-> post[p].mode, of |-> 0] \in PostType
        OBVIOUS
      <4> QED
        BY <3>1, <4>1, <4>2 DEF SetPermissionMode
    <3>2. CASE BroadcastMode(p)
      <4>1. [at |-> "done", mode |-> Default, of |-> 0] \in PostType
        OBVIOUS
      <4> QED
        BY <3>2, <4>1 DEF BroadcastMode, BroadcastModeAs
    <3>3. ASSUME NEW x \in Modes, SetPermModeAndGetProc(p, x)
          PROVE  /\ post' \in [Posts -> PostType]
                 /\ mode' \in Modes /\ pageMode' \in Modes /\ excuse' \subseteq {"cli", "overlap"}
      <4> DEFINE new == [at |-> IF cli.up THEN "send" ELSE "show", mode |-> x,
                         of |-> IF cli.up THEN cli.n ELSE 0]
      <4>1. new \in PostType /\ cli.n \in 0 .. MaxClis
        OBVIOUS
      <4>2. post' = [post EXCEPT ![p] = new]
        BY <3>3 DEF SetPermModeAndGetProc
      <4>3. post' \in [Posts -> PostType]
        BY <4>1, <4>2
      <4> QED
        BY <3>3, <4>3 DEF SetPermModeAndGetProc
    <3> QED
      BY <1>4, <3>1, <3>2, <3>3 DEF Post
  <2>2. cli' \in [n : 1 .. MaxClis, up : BOOLEAN, mode : Modes]
    BY <1>4 DEF Post, SetPermissionMode, BroadcastMode, BroadcastModeAs, SetPermModeAndGetProc
  <2>3. UNCHANGED <<requests, responder>>
    BY <1>4 DEF Post, SetPermissionMode, BroadcastMode, BroadcastModeAs, SetPermModeAndGetProc
  <2> QED
    BY <2>1, <2>2, <2>3 DEF requests
<1>5. CASE UNCHANGED vars
  BY <1>5 DEF vars, requests, modes
<1> QED
  BY <1>1, <1>2, <1>3, <1>4, <1>5, NextIsOneOf DEF ReqActs, RespActs, PostActs

-----------------------------------------------------------------------------
(* Requests and their prompts.                                             *)

\* Where a step leaves the requests and the responders.
LEMMA RequestsMove ==
  ASSUME TypeOK, [Next]_vars, ~ ReqActs
  PROVE  UNCHANGED <<req, permChans, resp, verdict>>
<1>1. CASE RespActs
  BY <1>1 DEF RespActs, Respond, NoQuestion, SendAnswer, ShowAnswer, RemovePermission,
              RemovePermissionAnd, FindChan, requests
<1>2. CASE CliActs
  BY <1>2 DEF CliActs, CliExits, EnsureProcess, EnsureProcessAs, Reload, CliReports, requests
<1>3. CASE PostActs
  BY <1>3 DEF PostActs, Post, SetPermissionMode, BroadcastMode, BroadcastModeAs,
              SetPermModeAndGetProc, requests
<1>4. CASE UNCHANGED vars
  BY <1>4 DEF vars, requests
<1> QED
  BY <1>1, <1>2, <1>3, <1>4, NextIsOneOf

\* Only a responder changes where responders are and what the pages show.
LEMMA RespondersMove ==
  ASSUME TypeOK, [Next]_vars, ~ RespActs
  PROVE  UNCHANGED <<responder, shown>>
<1>1. CASE ReqActs
  BY <1>1 DEF ReqActs, CliAsks, Request, RegisterPermChan, BroadcastRequest, ReceiveAnswer,
              DeletePermChan, SendPermResponse, SendPermResponseIf
<1>2. CASE CliActs
  BY <1>2 DEF CliActs, CliExits, EnsureProcess, EnsureProcessAs, Reload, CliReports, requests
<1>3. CASE PostActs
  BY <1>3 DEF PostActs, Post, SetPermissionMode, BroadcastMode, BroadcastModeAs,
              SetPermModeAndGetProc, requests
<1>4. CASE UNCHANGED vars
  BY <1>4 DEF vars, requests
<1> QED
  BY <1>1, <1>2, <1>3, <1>4, NextIsOneOf

\* The CLI is the same, or a later one with a number of its own.
LEMMA CliMoves ==
  ASSUME TypeOK, [Next]_vars
  PROVE  \/ cli'.n = cli.n /\ (cli'.up => cli.up)
         \/ EnsureProcess /\ cli'.n = cli.n + 1
<1>1. CASE ReqActs
  BY <1>1 DEF ReqActs, CliAsks, Request, RegisterPermChan, BroadcastRequest, ReceiveAnswer,
              DeletePermChan, SendPermResponse, SendPermResponseIf
<1>2. CASE RespActs
  BY <1>2 DEF RespActs, Respond, NoQuestion, SendAnswer, ShowAnswer, RemovePermission,
              RemovePermissionAnd, FindChan
<1>3. CASE CliActs
  BY <1>3 DEF CliActs, CliExits, EnsureProcess, EnsureProcessAs, Reload, CliReports, TypeOK
<1>4. CASE PostActs
  BY <1>4 DEF PostActs, Post, SetPermissionMode, BroadcastMode, BroadcastModeAs,
              SetPermModeAndGetProc, TypeOK
<1>5. CASE UNCHANGED vars
  BY <1>5 DEF vars
<1> QED
  BY <1>1, <1>2, <1>3, <1>4, <1>5, NextIsOneOf

\* A step of a request takes that request one line further, and no other.
LEMMA RequestTakesStep ==
  ASSUME TypeOK, NEW q \in Requests, Request(q), NEW r \in Requests
  PROVE  /\ req'[r].of = req[r].of
         /\ r # q => req'[r] = req[r]
         /\ RegisterPermChan(q) => req'[q].at = "registered"
         /\ BroadcastRequest(q) => req'[q].at = "waiting"
         /\ ReceiveAnswer(q) => req'[q].at = "answered"
         /\ DeletePermChan(q) => req'[q].at = "replying"
         /\ SendPermResponse(q) => req'[q].at = "over"
<1>1. ASSUME NEW from, NEW to, Step(q, from, to)
      PROVE  req'[r].of = req[r].of /\ (r # q => req'[r] = req[r]) /\ req'[q].at = to
  BY <1>1 DEF Step, TypeOK
<1> QED
  BY <1>1 DEF Request, RegisterPermChan, BroadcastRequest, ReceiveAnswer, DeletePermChan,
              SendPermResponse, SendPermResponseIf

\* The channel is in the map exactly while its request waits.
LEMMA RegisteredInductive ==
  ASSUME TypeOK, TypeOK', Registered, [Next]_vars
  PROVE  Registered'
<1> USE DEF TypeOK
<1>1. ASSUME NEW r \in Requests
      PROVE  req'[r].of <= cli'.n
  <2>1. req'[r].of = req[r].of \/ req'[r].of = cli.n
    <3>1. ASSUME NEW q \in Requests, CliAsks(q)
          PROVE  req'[r].of = req[r].of \/ req'[r].of = cli.n
      BY <3>1 DEF CliAsks
    <3>2. ASSUME NEW q \in Requests, Request(q)
          PROVE  req'[r].of = req[r].of
      BY <3>2, RequestTakesStep
    <3> QED
      BY <3>1, <3>2, RequestsMove DEF ReqActs
  <2> QED
    BY <2>1, CliMoves DEF Registered
<1>2. ASSUME NEW q \in Requests, CliAsks(q) \/ Request(q), NEW r \in Requests
      PROVE  /\ req'[r].at \in {"registered", "waiting", "answered"} => r \in permChans'
             /\ verdict'[r] # None => req'[r].at = "over"
  <2>1. CASE CliAsks(q)
    BY <2>1 DEF CliAsks, Registered
  <2>2. CASE RegisterPermChan(q)
    <3>1. UNCHANGED verdict /\ verdict[q] = None
      BY <2>2 DEF RegisterPermChan, Step, Registered
    <3>2. CASE r = q
      BY <2>2, <3>1, <3>2, RequestTakesStep DEF Request, RegisterPermChan, Step, Registered
    <3>3. CASE r # q
      BY <2>2, <3>1, <3>3, RequestTakesStep DEF Request, RegisterPermChan, Registered
    <3> QED
      BY <3>2, <3>3
  <2>3. CASE BroadcastRequest(q)
    <3>1. UNCHANGED verdict /\ verdict[q] = None
      BY <2>3 DEF BroadcastRequest, Step, Registered
    <3>2. CASE r = q
      BY <2>3, <3>1, <3>2, RequestTakesStep DEF Request, BroadcastRequest, Step, Registered
    <3>3. CASE r # q
      BY <2>3, <3>1, <3>3, RequestTakesStep DEF Request, BroadcastRequest, Registered
    <3> QED
      BY <3>2, <3>3
  <2>4. CASE ReceiveAnswer(q)
    <3>1. UNCHANGED verdict /\ verdict[q] = None
      BY <2>4 DEF ReceiveAnswer, Step, Registered
    <3>2. CASE r = q
      BY <2>4, <3>1, <3>2, RequestTakesStep DEF Request, ReceiveAnswer, Step, Registered
    <3>3. CASE r # q
      <4>1. req'[r] = req[r]
        BY <2>4, <3>3, RequestTakesStep DEF Request
      <4>2. UNCHANGED permChans
        BY <2>4 DEF ReceiveAnswer
      <4> QED
        BY <3>1, <4>1, <4>2 DEF Registered
    <3> QED
      BY <3>2, <3>3
  <2>5. CASE DeletePermChan(q)
    <3>1. UNCHANGED verdict /\ verdict[q] = None
      BY <2>5 DEF DeletePermChan, Step, Registered
    <3>2. CASE r = q
      BY <2>5, <3>1, <3>2, RequestTakesStep DEF Request, DeletePermChan, Step, Registered
    <3>3. CASE r # q
      BY <2>5, <3>1, <3>3, RequestTakesStep DEF Request, DeletePermChan, Registered
    <3> QED
      BY <3>2, <3>3
  <2>6. CASE SendPermResponse(q)
    BY <2>6, RequestTakesStep DEF Request, SendPermResponse, SendPermResponseIf, Step, Registered
  <2> QED
    BY <1>2, <2>1, <2>2, <2>3, <2>4, <2>5, <2>6 DEF Request
<1> QED
  BY <1>1, <1>2, RequestsMove DEF Registered, ReqActs

\* An answer that was given stays given.
LEMMA GaveStays ==
  ASSUME TypeOK, [Next]_vars, NEW u, NEW r, Gave(u, r)
  PROVE  Gave(u, r)'
<1>1. ASSUME NEW w \in Responders, Respond(w) \/ \E q \in Requests : FindChan(w, q)
      PROVE  Gave(u, r)'
  <2>1. w # u => responder'[u] = responder[u]
    BY <1>1 DEF Respond, NoQuestion, SendAnswer, ShowAnswer, RemovePermission,
                RemovePermissionAnd, FindChan, Gave, TypeOK
  <2>2. w = u => ShowAnswer(u) \/ RemovePermission(u)
    BY <1>1 DEF Respond, NoQuestion, SendAnswer, FindChan, Gave
  <2>3. w = u => responder'[u].req = responder[u].req /\ responder'[u].at \in {"remove", "returned"}
    BY <2>2 DEF ShowAnswer, RemovePermission, RemovePermissionAnd, Gave, TypeOK
  <2> QED
    BY <2>1, <2>3 DEF Gave
<1>2. CASE ~ RespActs
  BY <1>2, RespondersMove DEF Gave
<1> QED
  BY <1>1, <1>2 DEF RespActs

\* A waiting request has its prompt in the log and on the pages.
LEMMA PromptedInductive ==
  ASSUME TypeOK, Registered, Prompted, Answers, [Next]_vars
  PROVE  Prompted'
<1> USE DEF TypeOK
<1>1. \A r \in Requests : Answered(r) => Answered(r)'
  BY GaveStays DEF Answered, Gave
<1>2. ASSUME NEW r \in Requests, req'[r].at = "waiting", req'[r].of = cli'.n, ~ Answered(r)'
      PROVE  r \in pending' \cap log'
  <2>1. ~ Answered(r)
    BY <1>1, <1>2
  <2>2. CASE BroadcastRequest(r)
    BY <2>2 DEF BroadcastRequest
  <2>3. CASE ~ BroadcastRequest(r)
    <3>1. req'[r] = req[r]
      BY <1>2, <2>3, RequestsMove DEF ReqActs, CliAsks, Request, RegisterPermChan,
         BroadcastRequest, ReceiveAnswer, DeletePermChan, SendPermResponse,
         SendPermResponseIf, Step
    <3>2. cli'.n = cli.n /\ ~ EnsureProcess
      BY <1>2, <3>1, CliMoves DEF Registered, EnsureProcess, EnsureProcessAs
    <3>3. r \in pending \cap log
      BY <1>2, <2>1, <3>1, <3>2 DEF Prompted
    <3>4. verdict[r] = None
      BY <1>2, <3>1 DEF Registered
    <3>5. CASE ReqActs
      BY <3>3, <3>5 DEF ReqActs, CliAsks, Request, RegisterPermChan, BroadcastRequest,
         ReceiveAnswer, DeletePermChan, SendPermResponse, SendPermResponseIf
    <3>6. CASE RespActs
      <4>1. PICK u \in Responders : Respond(u) \/ \E q \in Requests : FindChan(u, q)
        BY <3>6 DEF RespActs
      <4>2. RemovePermission(u) => responder[u].req # r
        BY <2>1 DEF RemovePermission, RemovePermissionAnd, Answered
      <4> QED
        BY <3>3, <4>1, <4>2 DEF Respond, NoQuestion, SendAnswer, ShowAnswer,
           RemovePermission, RemovePermissionAnd, FindChan, requests
    <3>7. CASE CliActs
      BY <3>2, <3>3, <3>4, <3>7 DEF CliActs, CliExits, Reload, CliReports, requests
    <3>8. CASE PostActs
      BY <3>3, <3>8 DEF PostActs, Post, SetPermissionMode, BroadcastMode, BroadcastModeAs,
                        SetPermModeAndGetProc, requests
    <3>9. CASE UNCHANGED vars
      BY <3>3, <3>9 DEF vars, requests
    <3> QED
      BY <3>5, <3>6, <3>7, <3>8, <3>9, NextIsOneOf
  <2> QED
    BY <2>2, <2>3
<1> QED
  BY <1>2 DEF Prompted, Answered

-----------------------------------------------------------------------------
(* Answers.                                                                *)

\* What is in a channel, was read from it and is shown is an answer of a tab.
LEMMA AnswersInductive ==
  ASSUME TypeOK, TypeOK', Registered, Answers, [Next]_vars
  PROVE  Answers'
<1> USE DEF TypeOK
<1> DEFINE GaveNext(u, r) ==
      u \in Responders /\ responder'[u].req = r /\ responder'[u].at \in {"show", "remove", "returned"}
<1>0. \A u, r : Gave(u, r) => GaveNext(u, r)
  BY GaveStays DEF Gave
<1> HIDE DEF GaveNext
\* The phases of a request only go on.
<1>1. \A r \in Requests :
        /\ req[r].at \in Answering \cup {"waiting"} => req'[r].at \in Answering \cup {"waiting"}
        /\ req[r].at \in Answering => req'[r].at \in Answering
  <2>1. ASSUME NEW q \in Requests, CliAsks(q), NEW r \in Requests
        PROVE  req'[r] = req[r] \/ req[r].at = "new"
    BY <2>1 DEF CliAsks
  <2>2. ASSUME NEW q \in Requests, Request(q), NEW r \in Requests
        PROVE  \/ req'[r].at = req[r].at \/ req[r].at \in {"asked", "registered"}
               \/ req[r].at # "new" /\ req'[r].at \in Answering
    <3>1. CASE r # q
      BY <2>2, <3>1, RequestTakesStep
    <3>2. CASE r = q /\ (RegisterPermChan(q) \/ BroadcastRequest(q))
      BY <3>2 DEF RegisterPermChan, BroadcastRequest, Step
    <3>3. CASE r = q /\ (ReceiveAnswer(q) \/ DeletePermChan(q) \/ SendPermResponse(q))
      <4>1. req[q].at \in {"waiting", "answered", "replying"}
        BY <3>3 DEF ReceiveAnswer, DeletePermChan, SendPermResponse, SendPermResponseIf, Step
      <4> QED
        BY <2>2, <3>3, <4>1, RequestTakesStep DEF Answering
    <3> QED
      BY <2>2, <3>1, <3>2, <3>3 DEF Request
  <2> QED
    BY <2>1, <2>2, RequestsMove DEF ReqActs, Answering
<1>2. ASSUME NEW u \in Responders, responder'[u].at # "idle"
      PROVE  /\ responder'[u].req \in Requests
             /\ req'[responder'[u].req].at \in Answering \cup {"waiting"}
  <2>1. CASE responder'[u].req = responder[u].req /\ responder[u].at # "idle"
    BY <1>1, <2>1 DEF Answers
  <2>2. CASE \E r \in Requests : FindChan(u, r)
    <3>1. PICK r \in Requests : FindChan(u, r)
      BY <2>2
    <3>2. responder'[u].req = r /\ req' = req /\ req[r].at \in Answering \cup {"waiting"}
      BY <3>1 DEF FindChan, requests, Answering
    <3> QED
      BY <3>2
  <2>3. ASSUME NEW w \in Responders, Respond(w) \/ \E q \in Requests : FindChan(w, q)
        PROVE  \/ responder'[u].req = responder[u].req /\ responder[u].at # "idle"
               \/ w = u /\ \E q \in Requests : FindChan(u, q)
    <3>1. CASE w # u
      <4>1. responder'[u] = responder[u]
        BY <2>3, <3>1 DEF Respond, NoQuestion, SendAnswer, ShowAnswer, RemovePermission,
                          RemovePermissionAnd, FindChan
      <4> QED
        BY <1>2, <4>1
    <3>2. CASE w = u /\ Respond(u)
      BY <3>2 DEF Respond, NoQuestion, SendAnswer, ShowAnswer, RemovePermission,
                  RemovePermissionAnd
    <3> QED
      BY <2>3, <3>1, <3>2
  <2> QED
    BY <1>2, <2>1, <2>2, <2>3, RespondersMove DEF RespActs
<1>3. ASSUME NEW r \in Requests
      PROVE  /\ ch'[r] # <<>> => GaveNext(Head(ch'[r]), r) /\ resp'[r] # Head(ch'[r])
             /\ IF req'[r].at \in Answering THEN GaveNext(resp'[r], r) ELSE resp'[r] = None
             /\ shown'[r] # None => GaveNext(shown'[r], r)
  <2>1. CASE \E u \in Responders : SendAnswer(u)
    <3>1. PICK u \in Responders : SendAnswer(u)
      BY <2>1
    <3>2. UNCHANGED <<req, resp, shown>>
      BY <3>1 DEF SendAnswer
    <3>3. CASE responder[u].req # r
      <4>1. ch'[r] = ch[r]
        BY <3>1, <3>3 DEF SendAnswer
      <4> QED
        BY <3>2, <4>1, <1>0 DEF Answers
    <3>4. CASE responder[u].req = r
      <4>1. ch[r] = <<>> /\ ch' = [ch EXCEPT ![r] = Append(@, u)]
        BY <3>1, <3>4 DEF SendAnswer
      <4>2. ch'[r] = <<u>> /\ Head(ch'[r]) = u
        BY <4>1
      <4>3. GaveNext(u, r)
        BY <3>1, <3>4 DEF SendAnswer, GaveNext
      <4>4. resp[r] # u
        <5>1. responder[u].at = "send" /\ u # None
          BY <3>1, PermissionsAssumption DEF SendAnswer
        <5>2. ~ Gave(u, r)
          BY <5>1 DEF Gave
        <5> QED
          BY <5>1, <5>2 DEF Answers
      <4> QED
        BY <3>2, <4>2, <4>3, <4>4, <1>0 DEF Answers
    <3> QED
      BY <3>3, <3>4
  <2>2. CASE \E u \in Responders : ShowAnswer(u)
    <3>1. PICK u \in Responders : ShowAnswer(u)
      BY <2>2
    <3>2. UNCHANGED <<req, resp, ch>>
      BY <3>1 DEF ShowAnswer
    <3>3. shown'[r] = shown[r] \/ (responder[u].req = r /\ shown'[r] = u)
      BY <3>1 DEF ShowAnswer
    <3>4. responder[u].req = r => Gave(u, r)
      BY <3>1 DEF ShowAnswer, Gave
    <3> QED
      BY <3>2, <3>3, <3>4, <1>0 DEF Answers
  <2>3. CASE ReceiveAnswer(r)
    <3>1. req'[r].at = "answered" /\ req[r].at = "waiting"
      BY <2>3, RequestTakesStep DEF Request, ReceiveAnswer, Step
    <3>2. PICK u \in Responders : ch[r] = <<u>>
      BY <2>3 DEF ReceiveAnswer
    <3>3. resp'[r] = u /\ ch'[r] = <<>> /\ shown' = shown
      BY <2>3, <3>2 DEF ReceiveAnswer
    <3>4. GaveNext(u, r)
      <4>1. ch[r] # <<>> /\ Head(ch[r]) = u
        BY <3>2
      <4> QED
        BY <1>0, <4>1 DEF Answers
    <3> QED
      BY <3>1, <3>3, <3>4, <1>0 DEF Answers, Answering
  <2>4. CASE ~ ReceiveAnswer(r) /\ \A u \in Responders : ~ SendAnswer(u) /\ ~ ShowAnswer(u)
    <3>1. ch'[r] = ch[r] /\ resp'[r] = resp[r] /\ shown'[r] = shown[r]
      <4>1. CASE ReqActs
        BY <2>4, <4>1 DEF ReqActs, CliAsks, Request, RegisterPermChan, BroadcastRequest,
           ReceiveAnswer, DeletePermChan, SendPermResponse, SendPermResponseIf
      <4>2. CASE RespActs
        BY <2>4, <4>2 DEF RespActs, Respond, NoQuestion, RemovePermission,
           RemovePermissionAnd, FindChan, requests
      <4>3. CASE CliActs
        BY <4>3 DEF CliActs, CliExits, EnsureProcess, EnsureProcessAs, Reload, CliReports, requests
      <4>4. CASE PostActs
        BY <4>4 DEF PostActs, Post, SetPermissionMode, BroadcastMode, BroadcastModeAs,
           SetPermModeAndGetProc, requests
      <4>5. CASE UNCHANGED vars
        BY <4>5 DEF vars, requests
      <4> QED
        BY <4>1, <4>2, <4>3, <4>4, <4>5, NextIsOneOf
    <3>2. req'[r].at \in Answering <=> req[r].at \in Answering
      <4>1. ASSUME NEW q \in Requests, CliAsks(q) \/ Request(q)
            PROVE  req'[r].at \in Answering => req[r].at \in Answering
        <5>1. CASE CliAsks(q)
          BY <5>1 DEF CliAsks, Answering
        <5>2. CASE r # q /\ Request(q)
          BY <5>2, RequestTakesStep
        <5>3. CASE r = q /\ (RegisterPermChan(q) \/ BroadcastRequest(q))
          <6>1. req'[q].at \in {"registered", "waiting"}
            BY <5>3, RequestTakesStep DEF Request
          <6> QED
            BY <5>3, <6>1 DEF Answering
        <5>4. CASE r = q /\ (DeletePermChan(q) \/ SendPermResponse(q))
          BY <5>4 DEF DeletePermChan, SendPermResponse, SendPermResponseIf, Step, Answering
        <5> QED
          BY <2>4, <4>1, <5>1, <5>2, <5>3, <5>4 DEF Request
      <4> QED
        BY <1>1, <4>1, RequestsMove DEF ReqActs
    <3> QED
      BY <3>1, <3>2, <1>0 DEF Answers
  <2> QED
    BY <2>1, <2>2, <2>3, <2>4
<1>4. ASSUME NEW r \in Requests, req'[r].at = "over", cli'.up, req'[r].of = cli'.n
      PROVE  verdict'[r] = resp'[r]
  <2>1. CASE SendPermResponse(r)
    <3>1. cli' = cli /\ req'[r].of = req[r].of /\ resp' = resp
      BY <2>1, RequestTakesStep DEF SendPermResponse, SendPermResponseIf, Request
    <3> QED
      BY <1>4, <2>1, <3>1 DEF SendPermResponse, SendPermResponseIf
  <2>2. CASE ~ SendPermResponse(r)
    <3>1. ASSUME NEW q \in Requests, CliAsks(q) \/ Request(q)
          PROVE  req'[r] = req[r] /\ verdict'[r] = verdict[r] /\ resp'[r] = resp[r]
      <4>1. CASE CliAsks(q)
        BY <1>4, <4>1 DEF CliAsks
      <4>2. CASE Request(q)
        <5>1. r # q
          BY <1>4, <2>2, <4>2, RequestTakesStep DEF Request
        <5>2. verdict'[r] = verdict[r] /\ resp'[r] = resp[r]
          BY <4>2, <5>1 DEF Request, RegisterPermChan, BroadcastRequest, ReceiveAnswer,
             DeletePermChan, SendPermResponse, SendPermResponseIf
        <5> QED
          BY <4>2, <5>1, <5>2, RequestTakesStep
      <4> QED
        BY <3>1, <4>1, <4>2
    <3>2. req'[r] = req[r] /\ verdict'[r] = verdict[r] /\ resp'[r] = resp[r]
      BY <3>1, RequestsMove DEF ReqActs
    <3>3. cli'.n = cli.n /\ cli.up
      BY <1>4, <3>2, CliMoves DEF Registered
    <3> QED
      BY <1>4, <3>2, <3>3 DEF Answers
  <2> QED
    BY <2>1, <2>2
<1> QED
  BY <1>2, <1>3, <1>4 DEF Answers, Gave, GaveNext, Answering

-----------------------------------------------------------------------------
(* Modes.                                                                  *)

\* Without an overlap there is one mode, and one post on its way at most.
LEMMA OneModeInductive ==
  ASSUME TypeOK, OneMode, [Next]_vars
  PROVE  OneMode'
<1> USE DEF TypeOK
<1>1. CASE UNCHANGED modes /\ (cli'.up => cli.up /\ cli'.mode = cli.mode)
  BY <1>1 DEF OneMode, Active, modes
<1>2. CASE EnsureProcess \/ Reload
  BY <1>2 DEF EnsureProcess, EnsureProcessAs, Reload, OneMode, Active
<1>3. ASSUME NEW p \in Posts, NEW x \in Modes, SetPermModeAndGetProc(p, x)
      PROVE  OneMode'
  <2>1. /\ \A q \in Posts : q # p => post'[q] = post[q]
        /\ post'[p].mode = x /\ mode' = x /\ pageMode' = pageMode /\ cli' = cli
        /\ post'[p].at = IF cli.up THEN "send" ELSE "show"
    BY <1>3 DEF SetPermModeAndGetProc
  <2>2. "overlap" \notin excuse' => "overlap" \notin excuse /\ \A q \in Posts : ~ Active(q)
    BY <1>3 DEF SetPermModeAndGetProc, Active
  <2>3. excuse' = {} => excuse = {}
    BY <1>3 DEF SetPermModeAndGetProc
  <2>4. ASSUME "overlap" \notin excuse'
        PROVE  /\ \A q \in Posts : post'[q].at \in {"send", "show"} <=> q = p
               /\ post'[p].mode = mode'
    BY <2>1, <2>2, <2>4 DEF Active
  <2>5. ~ (cli'.up /\ \A q \in Posts : post'[q].at # "send")
    BY <2>1
  <2>6. "overlap" \notin excuse' =>
          /\ \A q \in Posts : Active(q)' => post'[q].mode = mode'
          /\ \A o, q \in Posts : Active(o)' /\ Active(q)' => o = q
          /\ ~ \A q \in Posts : ~ Active(q)'
    <3> SUFFICES ASSUME "overlap" \notin excuse'
                 PROVE  /\ \A q \in Posts : Active(q)' => post'[q].mode = mode'
                        /\ \A o, q \in Posts : Active(o)' /\ Active(q)' => o = q
                        /\ ~ \A q \in Posts : ~ Active(q)'
      OBVIOUS
    <3>1. \A q \in Posts : Active(q)' <=> q = p
      BY <2>4 DEF Active
    <3> QED
      BY <2>4, <3>1
  <2> QED
    BY <2>5, <2>6 DEF OneMode
<1>4. ASSUME NEW p \in Posts, SetPermissionMode(p)
      PROVE  OneMode'
  <2>1. /\ \A q \in Posts : q # p => post'[q] = post[q]
        /\ post'[p].mode = post[p].mode /\ post'[p].at = "show" /\ post[p].at = "send"
        /\ UNCHANGED <<mode, pageMode>>
    BY <1>4 DEF SetPermissionMode
  <2>2. /\ excuse' = {} => excuse = {} /\ cli'.mode = post[p].mode
        /\ "overlap" \notin excuse' => "overlap" \notin excuse
    BY <1>4 DEF SetPermissionMode
  <2>3. ASSUME "overlap" \notin excuse
        PROVE  /\ \A q \in Posts : post'[q].at \in {"send", "show"} <=> q = p
               /\ post'[p].mode = mode
    BY <2>1, <2>3 DEF OneMode, Active
  <2>4. excuse' = {} => cli'.mode = mode'
    BY <2>1, <2>2, <2>3
  <2> QED
    BY <2>1, <2>2, <2>3, <2>4 DEF OneMode, Active
<1>5. ASSUME NEW p \in Posts, BroadcastMode(p)
      PROVE  OneMode'
  <2>1. /\ \A q \in Posts : q # p => post'[q] = post[q]
        /\ post'[p].at = "done" /\ post[p].at = "show"
        /\ pageMode' = post[p].mode /\ UNCHANGED <<mode, excuse, cli>>
    BY <1>5 DEF BroadcastMode, BroadcastModeAs
  <2> QED
    BY <2>1 DEF OneMode, Active
<1>6. CASE ReqActs
  BY <1>1, <1>6 DEF ReqActs, CliAsks, Request, RegisterPermChan, BroadcastRequest, ReceiveAnswer,
     DeletePermChan, SendPermResponse, SendPermResponseIf
<1>7. CASE RespActs
  BY <1>1, <1>7 DEF RespActs, Respond, NoQuestion, SendAnswer, ShowAnswer, RemovePermission,
     RemovePermissionAnd, FindChan
<1>8. CASE CliExits \/ \E r \in Requests : CliReports(r)
  BY <1>1, <1>8 DEF CliExits, CliReports
<1>9. CASE UNCHANGED vars
  BY <1>1, <1>9 DEF vars
<1> QED
  BY <1>2, <1>3, <1>4, <1>5, <1>6, <1>7, <1>8, <1>9, NextIsOneOf DEF CliActs, PostActs, Post

-----------------------------------------------------------------------------
\* The inductive invariant holds in every behaviour of handlePermission,
\* handleMode and the CLI.
LEMMA Invariant == Spec => []Inv
<1>1. Inv /\ [Next]_vars => Inv'
  BY TypeInductive, RegisteredInductive, PromptedInductive, AnswersInductive, OneModeInductive
     DEF Inv
<1> QED
  BY <1>1, InitInv, PTL DEF Spec

\* HandlePermission, handlePerm and handlePermAnswer: a request that waits has
\* its prompt on the pages and in the log, and a responder waits for room in a
\* channel only behind two others, however many tabs answer.
THEOREM WaitersCanBeAnswered == Spec => []RequestsAreAnswered
<1>1. Inv => RequestsAreAnswered
  <2> SUFFICES ASSUME Inv PROVE RequestsAreAnswered
    OBVIOUS
  <2>1. WaiterHasPrompt
    BY DEF Inv, Registered, Prompted, WaiterHasPrompt
  <2>2. ASSUME NEW u \in Responders, Blocked(u), req[responder[u].req].at # "waiting"
        PROVE  \E v, w \in Responders \ {u} :
                 /\ v # w /\ responder[v].req = responder[u].req /\ responder[w].req = responder[u].req
                 /\ responder[v].at # "send" /\ responder[w].at # "send"
    <3> DEFINE r == responder[u].req
    <3>1. r \in Requests /\ req[r].at \in Answering /\ ch[r] # <<>>
      BY <2>2 DEF Inv, Answers, Blocked
    <3>2. Gave(Head(ch[r]), r) /\ Gave(resp[r], r) /\ resp[r] # Head(ch[r])
      BY <3>1 DEF Inv, Answers
    <3>3. responder[u].at = "send"
      BY <2>2 DEF Blocked
    <3> QED
      BY <3>2, <3>3 DEF Gave
  <2> QED
    BY <2>1, <2>2 DEF Inv, RequestsAreAnswered, StuckOnlyBehindTwo
<1> QED
  BY <1>1, Invariant, PTL

\* The answer on the pages is the one claude got, if a single tab answered.
THEOREM PagesShowTheVerdict == Spec => []ShownIsVerdict
<1>1. Inv => ShownIsVerdict
  <2> SUFFICES ASSUME Inv, NEW r \in Requests, shown[r] # None, req[r].at = "over",
                      cli.up, req[r].of = cli.n, verdict[r] # shown[r]
               PROVE  \E u, v \in Responders : u # v /\ responder[u].req = r /\ responder[v].req = r
    BY DEF ShownIsVerdict
  <2>1. Gave(shown[r], r) /\ Gave(resp[r], r) /\ verdict[r] = resp[r]
    BY DEF Inv, Answers, Answering
  <2> QED
    BY <2>1 DEF Gave
<1> QED
  BY <1>1, Invariant, PTL

\* handleMode: pages, session and CLI have one mode when no post is under way,
\* unless posts overlapped or claude did not take one.
THEOREM ModesMeet == Spec => []ModesAgree
<1>1. Inv => ModesAgree
  BY DEF Inv, OneMode, Active, ModesAgree
<1> QED
  BY <1>1, Invariant, PTL
=============================================================================
