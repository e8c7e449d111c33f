---------------------------- MODULE Permissions ----------------------------
(***************************************************************************)
(* Permission requests and the permission mode of one session.  A CLI asks *)
(* and a goroutine registers a channel, broadcasts the request and waits;  *)
(* an HTTP handler finds the channel, sends the user's answer, shows it on *)
(* the pages and drops the request from the log.  Any number of tabs may   *)
(* answer.  The CLI may die with requests open, and is started again by    *)
(* the next message; the mode is kept in the session, in the model and in  *)
(* the CLI.                                                                *)
(***************************************************************************)
EXTENDS Naturals, Sequences, FiniteSets

CONSTANTS
  Requests,    \* permission requests, in the order of no CLI in particular
  Questions,   \* those of AskUserQuestion, answered by handlePermAnswer
  Responders,  \* posts of an answer
  Posts,       \* posts of a mode
  Modes, Default,
  None,
  MaxClis,     \* bound on the CLIs the session starts
  MaxActors    \* bound on the requests, answers and mode posts of a run

ASSUME PermissionsAssumption ==
  /\ Questions \subseteq Requests /\ Default \in Modes
  /\ None \notin Responders /\ MaxClis \in Nat \ {0} /\ MaxActors \in Nat

VARIABLES
  cli,        \* the session's CLI: its number, whether it is up, its mode
  req,        \* where the goroutine of each request is, and whose it is
  permChans,  \* Session.PermChans
  ch,         \* the channel of each request, of capacity one: who answered
  resp,       \* the answer HandlePermission returns
  verdict,    \* the answer the CLI got
  log,        \* requests in Session.Log
  pending,    \* the model's PendingPerms
  shown,      \* the last answer the pages show for a request
  responder,  \* where each responder is, and its request
  mode,       \* Session.PermissionMode
  pageMode,   \* the model's, and that of the mode bar
  post,       \* where each mode post is, its mode and the CLI it talks to
  excuse      \* (history) what sets the modes apart

requests == <<req, permChans, ch, resp, verdict, log, pending, shown>>
modes == <<mode, pageMode, post, excuse>>
vars == <<cli, requests, responder, modes>>

Init ==
  /\ cli = [n |-> 1, up |-> TRUE, mode |-> Default]
  /\ req = [r \in Requests |-> [at |-> "new", of |-> 0]]
  /\ permChans = {} /\ log = {} /\ pending = {}
  /\ ch = [r \in Requests |-> <<>>]
  /\ resp = [r \in Requests |-> None]
  /\ verdict = [r \in Requests |-> None]
  /\ shown = [r \in Requests |-> None]
  /\ responder = [u \in Responders |-> [at |-> "idle", req |-> None]]
  /\ mode = Default /\ pageMode = Default
  /\ post = [p \in Posts |-> [at |-> "idle", mode |-> Default, of |-> 0]]
  /\ excuse = {}

\* One more may begin.
Room ==
  Cardinality({r \in Requests : req[r].at # "new"})
    + Cardinality({u \in Responders : responder[u].at # "idle"})
    + Cardinality({p \in Posts : post[p].at # "idle"}) < MaxActors

Step(r, from, to) == req[r].at = from /\ req' = [req EXCEPT ![r].at = to]

-----------------------------------------------------------------------------
(* The CLI and the goroutine of each request.                              *)

CliAsks(r) ==
  /\ Room /\ cli.up /\ req[r].at = "new"
  /\ req' = [req EXCEPT ![r] = [at |-> "asked", of |-> cli.n]]
  /\ UNCHANGED <<cli, permChans, ch, resp, verdict, log, pending, shown, responder, modes>>

\* The tool the user was asked about has run or was refused.
CliReports(r) ==
  /\ cli.up /\ req[r].of = cli.n /\ verdict[r] # None /\ r \in pending
  /\ pending' = pending \ {r}
  /\ UNCHANGED <<cli, req, permChans, ch, resp, verdict, log, shown, responder, modes>>

CliExits ==
  /\ cli.up
  /\ cli' = [cli EXCEPT !.up = FALSE]
  /\ UNCHANGED <<requests, responder, modes>>

\* A CLI starts in the default mode; session_started clears the prompts.
EnsureProcessAs(startMode, kept) ==
  /\ ~ cli.up /\ cli.n < MaxClis
  /\ cli' = [n |-> cli.n + 1, up |-> TRUE, mode |-> startMode]
  /\ pending' = kept
  /\ excuse' = excuse \cup {"cli"}
  /\ UNCHANGED <<req, permChans, ch, resp, verdict, log, shown, responder, mode, pageMode, post>>
EnsureProcess == EnsureProcessAs(Default, {})

RegisterPermChan(r) ==
  /\ Step(r, "asked", "registered")
  /\ permChans' = permChans \cup {r}
  /\ UNCHANGED <<cli, ch, resp, verdict, log, pending, shown, responder, modes>>

BroadcastRequest(r) ==
  /\ Step(r, "registered", "waiting")
  /\ log' = log \cup {r} /\ pending' = pending \cup {r}
  /\ UNCHANGED <<cli, permChans, ch, resp, verdict, shown, responder, modes>>

ReceiveAnswer(r) ==
  /\ ch[r] # <<>> /\ Step(r, "waiting", "answered")
  /\ resp' = [resp EXCEPT ![r] = Head(ch[r])]
  /\ ch' = [ch EXCEPT ![r] = Tail(@)]
  /\ UNCHANGED <<cli, permChans, verdict, log, pending, shown, responder, modes>>

DeletePermChan(r) ==
  /\ Step(r, "answered", "replying")
  /\ permChans' = permChans \ {r}
  /\ UNCHANGED <<cli, ch, resp, verdict, log, pending, shown, responder, modes>>

\* A reply to a CLI that is gone is lost.
SendPermResponseIf(r, reaches) ==
  /\ Step(r, "replying", "over")
  /\ verdict' = [verdict EXCEPT ![r] = IF reaches THEN resp[r] ELSE None]
  /\ UNCHANGED <<cli, permChans, ch, resp, log, pending, shown, responder, modes>>
SendPermResponseNever(r) == SendPermResponseIf(r, FALSE)
SendPermResponse(r) == SendPermResponseIf(r, cli.up /\ req[r].of = cli.n)

-----------------------------------------------------------------------------
(* handlePerm and handlePermAnswer.                                        *)

\* A page posts an answer to a request it shows, or showed.
FindChan(u, r) ==
  /\ Room /\ responder[u].at = "idle" /\ req[r].at \notin {"new", "asked", "registered"}
  /\ responder' = [responder EXCEPT ![u] =
       [at |-> IF r \in permChans THEN "send" ELSE IF r \in Questions THEN "returned" ELSE "show",
        req |-> r]]
  /\ UNCHANGED <<cli, requests, modes>>

\* An answer to a question needs the question, from the log.
NoQuestion(u) ==
  LET r == responder[u].req IN
  /\ responder[u].at = "send" /\ r \in Questions \ log
  /\ responder' = [responder EXCEPT ![u].at = "returned"]
  /\ UNCHANGED <<cli, requests, modes>>

SendAnswer(u) ==
  LET r == responder[u].req IN
  /\ responder[u].at = "send" /\ r \notin Questions \ log
  /\ Len(ch[r]) < 1
  /\ ch' = [ch EXCEPT ![r] = Append(@, u)]
  /\ responder' = [responder EXCEPT ![u].at = "show"]
  /\ UNCHANGED <<cli, req, permChans, resp, verdict, log, pending, shown, modes>>

\* Who found no channel shows its answer all the same.
ShowAnswer(u) ==
  /\ responder[u].at = "show"
  /\ shown' = [shown EXCEPT ![responder[u].req] = u]
  /\ responder' = [responder EXCEPT ![u].at = "remove"]
  /\ UNCHANGED <<cli, req, permChans, ch, resp, verdict, log, pending, modes>>

RemovePermissionAnd(u, alsoOf) ==
  /\ responder[u].at = "remove"
  /\ log' = log \ {responder[u].req}
  /\ pending' = pending \ alsoOf
  /\ responder' = [responder EXCEPT ![u].at = "returned"]
  /\ UNCHANGED <<cli, req, permChans, ch, resp, verdict, shown, modes>>
RemovePermissionAll(u) == RemovePermissionAnd(u, Requests)
RemovePermission(u) == RemovePermissionAnd(u, {})

-----------------------------------------------------------------------------
(* handleMode, and a page load.                                            *)

SetPermModeAndGetProc(p, x) ==
  /\ Room /\ post[p].at = "idle"
  /\ mode' = x
  /\ post' = [post EXCEPT ![p] = [at |-> IF cli.up THEN "send" ELSE "show",
                                  mode |-> x, of |-> IF cli.up THEN cli.n ELSE 0]]
  /\ excuse' = excuse \cup
       IF \E q \in Posts : post[q].at \in {"send", "show"} THEN {"overlap"} ELSE {}
  /\ UNCHANGED <<cli, requests, responder, pageMode>>

\* The CLI takes the mode or refuses it; a CLI that is gone answers nothing.
SetPermissionMode(p) ==
  /\ post[p].at = "send"
  /\ post' = [post EXCEPT ![p] = [at |-> "show", mode |-> @.mode, of |-> 0]]
  /\ LET reaches == cli.up /\ cli.n = post[p].of IN
     \/ /\ reaches /\ cli' = [cli EXCEPT !.mode = post[p].mode]
        /\ UNCHANGED excuse
     \/ excuse' = excuse \cup {"cli"} /\ UNCHANGED cli
  /\ UNCHANGED <<requests, responder, mode, pageMode>>

BroadcastModeAs(p, x) ==
  /\ post[p].at = "show"
  /\ post' = [post EXCEPT ![p] = [at |-> "done", mode |-> Default, of |-> 0]]
  /\ pageMode' = x
  /\ UNCHANGED <<cli, requests, responder, mode, excuse>>
BroadcastOldMode(p) == BroadcastModeAs(p, pageMode)
BroadcastMode(p) == BroadcastModeAs(p, post[p].mode)

\* The model is built again, from the session's mode and its log.
Reload ==
  /\ pageMode' = mode /\ pending' = pending \cap log
  /\ UNCHANGED <<cli, req, permChans, ch, resp, verdict, log, shown, responder, mode, post, excuse>>

-----------------------------------------------------------------------------
Request(r) ==
  RegisterPermChan(r) \/ BroadcastRequest(r) \/ ReceiveAnswer(r) \/ DeletePermChan(r)
    \/ SendPermResponse(r)
Respond(u) == NoQuestion(u) \/ SendAnswer(u) \/ ShowAnswer(u) \/ RemovePermission(u)
Post(p) == SetPermissionMode(p) \/ BroadcastMode(p)

Next ==
  \/ \E r \in Requests : CliAsks(r) \/ CliReports(r) \/ Request(r)
  \/ CliExits \/ EnsureProcess \/ Reload
  \/ \E u \in Responders : Respond(u) \/ \E r \in Requests : FindChan(u, r)
  \/ \E p \in Posts : Post(p) \/ \E x \in Modes : SetPermModeAndGetProc(p, x)

Spec == Init /\ [][Next]_vars

-----------------------------------------------------------------------------
(* Properties.                                                             *)

TypeOK ==
  /\ cli \in [n : 1 .. MaxClis, up : BOOLEAN, mode : Modes]
  /\ req \in [Requests -> [at : {"new", "asked", "registered", "waiting", "answered",
                                 "replying", "over"}, of : 0 .. MaxClis]]
  /\ permChans \subseteq Requests /\ log \subseteq Requests /\ pending \subseteq Requests
  /\ ch \in [Requests -> {<<>>} \cup {<<u>> : u \in Responders}]
  /\ {resp, verdict, shown} \subseteq [Requests -> Responders \cup {None}]
  /\ responder \in [Responders -> [at : {"idle", "send", "show", "remove", "returned"},
                                  req : Requests \cup {None}]]
  /\ mode \in Modes /\ pageMode \in Modes
  /\ post \in [Posts -> [at : {"idle", "send", "show", "done"}, mode : Modes, of : 0 .. MaxClis]]
  /\ excuse \subseteq {"cli", "overlap"}

Answered(r) ==
  \E u \in Responders : responder[u].req = r /\ responder[u].at \in {"show", "remove", "returned"}

\* A request the running CLI waits for, and nobody answered, has its prompt on
\* the pages and in the next page load: neither a death, a restart nor an
\* answer to another request takes it away.
WaiterHasPrompt ==
  \A r \in Requests :
    req[r].at = "waiting" /\ cli.up /\ req[r].of = cli.n /\ ~ Answered(r) =>
      r \in pending \cap log /\ r \in permChans

\* When nothing is under way, the answer a page shows is the one claude got,
\* unless the CLI that asked is gone or several tabs answered.
ShownIsVerdict ==
  \A r \in Requests :
    shown[r] = None \/ verdict[r] = shown[r] \/ req[r].at # "over"
      \/ ~ cli.up \/ req[r].of # cli.n
      \/ \E u, v \in Responders : u # v /\ responder[u].req = r /\ responder[v].req = r

\* A mode post that is over has set the mode on the pages, in the session and
\* in the CLI, unless posts overlapped, claude did not take the mode or the
\* CLI was started again.
ModesAgree ==
  (\A p \in Posts : post[p].at \in {"idle", "done"}) =>
    /\ "overlap" \notin excuse => pageMode = mode
    /\ excuse = {} /\ cli.up => cli.mode = mode

\* A responder that waits for room in a channel nobody reads any more has two
\* others before it: one whose answer was taken, one whose answer fills it.
Blocked(u) ==
  responder[u].at = "send" /\ ch[responder[u].req] # <<>>
    /\ responder[u].req \notin Questions \ log
StuckOnlyBehindTwo ==
  \A u \in Responders : Blocked(u) /\ req[responder[u].req].at # "waiting" =>
    \E v, w \in Responders \ {u} :
      /\ v # w /\ responder[v].req = responder[u].req /\ responder[w].req = responder[u].req
      /\ responder[v].at # "send" /\ responder[w].at # "send"

\* Whoever waits for an answer can be given one, and gives one in time.
RequestsAreAnswered == TypeOK /\ WaiterHasPrompt /\ StuckOnlyBehindTwo
=============================================================================
