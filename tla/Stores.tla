------------------------------- MODULE Stores -------------------------------
(***************************************************************************)
(* What the server keeps across restarts, for one session: its label, the  *)
(* model it runs under and its entry of the landing page, each in a store  *)
(* that holds a lock over its memory and its file, and the list of         *)
(* archived workstreams, a file without a lock.  Review comments, kept in  *)
(* memory only, until they are sent.  HTTP requests, the goroutine that    *)
(* reads the CLI and those of permission requests overlap, and the server  *)
(* may crash between the truncation of a file and the write.               *)
(***************************************************************************)
EXTENDS Naturals, Sequences, FiniteSets, TLC

CONSTANTS
  Labels, Models, Paths, Comments,
  None, Torn,   \* no entry; a file that was truncated and not written
  Requests,     \* what runs at once
  Families,     \* the parts of the server that a behaviour is about
  MaxRequests,  \* bound on the requests of a behaviour
  MaxCrashes    \* bound on its crashes

ASSUME StoresAssumption ==
  /\ None # Torn /\ None \notin Requests
  /\ \A x \in {None, Torn} :
       /\ x \notin Labels \cup Models \cup Paths \cup Comments
       /\ x \notin {"running", "done", "asked", "completed", "blocked"} /\ \A S \in SUBSET Paths : x # S
  /\ IsFiniteSet(Comments) /\ "orphan" \notin Comments
  /\ MaxRequests \in Nat /\ MaxCrashes \in Nat

VARIABLES
  family,    \* what the requests are about
  mem,       \* LabelStore, ModelCommandStore, SessionTracker: the session's entry
  file,      \* labels.json, model-commands.json, queue.json: Torn, or the entry
  lock,      \* the request that holds the lock of a store
  archive,   \* archived_workstreams.json: None, Torn, or the paths
  sess,      \* the Session: its label, its command, whether its CLI lives
  comments,  \* ReviewStore
  sent,      \* how many messages a comment was sent in
  bar,       \* the count that the review bar shows
  req,       \* where each request is
  ran,       \* (history) the models CLIs were started under
  last,      \* (history) the last CLI event, and the value each file should have
  excuse,    \* (history) what a property does not hold after
  made       \* (history) how many requests and crashes there were

stores == <<mem, file, lock>>
reviews == <<comments, sent, bar>>
history == <<ran, last, excuse>>
vars == <<family, stores, archive, sess, reviews, req, history, made>>

Stored == {"labels", "models", "tracker"}
Idle == [kind |-> "none", at |-> "idle", v |-> None, loc |-> None]
NoSession == [exists |-> FALSE, label |-> None, command |-> None, up |-> FALSE]

Init ==
  /\ family \in Families
  /\ mem = [s \in Stored |-> None] /\ file = mem /\ archive = None
  /\ lock = [s \in Stored |-> None]
  /\ sess = [NoSession EXCEPT !.exists = TRUE]
  /\ comments = {} /\ sent = [c \in Comments |-> 0] /\ bar = 0
  /\ req = [r \in Requests |-> Idle]
  /\ ran = {} /\ last = [event |-> None, archive |-> {}, added |-> {}, gone |-> {}] /\ excuse = {}
  /\ made = [requests |-> 0, crashes |-> 0]

Busy(kinds) == {r \in Requests : req[r].kind \in kinds}
At(r, kind, at) == req[r].kind = kind /\ req[r].at = at
Go(r, at) == req' = [req EXCEPT ![r].at = at]
GoWith(r, at, x) == req' = [req EXCEPT ![r].at = at, ![r].loc = x]
GoTaking(r, at, x) == req' = [req EXCEPT ![r].at = at, ![r].v = x]
End(r) == req' = [req EXCEPT ![r] = Idle]

\* A request arrives; two of a kind that overlap are an excuse.
Arrive(r, fam, kind, at, x) ==
  /\ family = fam /\ req[r] = Idle /\ made.requests < MaxRequests
  /\ made' = [made EXCEPT !.requests = @ + 1]
  /\ req' = [req EXCEPT ![r] = [kind |-> kind, at |-> at, v |-> x, loc |-> None]]
Overlap(kinds) == IF Busy(kinds) # {} THEN excuse \cup {"overlap"} ELSE excuse

----------------------------------------------------------------------------
(* The stores                                                              *)

\* save, under the lock: the file is truncated, then written.
Save(r, s, x) ==
  /\ lock[s] = None
  /\ mem' = [mem EXCEPT ![s] = x]
  /\ file' = [file EXCEPT ![s] = Torn]
  /\ lock' = [lock EXCEPT ![s] = r]
Saved(r, s) ==
  /\ lock[s] = r
  /\ file' = [file EXCEPT ![s] = mem[s]]
  /\ lock' = [lock EXCEPT ![s] = None]
  /\ UNCHANGED mem

\* Another session's entry is written into the same file.
OtherSession(r, s) ==
  /\ family = (IF s = "tracker" THEN "tracker" ELSE "session")
  /\ Arrive(r, family, "other", "lock", s)
  /\ UNCHANGED <<family, stores, archive, sess, reviews, history>>
SetOther(r) ==
  /\ At(r, "other", "lock") /\ Save(r, req[r].v, mem[req[r].v]) /\ Go(r, "save")
  /\ UNCHANGED <<family, archive, sess, reviews, history, made>>
OtherSaved(r) ==
  /\ At(r, "other", "save") /\ Saved(r, req[r].v) /\ End(r)
  /\ UNCHANGED <<family, archive, sess, reviews, history, made>>

\* A crash, and a new server that loads the files: one that does not parse
\* is an empty store.  Sessions are loaded again when a page asks for them.
NewStores == [s \in Stored |-> IF file[s] = Torn THEN None ELSE file[s]]
Crash ==
  /\ made.crashes < MaxCrashes /\ made' = [made EXCEPT !.crashes = @ + 1]
  /\ mem' = NewStores
  /\ file' = file /\ lock' = [s \in Stored |-> None]
  /\ sess' = NoSession
  /\ comments' = {} /\ bar' = 0
  /\ req' = [r \in Requests |-> Idle]
  /\ excuse' = excuse \cup {"crash"}
       \cup (IF \E s \in Stored : file[s] = Torn THEN {"torn"} ELSE {})
       \cup (IF archive = Torn \/ \E r \in Requests : req[r].kind \in {"archive", "unarchive"} THEN {"torn archive"} ELSE {})
  /\ UNCHANGED <<family, archive, sent, ran, last>>

----------------------------------------------------------------------------
(* Sessions: load, label, first send, spawn, close                         *)

\* restoreSession: no session is there, so one is made from the disk.  It
\* replaces one that another page load made meanwhile, and that one's CLI is
\* in no session any more.
Restore(r) ==
  /\ ~sess.exists /\ Arrive(r, "session", "load", "parse", None)
  /\ excuse' = IF Busy({"load"}) # {} THEN excuse \cup {"two loads"} ELSE excuse
  /\ UNCHANGED <<family, stores, archive, sess, reviews, ran, last>>
LoadSession(r) ==
  /\ At(r, "load", "parse")
  /\ lock["labels"] = None /\ lock["models"] = None
  /\ sess' = [exists |-> TRUE, label |-> mem["labels"],
              command |-> IF mem["models"] = None /\ Cardinality(Models) = 1
                          THEN CHOOSE m \in Models : TRUE ELSE mem["models"],
              up |-> FALSE]
  /\ last' = IF sess.up THEN [last EXCEPT !.gone = @ \cup {"orphan"}] ELSE last
  /\ End(r)
  /\ UNCHANGED <<family, stores, archive, reviews, ran, excuse, made>>

\* handleLabel: the session's label, then the store's.
UpdateLabel(r, l) ==
  /\ sess.exists /\ Arrive(r, "session", "label", "lock", l)
  /\ sess' = [sess EXCEPT !.label = l]
  /\ excuse' = Overlap({"label", "load"})
  /\ UNCHANGED <<family, stores, archive, reviews, ran, last>>
SetLabel(r) ==
  /\ At(r, "label", "lock") /\ Save(r, "labels", req[r].v) /\ Go(r, "save")
  /\ UNCHANGED <<family, archive, sess, reviews, history, made>>
LabelSaved(r) ==
  /\ At(r, "label", "save") /\ Saved(r, "labels") /\ End(r)
  /\ UNCHANGED <<family, archive, sess, reviews, history, made>>

\* handleSend: a session without a command takes that of its first message,
\* recorded; then ensureProcess records the command it has, unless its CLI
\* lives, and starts one under the record's.
FirstSend(r, m) ==
  /\ sess.exists /\ sess.command = None /\ Arrive(r, "session", "send", "first", m)
  /\ UNCHANGED <<family, stores, archive, sess, reviews, history>>
SendMessage(r) ==
  /\ sess.exists /\ sess.command # None /\ Arrive(r, "session", "send", "ensure", None)
  /\ UNCHANGED <<family, stores, archive, sess, reviews, history>>
EnsureProcess(r) ==
  /\ At(r, "send", "ensure")
  /\ IF sess.up \/ sess.command = None THEN End(r)
     ELSE GoTaking(r, "spawn", sess.command)
  /\ UNCHANGED <<family, stores, archive, sess, reviews, history, made>>

\* GetOrSet: the first writer wins.
SetModel(r, at) == Save(r, "models", req[r].v) /\ Go(r, IF at = "adopt" THEN "save first" ELSE "save")
GetOrSet(r, at) ==
  IF mem["models"] # None
  THEN /\ lock["models"] = None
       /\ GoTaking(r, at, mem["models"])
       /\ UNCHANGED stores
  ELSE Save(r, "models", req[r].v) /\ Go(r, IF at = "adopt" THEN "save first" ELSE "save")
Record(r) ==
  /\ req[r].kind = "send"
  /\ \/ req[r].at = "first" /\ GetOrSet(r, "adopt")
     \/ req[r].at = "spawn" /\ GetOrSet(r, "start")
  /\ UNCHANGED <<family, archive, sess, reviews, history, made>>
Recorded(r) ==
  /\ req[r].kind = "send" /\ req[r].at \in {"save", "save first"}
  /\ Saved(r, "models") /\ Go(r, IF req[r].at = "save" THEN "start" ELSE "adopt")
  /\ UNCHANGED <<family, archive, sess, reviews, history, made>>
Adopt(r) ==
  /\ At(r, "send", "adopt")
  /\ sess' = [sess EXCEPT !.command = req[r].v] /\ Go(r, "ensure")
  /\ UNCHANGED <<family, stores, archive, reviews, history, made>>
Start(r) ==
  /\ At(r, "send", "start")
  /\ sess' = [sess EXCEPT !.command = req[r].v, !.up = TRUE]
  /\ ran' = ran \cup {req[r].v} /\ End(r)
  /\ UNCHANGED <<family, stores, archive, reviews, last, excuse, made>>
CliDies ==
  /\ family = "session" /\ sess.up
  /\ sess' = [sess EXCEPT !.up = FALSE]
  /\ UNCHANGED <<family, stores, archive, reviews, req, history, made>>

----------------------------------------------------------------------------
(* The entry on the landing page                                           *)

\* Hub.Broadcast of running, permission_request and done: running and done by
\* the goroutine that reads the CLI, one at a time, each request by its own.
\* It tracks a session it found.
Status(kind) == CASE kind = "running" -> "running" [] kind = "done" -> "completed" [] kind = "asked" -> "blocked"
InTurn == last.event \in {"running", "asked"}
CliEvent(r, kind) ==
  /\ kind = "running" => ~InTurn
  /\ kind \in {"done", "asked"} => InTurn
  /\ kind \in {"running", "done"} => Busy({"running", "done"}) = {}
  /\ Arrive(r, "tracker", kind, IF sess.exists THEN "lock" ELSE "skip", Status(kind))
  /\ "killed" \notin last.gone
  /\ last' = [last EXCEPT !.event = kind]
  /\ excuse' = IF Busy({"asked"}) # {} \/ (kind = "asked" /\ Busy({"running", "done"}) # {})
               THEN excuse \cup {"asked late"} ELSE excuse
  /\ UNCHANGED <<family, stores, archive, sess, reviews, ran>>
EventKinds == {"running", "done", "asked"}
TracksAny(r) == req[r].at \in {"lock", "skip"} /\ req[r].kind \in EventKinds
Tracks(r) == req[r].at = "lock" /\ req[r].kind \in EventKinds
Track(r) ==
  /\ Tracks(r) /\ Save(r, "tracker", req[r].v)
  /\ Go(r, "save")
  /\ excuse' = IF "closed" \in last.gone /\ req[r].at = "lock" THEN excuse \cup {"event in flight"} ELSE excuse
  /\ UNCHANGED <<family, archive, sess, reviews, ran, last, made>>
Tracked(r) ==
  /\ req[r].kind \in {"running", "done", "asked", "close"} /\ req[r].at = "save" /\ Saved(r, "tracker")
  /\ IF req[r].kind = "close" THEN Go(r, "remove") ELSE End(r)
  /\ UNCHANGED <<family, archive, sess, reviews, history, made>>
Skip(r) ==
  /\ req[r].at = "skip" /\ ~Tracks(r) /\ End(r)
  /\ UNCHANGED <<family, stores, archive, sess, reviews, history, made>>

\* handleCloseSession: the entry, then the session, then the CLI.
CloseSession(r) ==
  /\ sess.exists /\ Busy({"close"}) = {} /\ Arrive(r, "tracker", "close", "lock", None)
  /\ UNCHANGED <<family, stores, archive, sess, reviews, history>>
CloseEntryUnsaved(r) ==
  /\ At(r, "close", "lock") /\ lock["tracker"] = None
  /\ last' = [last EXCEPT !.gone = @ \cup {"closed"}]
  /\ mem' = [mem EXCEPT !["tracker"] = None] /\ Go(r, "remove")
  /\ UNCHANGED <<family, file, lock, archive, sess, reviews, ran, excuse, made>>
CloseEntry(r) ==
  /\ At(r, "close", "lock") /\ lock["tracker"] = None
  /\ last' = [last EXCEPT !.gone = @ \cup {"closed"}]
  /\ IF mem["tracker"] = None THEN Go(r, "remove") /\ UNCHANGED stores
     ELSE Save(r, "tracker", None) /\ Go(r, "save")
  /\ UNCHANGED <<family, archive, sess, reviews, ran, excuse, made>>
RemoveSession(r) ==
  /\ At(r, "close", "remove")
  /\ sess' = NoSession /\ Go(r, "kill")
  /\ UNCHANGED <<family, stores, archive, reviews, history, made>>
KillCli(r) ==
  /\ At(r, "close", "kill")
  /\ last' = [last EXCEPT !.gone = @ \cup {"killed"}] /\ End(r)
  /\ UNCHANGED <<family, stores, archive, sess, reviews, ran, excuse, made>>

----------------------------------------------------------------------------
(* The archive of workstreams                                              *)

\* ArchiveWorkstream and UnarchiveWorkstream: load, truncate, write.  A list
\* that is not there, or does not parse, is nil: archive begins a new one,
\* unarchive returns.
ArchiveKinds == {"archive", "unarchive"}
Load(a) == IF a \in {None, Torn} THEN None ELSE a
ArchiveRequest(r, kind, p) ==
  /\ Arrive(r, "archive", kind, "load", p)
  /\ excuse' = IF Busy(ArchiveKinds) # {} THEN excuse \cup {"overlap"} ELSE excuse
  /\ UNCHANGED <<family, stores, archive, sess, reviews, ran, last>>
Expected(r) ==
  IF req[r].kind = "archive" THEN last.archive \cup {req[r].v} ELSE last.archive \ {req[r].v}
UpdatedAlone(r, a) == IF req[r].kind = "archive" THEN {req[r].v} ELSE a \ {req[r].v}
Updated(r, a) ==
  IF req[r].kind = "archive" THEN (IF a = None THEN {} ELSE a) \cup {req[r].v} ELSE a \ {req[r].v}
ArchiveLoad(r) ==
  /\ req[r].kind \in ArchiveKinds /\ req[r].at = "load"
  /\ IF req[r].kind = "unarchive" /\ Load(archive) = None
     THEN End(r) /\ last' = [last EXCEPT !.archive = Expected(r)]
     ELSE GoWith(r, "truncate", Updated(r, Load(archive))) /\ UNCHANGED last
  /\ UNCHANGED <<family, stores, archive, sess, reviews, ran, excuse, made>>
ArchiveTruncate(r) ==
  /\ req[r].kind \in ArchiveKinds /\ req[r].at = "truncate"
  /\ archive' = Torn /\ Go(r, "write")
  /\ UNCHANGED <<family, stores, sess, reviews, history, made>>

\* A shorter list over a longer one that came in between leaves its tail.
ArchiveWrite(r) ==
  /\ req[r].kind \in ArchiveKinds /\ req[r].at = "write"
  /\ archive' \in IF archive \in {Torn, None, req[r].loc} THEN {req[r].loc} ELSE {req[r].loc, Torn}
  /\ last' = [last EXCEPT !.archive = Expected(r)] /\ End(r)
  /\ UNCHANGED <<family, stores, sess, reviews, ran, excuse, made>>

----------------------------------------------------------------------------
(* Review comments                                                         *)

ReviewKinds == {"comment", "delete", "review"}
AddComment(r, c) ==
  /\ c \notin last.added
  /\ Arrive(r, "reviews", "comment", "count", c)
  /\ comments' = comments \cup {c}
  /\ last' = [last EXCEPT !.added = @ \cup {c}]
  /\ excuse' = Overlap(ReviewKinds)
  /\ UNCHANGED <<family, stores, archive, sess, sent, bar, ran>>
DeleteComment(r, c) ==
  /\ Arrive(r, "reviews", "delete", "count", c)
  /\ comments' = comments \ {c}
  /\ last' = [last EXCEPT !.gone = @ \cup {c}]
  /\ excuse' = Overlap(ReviewKinds)
  /\ UNCHANGED <<family, stores, archive, sess, sent, bar, ran>>
Count(r) ==
  /\ req[r].kind \in {"comment", "delete"} /\ req[r].at = "count"
  /\ GoWith(r, "bar", Cardinality(comments))
  /\ UNCHANGED <<family, stores, archive, sess, reviews, history, made>>
BroadcastBar(r) ==
  /\ req[r].kind \in ReviewKinds /\ req[r].at = "bar"
  /\ bar' = (IF req[r].kind = "review" THEN 0 ELSE req[r].loc) /\ End(r)
  /\ UNCHANGED <<family, stores, archive, sess, comments, sent, history, made>>

\* handleReviewSend: the list is formatted, the store cleared, the message
\* sent, if the CLI can be reached, and the bar emptied.
SendReview(r) ==
  /\ Arrive(r, "reviews", "review", "list", None)
  /\ excuse' = Overlap(ReviewKinds)
  /\ UNCHANGED <<family, stores, archive, sess, reviews, ran, last>>
FormatReviewAndClear(r) ==
  /\ At(r, "review", "list")
  /\ IF comments = {} THEN End(r) /\ UNCHANGED comments ELSE GoWith(r, "clear", {}) /\ comments' = {}
  /\ UNCHANGED <<family, stores, archive, sess, sent, bar, history, made>>
FormatReview(r) ==
  /\ At(r, "review", "list")
  /\ IF comments = {} THEN End(r) ELSE GoWith(r, "clear", comments)
  /\ UNCHANGED <<family, stores, archive, sess, reviews, history, made>>
ClearReview(r) ==
  /\ At(r, "review", "clear")
  /\ comments' = {}
  /\ last' = [last EXCEPT !.gone = @ \cup (comments \ req[r].loc)]
  /\ Go(r, "send")
  /\ UNCHANGED <<family, stores, archive, sess, sent, bar, ran, excuse, made>>
DeliverReview(r) ==
  /\ At(r, "review", "send")
  /\ \/ /\ sent' = [c \in Comments |-> IF c \in req[r].loc THEN sent[c] + 1 ELSE sent[c]]
        /\ UNCHANGED excuse
     \/ sent' = sent /\ excuse' = excuse \cup {"send failed"}
  /\ Go(r, "bar")
  /\ UNCHANGED <<family, stores, archive, sess, comments, bar, ran, last, made>>

----------------------------------------------------------------------------
Session(r) ==
  \/ Restore(r) \/ LoadSession(r)
  \/ \E l \in Labels : UpdateLabel(r, l)
  \/ SetLabel(r) \/ LabelSaved(r)
  \/ \E m \in Models : FirstSend(r, m)
  \/ SendMessage(r) \/ EnsureProcess(r) \/ Record(r) \/ Recorded(r) \/ Adopt(r) \/ Start(r)
Landing(r) ==
  \/ \E k \in EventKinds : CliEvent(r, k)
  \/ Track(r) \/ Tracked(r) \/ Skip(r)
  \/ CloseSession(r) \/ CloseEntry(r) \/ RemoveSession(r) \/ KillCli(r)
Archive(r) ==
  \/ \E k \in ArchiveKinds, p \in Paths : ArchiveRequest(r, k, p)
  \/ ArchiveLoad(r) \/ ArchiveTruncate(r) \/ ArchiveWrite(r)
Review(r) ==
  \/ \E c \in Comments : AddComment(r, c) \/ DeleteComment(r, c)
  \/ Count(r) \/ BroadcastBar(r)
  \/ SendReview(r) \/ FormatReview(r) \/ ClearReview(r) \/ DeliverReview(r)
Other(r) == (\E s \in Stored : OtherSession(r, s)) \/ SetOther(r) \/ OtherSaved(r)
Next ==
  \/ \E r \in Requests : Other(r) \/ Session(r) \/ Landing(r) \/ Archive(r) \/ Review(r)
  \/ CliDies \/ Crash

Spec == Init /\ [][Next]_vars

----------------------------------------------------------------------------
(* Properties                                                              *)

TypeOK ==
  /\ mem \in [Stored -> {None, "running", "completed", "blocked"} \cup Labels \cup Models]
  /\ file \in [Stored -> {None, Torn, "running", "completed", "blocked"} \cup Labels \cup Models]
  /\ lock \in [Stored -> Requests \cup {None}]
  /\ archive \in {None, Torn} \cup SUBSET Paths
  /\ comments \subseteq Comments /\ bar \in 0..Cardinality(Comments)

\* A restart brings back what the stores held, but for a store whose file was
\* being written: that one is empty.
RestartKeeps ==
  [][made'.crashes > made.crashes => \A s \in Stored : mem'[s] = mem[s] \/ lock[s] # None]_vars

\* Every CLI of a session runs the model that was recorded first, whoever
\* sends the first message, across deaths, page loads and restarts, unless
\* the record was lost in a crash.
ModelFixed ==
  "torn" \in excuse \/ (Cardinality(ran) <= 1 /\ (ran # {} => mem["models"] \in ran))

\* The session's label is the stored one when no edit is under way and none
\* overlapped; and no CLI runs outside of the session, unless two page loads
\* made it from the disk at once.
SessionAgrees ==
  /\ sess.exists /\ Busy({"label", "load"}) = {} => sess.label = mem["labels"] \/ "overlap" \in excuse
  /\ "orphan" \in last.gone => "two loads" \in excuse

\* What is recorded about a session is true of it.
SessionRecords == TypeOK /\ ModelFixed /\ SessionAgrees

\* The landing page shows what the CLI last did, unless the goroutine of a
\* permission request was late or the server restarted; and a session that
\* was closed does not come back, but for an event that had found it.
LandingTrue ==
  family = "tracker" /\ Busy(EventKinds) = {} =>
    IF "closed" \in last.gone THEN mem["tracker"] = None \/ "event in flight" \in excuse
    ELSE \/ mem["tracker"] = (IF last.event = None THEN None ELSE Status(last.event))
         \/ excuse \cap {"asked late", "crash"} # {}

\* The archive is what the requests asked for, if they did not overlap and no
\* crash came in between.
ArchiveAgrees ==
  Busy(ArchiveKinds) = {} =>
    \/ (IF archive = None THEN {} ELSE archive) = last.archive
    \/ excuse \cap {"overlap", "torn archive"} # {}

\* A comment is there, sent, or deleted, unless Send Review could not send
\* it; one that is added while a review is sent may be lost, and is the only
\* one.  None is sent twice, and the bar counts them, unless requests overlap.
ReviewsKept ==
  /\ \A c \in Comments :
       /\ sent[c] > 1 => "overlap" \in excuse
       /\ c \in last.added => \/ c \in comments \cup last.gone \/ sent[c] > 0
                              \/ \E r \in Requests : At(r, "review", "send") /\ c \in req[r].loc
                              \/ excuse \cap {"send failed", "crash"} # {}
  /\ Busy(ReviewKinds) = {} => bar = Cardinality(comments) \/ "overlap" \in excuse
=============================================================================
