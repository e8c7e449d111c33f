---------------------------- MODULE StoresProofs ----------------------------
(***************************************************************************)
(* The properties of Stores hold for any labels, models, paths, comments   *)
(* and requests, and for any number of them.                               *)
(***************************************************************************)
EXTENDS Stores, FiniteSetTheorems, TLAPS

\* What a request can be, by its kind.
Shape(kind, at, v, loc) ==
  \/ kind = "none" /\ at = "idle" /\ v = None /\ loc = None
  \/ kind = "other" /\ at \in {"lock", "save"} /\ v \in Stored /\ loc = None
  \/ kind = "load" /\ at = "parse" /\ v = None /\ loc = None
  \/ kind = "label" /\ at \in {"lock", "save"} /\ v \in Labels /\ loc = None
  \/ kind = "send" /\ at \in {"first", "spawn", "adopt", "start", "save", "save first"}
       /\ v \in Models /\ loc = None
  \/ kind = "send" /\ at = "ensure" /\ v \in Models \cup {None} /\ loc = None
  \/ kind \in EventKinds /\ at \in {"lock", "skip", "save"} /\ v = Status(kind) /\ loc = None
  \/ kind = "close" /\ at \in {"lock", "save", "remove", "kill"} /\ v = None /\ loc = None
  \/ kind \in ArchiveKinds /\ v \in Paths
       /\ (at = "load" \/ (at \in {"truncate", "write"} /\ loc \in SUBSET Paths))
  \/ kind \in {"comment", "delete"} /\ v \in Comments
       /\ (at = "count" \/ (at = "bar" /\ loc \in 0 .. Cardinality(Comments)))
  \/ kind = "review" /\ v = None
       /\ (at = "list" \/ (at \in {"clear", "send", "bar"} /\ loc \in SUBSET Comments))

\* The kinds of request that arrive in a behaviour about a family.
KindsOf(f) ==
  CASE f = "session"  -> {"none", "other", "load", "label", "send"}
    [] f = "tracker"  -> {"none", "other", "close"} \cup EventKinds
    [] f = "archive"  -> {"none"} \cup ArchiveKinds
    [] f = "reviews"  -> {"none"} \cup ReviewKinds
    [] OTHER -> {"none"}

Entries(s) ==
  {None} \cup (CASE s = "labels" -> Labels [] s = "models" -> Models
                 [] s = "tracker" -> {"running", "completed", "blocked"})

ReqTypes ==
  /\ req = [r \in Requests |-> [kind |-> req[r].kind, at |-> req[r].at, v |-> req[r].v, loc |-> req[r].loc]]
  /\ \A r \in Requests : /\ Shape(req[r].kind, req[r].at, req[r].v, req[r].loc)
                         /\ req[r].kind \in KindsOf(family)
LastType == [event : {None} \cup EventKinds, archive : SUBSET Paths, added : SUBSET Comments,
             gone : SUBSET (Comments \cup {"closed", "killed", "orphan"})]
DataTypes ==
  /\ mem \in [Stored -> {None, "running", "completed", "blocked"} \cup Labels \cup Models]
  /\ file \in [Stored -> {None, Torn, "running", "completed", "blocked"} \cup Labels \cup Models]
  /\ \A s \in Stored : mem[s] \in Entries(s)
  /\ lock \in [Stored -> Requests \cup {None}]
  /\ archive \in {None, Torn} \cup SUBSET Paths
  /\ sess \in [exists : BOOLEAN, label : Labels \cup {None}, command : Models \cup {None}, up : BOOLEAN]
  /\ comments \subseteq Comments /\ bar \in 0 .. Cardinality(Comments)
  /\ sent \in [Comments -> Nat]
  /\ last \in LastType
  /\ made \in [requests : Nat, crashes : Nat]
Types == DataTypes /\ ReqTypes

\* A file agrees with the memory of its store but while a save holds the lock:
\* it is torn then, and stays so, and the store empty, if the server crashes.
FilesAgree ==
  \A s \in Stored :
    IF lock[s] = None THEN file[s] = mem[s] \/ (file[s] = Torn /\ mem[s] = None)
    ELSE file[s] = Torn

\* A send that has been to the record carries what it holds, and so does every
\* CLI that was started.
RecordHolds ==
  /\ \A r \in Requests :
       req[r].kind = "send" /\ req[r].at \in {"save", "save first", "adopt", "start"} =>
         req[r].v = mem["models"]
  /\ "torn" \notin excuse => ran \subseteq {mem["models"]} /\ (ran # {} => mem["models"] # None)

\* While one label is edited at most, the session has the one that is edited or
\* the one that is stored.  A session is loaded once, unless two loads overlap.
LabelsAgree ==
  "overlap" \notin excuse =>
    /\ \A r \in Requests : req[r].kind = "label" =>
         /\ sess.label = req[r].v /\ (req[r].at = "save" => mem["labels"] = req[r].v)
         /\ \A q \in Requests : req[q].kind \in {"label", "load"} => q = r
    /\ sess.exists /\ Busy({"label"}) = {} => sess.label = mem["labels"]
LoadedOnce ==
  /\ sess.up => sess.exists
  /\ \A r \in Requests : req[r].kind \in {"label", "send"} => sess.exists
  /\ "two loads" \notin excuse =>
       /\ \A r, q \in Requests : req[r].kind = "load" /\ req[q].kind = "load" => r = q
       /\ \A r \in Requests : req[r].kind = "load" => ~ sess.exists
       /\ "orphan" \notin last.gone

\* An event on its way to the landing page is the last of the CLI.
Excused == excuse \cap {"asked late", "crash"} # {}
EventOnly ==
  /\ sess.exists /\ \A r \in Requests : req[r].kind = "close" => req[r].at = "lock"
  /\ \A r \in Requests : req[r].kind \in EventKinds =>
       /\ req[r].kind = last.event /\ req[r].at # "skip"
       /\ req[r].at = "save" => mem["tracker"] = Status(last.event)
       /\ \A q \in Requests : req[q].kind \in EventKinds => q = r
  /\ (\A r \in Requests : req[r].kind \notin EventKinds) =>
       mem["tracker"] = (IF last.event = None THEN None ELSE Status(last.event))
EventTracked ==
  family = "tracker" =>
    /\ "closed" \in last.gone => mem["tracker"] = None \/ "event in flight" \in excuse
    /\ "closed" \notin last.gone => Excused \/ EventOnly

\* One request changes the archive at a time, from what was asked for to that
\* and its own.
ArchiveAlone ==
  excuse \cap {"overlap", "torn archive"} = {} =>
    /\ \A r, q \in Requests : req[r].kind \in ArchiveKinds /\ req[q].kind \in ArchiveKinds => r = q
    /\ (\A r \in Requests : req[r].kind \in ArchiveKinds => req[r].at # "write") =>
         (IF archive = None THEN {} ELSE archive) = last.archive
    /\ \A r \in Requests : req[r].kind \in ArchiveKinds =>
         /\ req[r].at \in {"truncate", "write"} => req[r].loc = Expected(r)
         /\ req[r].at = "write" => archive = Torn

\* A comment that was taken for a message is never in the store again.
Taken ==
  /\ comments \subseteq last.added
  /\ \A c \in Comments : sent[c] > 0 => c \in last.added \ comments
  /\ \A r \in Requests : req[r].kind = "review" /\ req[r].at \in {"send", "bar"} =>
       req[r].loc \subseteq last.added \ comments
  /\ \A r \in Requests : req[r].kind = "review" /\ req[r].at = "clear" => req[r].loc \subseteq last.added
CommentKept ==
  \A c \in last.added :
    \/ c \in comments \cup last.gone \/ sent[c] > 0
    \/ \E r \in Requests : At(r, "review", "send") /\ c \in req[r].loc
    \/ excuse \cap {"send failed", "crash"} # {}
ReviewAlone ==
  "overlap" \notin excuse =>
    /\ \A r, q \in Requests : req[r].kind \in ReviewKinds /\ req[q].kind \in ReviewKinds => r = q
    /\ \A c \in Comments : sent[c] <= 1
    /\ \A r \in Requests : req[r].kind = "review" =>
         /\ req[r].at = "clear" => req[r].loc = comments
         /\ req[r].at = "send" => \A c \in req[r].loc : sent[c] = 0
         /\ req[r].at \in {"send", "bar"} => comments = {}
    /\ \A r \in Requests : req[r].kind \in {"comment", "delete"} /\ req[r].at = "bar" =>
         req[r].loc = Cardinality(comments)
    /\ (\A r \in Requests : req[r].kind \in ReviewKinds => At(r, "review", "list")) =>
         bar = Cardinality(comments)

Inv == /\ Types /\ FilesAgree /\ RecordHolds /\ LabelsAgree /\ LoadedOnce
       /\ EventTracked /\ ArchiveAlone /\ Taken /\ CommentKept /\ ReviewAlone

-----------------------------------------------------------------------------
(* How a request moves.                                                    *)

\* What the steps of each family leave alone.
LEMMA Frames ==
  ASSUME NEW r \in Requests
  PROVE  /\ Other(r) => UNCHANGED <<family, archive, sess, reviews, history>>
         /\ Session(r) => UNCHANGED <<family, archive, reviews>>
         /\ Landing(r) => UNCHANGED <<family, archive, reviews, ran>>
         /\ Archive(r) => UNCHANGED <<family, stores, sess, reviews, ran>>
         /\ Review(r) => UNCHANGED <<family, stores, archive, sess, ran>>
<1> USE DEF history
<1>1. Other(r) => UNCHANGED <<family, archive, sess, reviews, history>>
  BY DEF Other, OtherSession, SetOther, OtherSaved
<1>2. Session(r) => UNCHANGED <<family, archive, reviews>>
  BY DEF Session, Restore, LoadSession, UpdateLabel, SetLabel, LabelSaved, FirstSend, SendMessage, EnsureProcess,
         Record, Recorded, Adopt, Start
<1>3. Landing(r) => UNCHANGED <<family, archive, reviews, ran>>
  BY DEF Landing, CliEvent, Track, Tracked, Skip, CloseSession, CloseEntry, RemoveSession, KillCli
<1>4. Archive(r) => UNCHANGED <<family, stores, sess, reviews, ran>>
  BY DEF Archive, ArchiveRequest, ArchiveLoad, ArchiveTruncate, ArchiveWrite
<1>5. Review(r) => UNCHANGED <<family, stores, archive, sess, ran>>
  BY DEF Review, AddComment, DeleteComment, Count, BroadcastBar, SendReview, FormatReview, ClearReview, DeliverReview, reviews
<1> QED
  BY <1>1, <1>2, <1>3, <1>4, <1>5

Becomes(r, kind, at, v, loc) ==
  req' = [req EXCEPT ![r] = [kind |-> kind, at |-> at, v |-> v, loc |-> loc]]

\* A move of a request changes where it is, and what it carries if it says so.
LEMMA Moves ==
  ASSUME Types, NEW r \in Requests
  PROVE  /\ \A at : Go(r, at) => Becomes(r, req[r].kind, at, req[r].v, req[r].loc)
         /\ \A at, x : GoWith(r, at, x) => Becomes(r, req[r].kind, at, req[r].v, x)
         /\ End(r) => Becomes(r, "none", "idle", None, None)
         /\ \A fam, kind, at, x : Arrive(r, fam, kind, at, x) => Becomes(r, kind, at, x, None)
         /\ \A at, x : GoTaking(r, at, x) => Becomes(r, req[r].kind, at, x, req[r].loc)
<1> DEFINE q == [kind |-> req[r].kind, at |-> req[r].at, v |-> req[r].v, loc |-> req[r].loc]
<1>1. req[r] = q /\ req = [p \in Requests |-> req[p]]
  BY DEF Types, ReqTypes
<1> SUFFICES ASSUME NEW at, NEW x, NEW fam, NEW kind
             PROVE  /\ Go(r, at) => Becomes(r, req[r].kind, at, req[r].v, req[r].loc)
                    /\ GoWith(r, at, x) => Becomes(r, req[r].kind, at, req[r].v, x)
                    /\ End(r) => Becomes(r, "none", "idle", None, None)
                    /\ Arrive(r, fam, kind, at, x) => Becomes(r, kind, at, x, None)
                    /\ GoTaking(r, at, x) => Becomes(r, req[r].kind, at, x, req[r].loc)
  OBVIOUS
<1>2. [req EXCEPT ![r].at = at] = [req EXCEPT ![r] = [kind |-> req[r].kind, at |-> at, v |-> req[r].v, loc |-> req[r].loc]]
  <2>1. [q EXCEPT !.at = at] = [kind |-> req[r].kind, at |-> at, v |-> req[r].v, loc |-> req[r].loc]
    OBVIOUS
  <2> HIDE DEF q
  <2>2. [req EXCEPT ![r].at = at] = [req EXCEPT ![r] = [q EXCEPT !.at = at]]
    BY <1>1
  <2> QED
    BY <2>1, <2>2
<1>3. [req EXCEPT ![r].at = at, ![r].loc = x] = [req EXCEPT ![r] = [kind |-> req[r].kind, at |-> at, v |-> req[r].v, loc |-> x]]
  <2>1. [[q EXCEPT !.at = at] EXCEPT !.loc = x] = [kind |-> req[r].kind, at |-> at, v |-> req[r].v, loc |-> x]
    <3>1. [q EXCEPT !.at = at] = [kind |-> req[r].kind, at |-> at, v |-> req[r].v, loc |-> req[r].loc]
      OBVIOUS
    <3>2. [[kind |-> req[r].kind, at |-> at, v |-> req[r].v, loc |-> req[r].loc] EXCEPT !.loc = x]
            = [kind |-> req[r].kind, at |-> at, v |-> req[r].v, loc |-> x]
      OBVIOUS
    <3> QED
      BY <3>1, <3>2
  <2> HIDE DEF q
  <2>2. [req EXCEPT ![r].at = at, ![r].loc = x] = [req EXCEPT ![r] = [[q EXCEPT !.at = at] EXCEPT !.loc = x]]
    BY <1>1
  <2> QED
    BY <2>1, <2>2
<1>4. [req EXCEPT ![r].at = at, ![r].v = x] = [req EXCEPT ![r] = [kind |-> req[r].kind, at |-> at, v |-> x, loc |-> req[r].loc]]
  <2>1. [[q EXCEPT !.at = at] EXCEPT !.v = x] = [kind |-> req[r].kind, at |-> at, v |-> x, loc |-> req[r].loc]
    <3>1. [q EXCEPT !.at = at] = [kind |-> req[r].kind, at |-> at, v |-> req[r].v, loc |-> req[r].loc]
      OBVIOUS
    <3>2. [[kind |-> req[r].kind, at |-> at, v |-> req[r].v, loc |-> req[r].loc] EXCEPT !.v = x]
            = [kind |-> req[r].kind, at |-> at, v |-> x, loc |-> req[r].loc]
      OBVIOUS
    <3> QED
      BY <3>1, <3>2
  <2> HIDE DEF q
  <2>2. [req EXCEPT ![r].at = at, ![r].v = x] = [req EXCEPT ![r] = [[q EXCEPT !.at = at] EXCEPT !.v = x]]
    BY <1>1
  <2> QED
    BY <2>1, <2>2
<1>5. End(r) => Becomes(r, "none", "idle", None, None)
  BY DEF End, Becomes, Idle
<1>6. Arrive(r, fam, kind, at, x) => Becomes(r, kind, at, x, None)
  BY DEF Arrive, Becomes
<1> QED
  BY <1>2, <1>3, <1>4, <1>5, <1>6 DEF Go, GoWith, GoTaking, Becomes

\* What a request becomes has the type of requests if it has its shape.
LEMMA Became ==
  ASSUME Types, NEW r \in Requests, NEW k, NEW a, NEW x, NEW l,
         Becomes(r, k, a, x, l), family' = family
  PROVE  /\ req' = [q \in Requests |-> [kind |-> req'[q].kind, at |-> req'[q].at, v |-> req'[q].v, loc |-> req'[q].loc]]
         /\ req'[r].kind = k /\ req'[r].at = a /\ req'[r].v = x /\ req'[r].loc = l
         /\ \A q \in Requests : q # r => req'[q] = req[q]
         /\ Shape(k, a, x, l) /\ k \in KindsOf(family) =>
              \A q \in Requests : /\ Shape(req'[q].kind, req'[q].at, req'[q].v, req'[q].loc)
                                  /\ req'[q].kind \in KindsOf(family')
<1>1. req'[r] = [kind |-> k, at |-> a, v |-> x, loc |-> l] /\ \A q \in Requests : q # r => req'[q] = req[q]
  BY DEF Becomes, Types, ReqTypes
<1>2. req' = [q \in Requests |-> req'[q]]
  BY DEF Becomes, Types, ReqTypes
<1>3. \A q \in Requests : req'[q] = [kind |-> req'[q].kind, at |-> req'[q].at, v |-> req'[q].v, loc |-> req'[q].loc]
  BY <1>1 DEF Types, ReqTypes
<1>4. \A q \in Requests : Shape(req[q].kind, req[q].at, req[q].v, req[q].loc) /\ req[q].kind \in KindsOf(family)
  BY DEF Types, ReqTypes
<1> QED
  BY <1>1, <1>2, <1>3, <1>4

\* The two together: where a request goes, and that the others stay.
Moved(r, kind, at, v, loc) ==
  /\ req' = [q \in Requests |-> [kind |-> req'[q].kind, at |-> req'[q].at, v |-> req'[q].v, loc |-> req'[q].loc]]
  /\ req'[r].kind = kind /\ req'[r].at = at /\ req'[r].v = v /\ req'[r].loc = loc
  /\ \A q \in Requests : q # r => req'[q] = req[q]
\* The request goes on with what it carries.
LEMMA GoMoves ==
  ASSUME Types, NEW r \in Requests, family' = family, NEW at, Go(r, at)
  PROVE  Moved(r, req[r].kind, at, req[r].v, req[r].loc)
BY Moves, Became DEF Moved
\* With another local value.
LEMMA GoWithMoves ==
  ASSUME Types, NEW r \in Requests, family' = family, NEW at, NEW x, GoWith(r, at, x)
  PROVE  Moved(r, req[r].kind, at, req[r].v, x)
BY Moves, Became DEF Moved
\* With another value.
LEMMA GoTakingMoves ==
  ASSUME Types, NEW r \in Requests, family' = family, NEW at, NEW x, GoTaking(r, at, x)
  PROVE  Moved(r, req[r].kind, at, x, req[r].loc)
BY Moves, Became DEF Moved
\* A request that ends is idle.
LEMMA EndMoves ==
  ASSUME Types, NEW r \in Requests, family' = family, End(r)
  PROVE  Moved(r, "none", "idle", None, None)
<1>1. Becomes(r, "none", "idle", None, None)
  BY Moves
<1> QED
  BY <1>1, Became DEF Moved
\* A request that arrives was idle.
LEMMA ArriveMoves ==
  ASSUME Types, NEW r \in Requests, family' = family,
         NEW fam, NEW kind, NEW at, NEW x, Arrive(r, fam, kind, at, x)
  PROVE  /\ Moved(r, kind, at, x, None)
         /\ family = fam /\ req[r].kind = "none"
         /\ made' \in [requests : Nat, crashes : Nat] /\ made'.crashes = made.crashes
<1>1. Moved(r, kind, at, x, None)
  BY Moves, Became DEF Moved
<1>2. family = fam /\ req[r].kind = "none"
  BY DEF Arrive, Idle
<1>3. made' \in [requests : Nat, crashes : Nat] /\ made'.crashes = made.crashes
  BY DEF Arrive, Types, DataTypes
<1> QED
  BY <1>1, <1>2, <1>3

\* A request that has moved is one of its family if it has the shape.
LEMMA MovedTyped ==
  ASSUME Types, NEW r \in Requests, family' = family,
         NEW k, NEW a, NEW x, NEW l, Moved(r, k, a, x, l),
         Shape(k, a, x, l), k \in KindsOf(family)
  PROVE  ReqTypes'
<1>1. \A q \in Requests : Shape(req[q].kind, req[q].at, req[q].v, req[q].loc) /\ req[q].kind \in KindsOf(family)
  BY DEF Types, ReqTypes
<1> QED
  BY <1>1 DEF Moved, ReqTypes

\* Where each kind of request comes in.
Arrived(r, fam, kind, at, x) ==
  family = fam /\ req[r].kind = "none" /\ Moved(r, kind, at, x, None)
\* Each action that lets a request in puts it there.
LEMMA Arrivals ==
  ASSUME Types, NEW r \in Requests
  PROVE  /\ Restore(r) => Arrived(r, "session", "load", "parse", None)
         /\ \A l \in Labels : UpdateLabel(r, l) => Arrived(r, "session", "label", "lock", l)
         /\ \A m \in Models : FirstSend(r, m) => Arrived(r, "session", "send", "first", m)
         /\ SendMessage(r) => Arrived(r, "session", "send", "ensure", None)
         /\ \A k \in EventKinds : CliEvent(r, k) =>
               Arrived(r, "tracker", k, IF sess.exists THEN "lock" ELSE "skip", Status(k))
         /\ CloseSession(r) => Arrived(r, "tracker", "close", "lock", None)
         /\ \A s \in Stored : OtherSession(r, s) =>
               Arrived(r, IF s = "tracker" THEN "tracker" ELSE "session", "other", "lock", s)
         /\ \A k \in ArchiveKinds, p \in Paths : ArchiveRequest(r, k, p) => Arrived(r, "archive", k, "load", p)
         /\ \A c \in Comments : AddComment(r, c) => Arrived(r, "reviews", "comment", "count", c)
         /\ \A c \in Comments : DeleteComment(r, c) => Arrived(r, "reviews", "delete", "count", c)
         /\ SendReview(r) => Arrived(r, "reviews", "review", "list", None)
<1>1. ASSUME Restore(r) PROVE Arrived(r, "session", "load", "parse", None)
  BY <1>1, ArriveMoves DEF Restore, Arrived
<1>2. ASSUME NEW l \in Labels, UpdateLabel(r, l) PROVE Arrived(r, "session", "label", "lock", l)
  BY <1>2, ArriveMoves DEF UpdateLabel, Arrived
<1>3. ASSUME NEW m \in Models, FirstSend(r, m) PROVE Arrived(r, "session", "send", "first", m)
  BY <1>3, ArriveMoves DEF FirstSend, Arrived
<1>4. ASSUME SendMessage(r) PROVE Arrived(r, "session", "send", "ensure", None)
  BY <1>4, ArriveMoves DEF SendMessage, Arrived
<1>5. ASSUME NEW k \in EventKinds, CliEvent(r, k)
      PROVE  Arrived(r, "tracker", k, IF sess.exists THEN "lock" ELSE "skip", Status(k))
  <2>1. family' = family /\ Arrive(r, "tracker", k, IF sess.exists THEN "lock" ELSE "skip", Status(k))
    BY <1>5 DEF CliEvent
  <2> QED
    BY <2>1, ArriveMoves DEF Arrived
<1>6. ASSUME NEW s \in Stored, OtherSession(r, s)
      PROVE  Arrived(r, IF s = "tracker" THEN "tracker" ELSE "session", "other", "lock", s)
  BY <1>6, ArriveMoves DEF OtherSession, Arrived
<1>7. /\ \A k \in ArchiveKinds, p \in Paths : ArchiveRequest(r, k, p) => Arrived(r, "archive", k, "load", p)
      /\ \A c \in Comments : AddComment(r, c) => Arrived(r, "reviews", "comment", "count", c)
      /\ \A c \in Comments : DeleteComment(r, c) => Arrived(r, "reviews", "delete", "count", c)
      /\ SendReview(r) => Arrived(r, "reviews", "review", "list", None)
      /\ CloseSession(r) => Arrived(r, "tracker", "close", "lock", None)
  BY ArriveMoves DEF ArchiveRequest, AddComment, DeleteComment, SendReview, CloseSession, Arrived
<1> QED
  BY <1>1, <1>2, <1>3, <1>4, <1>5, <1>6, <1>7

\* Where each kind of request goes on from what it does under no lock, and
\* where it ends.
LEMMA Ends ==
  ASSUME Types, NEW r \in Requests
  PROVE  LoadSession(r) \/ LabelSaved(r) \/ Start(r) \/ OtherSaved(r) \/ Skip(r) \/ KillCli(r)
           \/ ArchiveWrite(r) \/ BroadcastBar(r) => Moved(r, "none", "idle", None, None)
BY EndMoves DEF LoadSession, LabelSaved, Start, OtherSaved, Skip, KillCli, ArchiveWrite, BroadcastBar

\* Where a request of a session goes on.
LEMMA SessionMoves ==
  ASSUME Types, NEW r \in Requests
  PROVE  /\ SetOther(r) => Moved(r, "other", "save", req[r].v, None)
         /\ SetLabel(r) => Moved(r, "label", "save", req[r].v, None)
         /\ EnsureProcess(r) =>
              \/ Moved(r, "none", "idle", None, None)
              \/ sess.command # None /\ Moved(r, "send", "spawn", sess.command, None)
         /\ Record(r) => /\ req[r].v \in Models
                         /\ IF mem["models"] # None
                           THEN \E at \in {"adopt", "start"} : Moved(r, "send", at, mem["models"], None)
                           ELSE /\ mem'["models"] = req[r].v
                                /\ \E at \in {"save first", "save"} : Moved(r, "send", at, req[r].v, None)
         /\ Recorded(r) => \E at \in {"adopt", "start"} : Moved(r, "send", at, req[r].v, None)
         /\ Adopt(r) => Moved(r, "send", "ensure", req[r].v, None)
<1>1. /\ SetOther(r) => Moved(r, "other", "save", req[r].v, None)
      /\ SetLabel(r) => Moved(r, "label", "save", req[r].v, None)
      /\ Adopt(r) => Moved(r, "send", "ensure", req[r].v, None)
  BY GoMoves DEF SetOther, SetLabel, Adopt, At, Types, ReqTypes, Shape
<1>2. Recorded(r) => \E at \in {"adopt", "start"} : Moved(r, "send", at, req[r].v, None)
  BY GoMoves DEF Recorded, Types, ReqTypes, Shape
<1>3. ASSUME EnsureProcess(r)
      PROVE  \/ Moved(r, "none", "idle", None, None)
             \/ sess.command # None /\ Moved(r, "send", "spawn", sess.command, None)
  <2>1. /\ family' = family /\ req[r].kind = "send" /\ req[r].loc = None
        /\ End(r) \/ (sess.command # None /\ GoTaking(r, "spawn", sess.command))
    BY <1>3 DEF EnsureProcess, At, Types, ReqTypes, Shape
  <2> QED
    BY <2>1, EndMoves, GoTakingMoves
<1>4. ASSUME Record(r)
      PROVE  /\ req[r].v \in Models
             /\ IF mem["models"] # None
                THEN \E at \in {"adopt", "start"} : Moved(r, "send", at, mem["models"], None)
                ELSE /\ mem'["models"] = req[r].v
                     /\ \E at \in {"save first", "save"} : Moved(r, "send", at, req[r].v, None)
  <2>1. /\ family' = family /\ req[r].kind = "send" /\ req[r].loc = None /\ req[r].v \in Models
    BY <1>4 DEF Record, Types, ReqTypes, Shape
  <2>2. CASE mem["models"] # None
    <3>1. \E at \in {"adopt", "start"} : GoTaking(r, at, mem["models"])
      BY <1>4, <2>2 DEF Record, GetOrSet
    <3> QED
      BY <2>1, <2>2, <3>1, GoTakingMoves
  <2>3. CASE mem["models"] = None
    <3>1. mem'["models"] = req[r].v /\ \E at \in {"save first", "save"} : Go(r, at)
      BY <1>4, <2>3 DEF Record, GetOrSet, Save, Types, DataTypes, Stored
    <3> QED
      BY <2>1, <2>3, <3>1, GoMoves
  <2> QED
    BY <2>1, <2>2, <2>3
<1> QED
  BY <1>1, <1>2, <1>3, <1>4

\* Where the others go on.
LEMMA OtherMoves ==
  ASSUME Types, NEW r \in Requests
  PROVE  /\ Track(r) => Moved(r, req[r].kind, "save", req[r].v, None)
         /\ Tracked(r) => IF req[r].kind = "close" THEN Moved(r, "close", "remove", None, None)
                          ELSE Moved(r, "none", "idle", None, None)
         /\ CloseEntry(r) => IF mem["tracker"] = None THEN Moved(r, "close", "remove", None, None)
                             ELSE Moved(r, "close", "save", None, None)
         /\ RemoveSession(r) => Moved(r, "close", "kill", None, None)
         /\ ArchiveLoad(r) => IF req[r].kind = "unarchive" /\ Load(archive) = None
                              THEN Moved(r, "none", "idle", None, None)
                              ELSE Moved(r, req[r].kind, "truncate", req[r].v, Updated(r, Load(archive)))
         /\ ArchiveTruncate(r) => Moved(r, req[r].kind, "write", req[r].v, req[r].loc)
         /\ Count(r) => Moved(r, req[r].kind, "bar", req[r].v, Cardinality(comments))
         /\ FormatReview(r) => IF comments = {} THEN Moved(r, "none", "idle", None, None)
                               ELSE Moved(r, "review", "clear", None, comments)
         /\ ClearReview(r) => Moved(r, "review", "send", None, req[r].loc)
         /\ DeliverReview(r) => Moved(r, "review", "bar", None, req[r].loc)
<1>1. /\ Track(r) => Moved(r, req[r].kind, "save", req[r].v, None)
      /\ RemoveSession(r) => Moved(r, "close", "kill", None, None)
  BY GoMoves DEF Track, Tracks, EventKinds, ArchiveKinds, RemoveSession, At, Types, ReqTypes, Shape
<1>2. Tracked(r) => IF req[r].kind = "close" THEN Moved(r, "close", "remove", None, None)
                    ELSE Moved(r, "none", "idle", None, None)
  BY GoMoves, EndMoves DEF Tracked, EventKinds, ArchiveKinds, Types, ReqTypes, Shape
<1>3. CloseEntry(r) => IF mem["tracker"] = None THEN Moved(r, "close", "remove", None, None)
                       ELSE Moved(r, "close", "save", None, None)
  BY GoMoves DEF CloseEntry, At, EventKinds, ArchiveKinds, Types, ReqTypes, Shape
<1>4. ArchiveLoad(r) => IF req[r].kind = "unarchive" /\ Load(archive) = None
                        THEN Moved(r, "none", "idle", None, None)
                        ELSE Moved(r, req[r].kind, "truncate", req[r].v, Updated(r, Load(archive)))
  BY GoWithMoves, EndMoves DEF ArchiveLoad
<1>5. /\ ArchiveTruncate(r) => Moved(r, req[r].kind, "write", req[r].v, req[r].loc)
      /\ Count(r) => Moved(r, req[r].kind, "bar", req[r].v, Cardinality(comments))
  BY GoMoves, GoWithMoves DEF ArchiveTruncate, Count
<1>6. /\ FormatReview(r) => IF comments = {} THEN Moved(r, "none", "idle", None, None)
                            ELSE Moved(r, "review", "clear", None, comments)
      /\ ClearReview(r) => Moved(r, "review", "send", None, req[r].loc)
      /\ DeliverReview(r) => Moved(r, "review", "bar", None, req[r].loc)
  BY GoMoves, GoWithMoves, EndMoves DEF FormatReview, ClearReview, DeliverReview, At, EventKinds, ArchiveKinds,
     Types, ReqTypes, Shape
<1> QED
  BY <1>1, <1>2, <1>3, <1>4, <1>5, <1>6

-----------------------------------------------------------------------------
(* Types.                                                                  *)

\* A step of a request keeps the shape of the requests.
LEMMA RequestsTyped ==
  ASSUME Types, NEW r \in Requests, Other(r) \/ Session(r) \/ Landing(r) \/ Archive(r) \/ Review(r)
  PROVE  ReqTypes'
<1> DEFINE Of(k) == k \in KindsOf(family)
<1>1. family' = family
  BY Frames
<1>2. Shape("none", "idle", None, None) /\ "none" \in KindsOf(family)
  BY DEF Shape, KindsOf
<1>3. req[r].kind \in KindsOf(family) /\ Shape(req[r].kind, req[r].at, req[r].v, req[r].loc)
  BY DEF Types, ReqTypes
<1>4. ASSUME NEW fam, NEW k, NEW a, NEW x, Arrived(r, fam, k, a, x), k \in KindsOf(fam), Shape(k, a, x, None)
      PROVE  ReqTypes'
  BY <1>1, <1>4, MovedTyped DEF Arrived
<1>5. ASSUME NEW a, NEW x, NEW l, Moved(r, req[r].kind, a, x, l), Shape(req[r].kind, a, x, l)
      PROVE  ReqTypes'
  BY <1>1, <1>3, <1>5, MovedTyped
<1>6. ASSUME Moved(r, "none", "idle", None, None)
      PROVE  ReqTypes'
  BY <1>1, <1>2, <1>6, MovedTyped
<1>7. CASE Other(r)
  <2>1. ASSUME NEW s \in Stored, OtherSession(r, s) PROVE ReqTypes'
    <3>1. Shape("other", "lock", s, None) /\ "other" \in KindsOf(IF s = "tracker" THEN "tracker" ELSE "session")
      BY DEF Shape, KindsOf
    <3> QED
      BY <2>1, <3>1, <1>4, Arrivals
  <2>2. ASSUME SetOther(r) PROVE ReqTypes'
    <3>1. req[r].kind = "other" /\ Shape("other", "save", req[r].v, None)
      BY <2>2, <1>3 DEF SetOther, At, Shape, EventKinds, ArchiveKinds
    <3> QED
      BY <2>2, <3>1, <1>5, SessionMoves
  <2> QED
    BY <1>7, <2>1, <2>2, <1>6, Ends DEF Other
<1>8. CASE Session(r)
  <2>1. ASSUME Restore(r) \/ SendMessage(r) PROVE ReqTypes'
    <3>1. /\ Shape("load", "parse", None, None) /\ "load" \in KindsOf("session")
          /\ Shape("send", "ensure", None, None) /\ "send" \in KindsOf("session")
      BY DEF Shape, KindsOf
    <3> QED
      BY <2>1, <3>1, <1>4, Arrivals
  <2>2. ASSUME NEW l \in Labels, UpdateLabel(r, l) PROVE ReqTypes'
    <3>1. Shape("label", "lock", l, None) /\ "label" \in KindsOf("session")
      BY DEF Shape, KindsOf
    <3> QED
      BY <2>2, <3>1, <1>4, Arrivals
  <2>3. ASSUME NEW m \in Models, FirstSend(r, m) PROVE ReqTypes'
    <3>1. Shape("send", "first", m, None) /\ "send" \in KindsOf("session")
      BY DEF Shape, KindsOf
    <3> QED
      BY <2>3, <3>1, <1>4, Arrivals
  <2>4. ASSUME SetLabel(r) PROVE ReqTypes'
    <3>1. req[r].kind = "label" /\ Shape("label", "save", req[r].v, None)
      BY <2>4, <1>3 DEF SetLabel, At, Shape, EventKinds, ArchiveKinds
    <3> QED
      BY <2>4, <3>1, <1>5, SessionMoves
  <2>5. ASSUME EnsureProcess(r) PROVE ReqTypes'
    <3>1. req[r].kind = "send" /\ (sess.command # None => Shape("send", "spawn", sess.command, None))
      BY <2>5, <1>3 DEF EnsureProcess, At, Shape, Types, DataTypes
    <3> QED
      BY <2>5, <3>1, <1>5, <1>6, SessionMoves
  <2>6. ASSUME Record(r) \/ Recorded(r) \/ Adopt(r) PROVE ReqTypes'
    <3>1. req[r].kind = "send"
      BY <2>6 DEF Record, Recorded, Adopt, At
    <3>2. mem["models"] # None => mem["models"] \in Models
      BY DEF Types, DataTypes, Entries, Stored
    <3>3. \A at \in {"adopt", "start", "save", "save first"}, m \in Models :
            Shape("send", at, m, None) /\ Shape("send", "ensure", m, None)
      BY DEF Shape
    <3>4. Recorded(r) \/ Adopt(r) => req[r].v \in Models
      BY <1>3 DEF Recorded, Adopt, At, Shape, EventKinds, ArchiveKinds
    <3>5. CASE Record(r)
      BY <3>5, <3>1, <3>2, <3>3, <1>5, SessionMoves
    <3>6. CASE Recorded(r)
      BY <3>6, <3>1, <3>3, <3>4, <1>5, SessionMoves
    <3>7. CASE Adopt(r)
      <4>1. Shape("send", "ensure", req[r].v, None) /\ Moved(r, "send", "ensure", req[r].v, None)
        BY <3>7, <3>3, <3>4, SessionMoves
      <4> QED
        BY <3>1, <4>1, <1>5
    <3> QED
      BY <2>6, <3>5, <3>6, <3>7
  <2> QED
    BY <1>8, <2>1, <2>2, <2>3, <2>4, <2>5, <2>6, <1>6, Ends DEF Session
<1>9. CASE Landing(r)
  <2>1. ASSUME NEW k \in EventKinds, CliEvent(r, k) PROVE ReqTypes'
    <3>1. \A a \in {"lock", "skip"} : Shape(k, a, Status(k), None) /\ k \in KindsOf("tracker")
      BY DEF Shape, KindsOf
    <3> QED
      BY <2>1, <3>1, <1>4, Arrivals
  <2>2. ASSUME CloseSession(r) PROVE ReqTypes'
    <3>1. Shape("close", "lock", None, None) /\ "close" \in KindsOf("tracker")
      BY DEF Shape, KindsOf
    <3> QED
      BY <2>2, <3>1, <1>4, Arrivals
  <2>3. ASSUME Track(r) PROVE ReqTypes'
    <3>1. Shape(req[r].kind, "save", req[r].v, None)
      BY <2>3, <1>3 DEF Track, Tracks, Shape, EventKinds, ArchiveKinds
    <3> QED
      BY <2>3, <3>1, <1>5, OtherMoves
  <2>4. ASSUME Tracked(r) \/ CloseEntry(r) \/ RemoveSession(r) PROVE ReqTypes'
    <3>1. \A a \in {"save", "remove", "kill"} : Shape("close", a, None, None)
      BY DEF Shape
    <3>2. CloseEntry(r) \/ RemoveSession(r) => req[r].kind = "close"
      BY DEF CloseEntry, RemoveSession, At
    <3> QED
      BY <2>4, <3>1, <3>2, <1>5, <1>6, OtherMoves
  <2> QED
    BY <1>9, <2>1, <2>2, <2>3, <2>4, <1>6, Ends DEF Landing
<1>10. CASE Archive(r)
  <2>1. ASSUME NEW k \in ArchiveKinds, NEW p \in Paths, ArchiveRequest(r, k, p) PROVE ReqTypes'
    <3>1. Shape(k, "load", p, None) /\ k \in KindsOf("archive")
      BY DEF Shape, KindsOf
    <3> QED
      BY <2>1, <3>1, <1>4, Arrivals
  <2>2. ASSUME ArchiveLoad(r) PROVE ReqTypes'
    <3>1. req[r].kind \in ArchiveKinds /\ req[r].v \in Paths
      BY <2>2, <1>3 DEF ArchiveLoad, Shape, ArchiveKinds, EventKinds
    <3>2. ~ (req[r].kind = "unarchive" /\ Load(archive) = None) => Updated(r, Load(archive)) \in SUBSET Paths
      BY <3>1 DEF Load, Updated, Types, DataTypes, ArchiveKinds
    <3>3. ~ (req[r].kind = "unarchive" /\ Load(archive) = None) =>
            Shape(req[r].kind, "truncate", req[r].v, Updated(r, Load(archive)))
      BY <3>1, <3>2 DEF Shape
    <3> QED
      BY <2>2, <3>3, <1>5, <1>6, OtherMoves
  <2>3. ASSUME ArchiveTruncate(r) PROVE ReqTypes'
    <3>1. Shape(req[r].kind, "write", req[r].v, req[r].loc)
      BY <2>3, <1>3 DEF ArchiveTruncate, Shape, ArchiveKinds, EventKinds
    <3> QED
      BY <2>3, <3>1, <1>5, OtherMoves
  <2> QED
    BY <1>10, <2>1, <2>2, <2>3, <1>6, Ends DEF Archive
<1>11. CASE Review(r)
  <2>1. ASSUME NEW c \in Comments, AddComment(r, c) \/ DeleteComment(r, c) PROVE ReqTypes'
    <3>1. \A k \in {"comment", "delete"} : Shape(k, "count", c, None) /\ k \in KindsOf("reviews")
      BY DEF Shape, KindsOf, ReviewKinds
    <3> QED
      BY <2>1, <3>1, <1>4, Arrivals
  <2>2. ASSUME SendReview(r) PROVE ReqTypes'
    <3>1. Shape("review", "list", None, None) /\ "review" \in KindsOf("reviews")
      BY DEF Shape, KindsOf, ReviewKinds
    <3> QED
      BY <2>2, <3>1, <1>4, Arrivals
  <2>3. ASSUME Count(r) PROVE ReqTypes'
    <3>1. Cardinality(comments) \in 0 .. Cardinality(Comments)
      BY StoresAssumption, FS_Subset, FS_CardinalityType DEF Types, DataTypes
    <3>2. Shape(req[r].kind, "bar", req[r].v, Cardinality(comments))
      BY <2>3, <3>1, <1>3 DEF Count, Shape, ArchiveKinds, EventKinds
    <3> QED
      BY <2>3, <3>2, <1>5, OtherMoves
  <2>4. ASSUME FormatReview(r) PROVE ReqTypes'
    <3>1. req[r].kind = "review" /\ Shape("review", "clear", None, comments)
      BY <2>4 DEF FormatReview, At, Shape, Types, DataTypes
    <3> QED
      BY <2>4, <3>1, <1>5, <1>6, OtherMoves
  <2>5. ASSUME ClearReview(r) \/ DeliverReview(r) PROVE ReqTypes'
    <3>1. req[r].kind = "review" /\ \A a \in {"send", "bar"} : Shape("review", a, None, req[r].loc)
      BY <2>5, <1>3 DEF ClearReview, DeliverReview, At, Shape, ArchiveKinds, EventKinds
    <3> QED
      BY <2>5, <3>1, <1>5, OtherMoves
  <2> QED
    BY <1>11, <2>1, <2>2, <2>3, <2>4, <2>5, <1>6, Ends DEF Review
<1> QED
  BY <1>7, <1>8, <1>9, <1>10, <1>11

\* A save writes what the store of its name may hold, and Saved what it holds.
StoreTypes ==
  /\ mem \in [Stored -> {None, "running", "completed", "blocked"} \cup Labels \cup Models]
  /\ file \in [Stored -> {None, Torn, "running", "completed", "blocked"} \cup Labels \cup Models]
  /\ \A s \in Stored : mem[s] \in Entries(s)
  /\ lock \in [Stored -> Requests \cup {None}]
\* Neither leaves the types of the stores.
LEMMA SaveTyped ==
  ASSUME Types, NEW r \in Requests, NEW s \in Stored
  PROVE  /\ \A x \in Entries(s) : Save(r, s, x) => StoreTypes'
         /\ Saved(r, s) => StoreTypes'
<1>1. StoreTypes
  BY DEF Types, DataTypes, StoreTypes
<1>2. ASSUME NEW x \in Entries(s), Save(r, s, x) PROVE StoreTypes'
  <2>1. x \in {None, "running", "completed", "blocked"} \cup Labels \cup Models
    BY DEF Entries, Stored
  <2> QED
    BY <1>1, <1>2, <2>1 DEF Save, StoreTypes
<1>3. ASSUME Saved(r, s) PROVE StoreTypes'
  BY <1>1, <1>3 DEF Saved, StoreTypes
<1> QED
  BY <1>2, <1>3

\* A step of a request saves an entry its store may hold, or ends a save.
StoreStep(r) ==
  \/ UNCHANGED stores
  \/ \E s \in Stored : Saved(r, s) \/ \E x \in Entries(s) : Save(r, s, x)
\* Every step of a request is one of these for the stores.
LEMMA StoreSteps ==
  ASSUME Types, NEW r \in Requests, Other(r) \/ Session(r) \/ Landing(r) \/ Archive(r) \/ Review(r)
  PROVE  StoreStep(r)
<1>1. Shape(req[r].kind, req[r].at, req[r].v, req[r].loc)
  BY DEF Types, ReqTypes
<1>2. /\ \A s \in Stored : \A x \in Entries(s) : Save(r, s, x) => StoreStep(r)
      /\ \A s \in Stored : Saved(r, s) => StoreStep(r)
      /\ UNCHANGED stores => StoreStep(r)
  BY DEF StoreStep
<1>3. "labels" \in Stored /\ "models" \in Stored /\ "tracker" \in Stored
  BY DEF Stored
<1>4. CASE Other(r)
  <2>1. CASE SetOther(r)
    <3>1. req[r].v \in Stored /\ mem[req[r].v] \in Entries(req[r].v)
      BY <2>1, <1>1 DEF SetOther, At, Shape, ArchiveKinds, EventKinds, Types, DataTypes
    <3> QED
      BY <2>1, <3>1, <1>2 DEF SetOther
  <2>2. CASE OtherSaved(r)
    <3>1. req[r].v \in Stored
      BY <2>2, <1>1 DEF OtherSaved, At, Shape, ArchiveKinds, EventKinds
    <3> QED
      BY <2>2, <3>1, <1>2 DEF OtherSaved
  <2> QED
    BY <1>4, <2>1, <2>2, <1>2 DEF Other, OtherSession
<1>5. CASE Session(r)
  <2>1. CASE SetLabel(r)
    <3>1. req[r].v \in Entries("labels") /\ Save(r, "labels", req[r].v)
      BY <2>1, <1>1 DEF SetLabel, At, Shape, ArchiveKinds, EventKinds, Entries
    <3> QED
      BY <3>1, <1>2, <1>3
  <2>2. CASE Record(r)
    <3>1. req[r].v \in Entries("models")
      BY <2>2, SessionMoves DEF Entries
    <3>2. Save(r, "models", req[r].v) \/ UNCHANGED stores
      BY <2>2 DEF Record, GetOrSet
    <3> QED
      BY <3>1, <3>2, <1>2, <1>3
  <2>3. CASE LabelSaved(r) \/ Recorded(r)
    BY <2>3, <1>2, <1>3 DEF LabelSaved, Recorded
  <2> QED
    BY <1>5, <2>1, <2>2, <2>3, <1>2
       DEF Session, Restore, LoadSession, UpdateLabel, FirstSend, SendMessage, EnsureProcess, Adopt, Start
<1>6. CASE Landing(r)
  <2>1. CASE Track(r)
    <3>1. req[r].v \in Entries("tracker") /\ Save(r, "tracker", req[r].v)
      BY <2>1, <1>1 DEF Track, Tracks, Shape, ArchiveKinds, EventKinds, Entries, Status
    <3> QED
      BY <3>1, <1>2, <1>3
  <2>2. CASE Tracked(r)
    BY <2>2, <1>2, <1>3 DEF Tracked
  <2>3. CASE CloseEntry(r)
    <3>1. None \in Entries("tracker")
      BY DEF Entries
    <3> QED
      BY <2>3, <3>1, <1>2, <1>3 DEF CloseEntry
  <2> QED
    BY <1>6, <2>1, <2>2, <2>3, <1>2 DEF Landing, CliEvent, Skip, CloseSession, RemoveSession, KillCli
<1>7. CASE Archive(r) \/ Review(r)
  BY <1>7, <1>2, Frames
<1> QED
  BY <1>4, <1>5, <1>6, <1>7

\* And those of the rest.
LEMMA DataTyped ==
  ASSUME Types, NEW r \in Requests, Other(r) \/ Session(r) \/ Landing(r) \/ Archive(r) \/ Review(r)
  PROVE  DataTypes'
<1>1. Shape(req[r].kind, req[r].at, req[r].v, req[r].loc)
  BY DEF Types, ReqTypes
<1>2. StoreTypes'
  <2>1. CASE UNCHANGED stores
    BY <2>1 DEF stores, StoreTypes, Types, DataTypes
  <2>2. CASE \E s \in Stored : Saved(r, s) \/ \E x \in Entries(s) : Save(r, s, x)
    BY <2>2, SaveTyped
  <2> QED
    BY <2>1, <2>2, StoreSteps DEF StoreStep
<1>3. made' \in [requests : Nat, crashes : Nat]
  <2>1. made \in [requests : Nat, crashes : Nat] /\ (made' = made \/ made' = [made EXCEPT !.requests = @ + 1])
    <3>1. CASE Other(r) \/ Session(r)
      BY <3>1 DEF Other, OtherSession, SetOther, OtherSaved, Session, Restore, LoadSession, UpdateLabel, SetLabel,
         LabelSaved, FirstSend, SendMessage, EnsureProcess, Record, Recorded, Adopt, Start, history, Arrive, Types, DataTypes
    <3>2. CASE Landing(r) \/ Archive(r) \/ Review(r)
      BY <3>2 DEF Landing, CliEvent, Track, Tracked, Skip, CloseSession, CloseEntry, RemoveSession, KillCli,
         Archive, ArchiveRequest, ArchiveLoad, ArchiveTruncate, ArchiveWrite, Review, AddComment, DeleteComment,
         Count, BroadcastBar, SendReview, FormatReview, ClearReview, DeliverReview, history, Arrive, Types, DataTypes
    <3> QED
      BY <3>1, <3>2
  <2> QED
    BY <2>1
<1>4. sess' \in [exists : BOOLEAN, label : Labels \cup {None}, command : Models \cup {None}, up : BOOLEAN]
  <2> USE DEF Types, DataTypes
  <2>1. CASE LoadSession(r)
    <3>1. mem["labels"] \in Labels \cup {None} /\ mem["models"] \in Models \cup {None}
      BY DEF Entries, Stored
    <3>2. Cardinality(Models) = 1 => (CHOOSE m \in Models : TRUE) \in Models
      <4>1. Cardinality(Models) = 1 => \E m \in Models : TRUE
        <5>1. Cardinality({}) = 0 /\ (Models # {} => \E m \in Models : TRUE)
          BY FS_EmptySet
        <5> QED
          BY <5>1
      <4> QED
        BY <4>1
    <3> QED
      BY <2>1, <3>1, <3>2 DEF LoadSession
  <2>2. CASE \E l \in Labels : UpdateLabel(r, l)
    BY <2>2 DEF UpdateLabel
  <2>3. CASE Adopt(r) \/ Start(r)
    <3>1. req[r].v \in Models
      BY <2>3, <1>1 DEF Adopt, Start, At, Shape, ArchiveKinds, EventKinds
    <3> QED
      BY <2>3, <3>1 DEF Adopt, Start
  <2>4. CASE RemoveSession(r)
    BY <2>4 DEF RemoveSession, NoSession
  <2>5. CASE UNCHANGED sess
    BY <2>5
  <2>6. Session(r) => \/ LoadSession(r) \/ Adopt(r) \/ Start(r) \/ UNCHANGED sess
                      \/ \E l \in Labels : UpdateLabel(r, l)
    BY DEF Session, Restore, SetLabel, LabelSaved, FirstSend, SendMessage, EnsureProcess, Record, Recorded
  <2>7. Landing(r) => RemoveSession(r) \/ UNCHANGED sess
    BY DEF Landing, CliEvent, Track, Tracked, Skip, CloseSession, CloseEntry, KillCli
  <2> QED
    BY <2>1, <2>2, <2>3, <2>4, <2>5, <2>6, <2>7, Frames
<1>5. archive' \in {None, Torn} \cup SUBSET Paths
  <2>1. CASE Archive(r)
    <3>1. ArchiveWrite(r) => req[r].loc \in SUBSET Paths
      BY <1>1 DEF ArchiveWrite, Shape, ArchiveKinds, EventKinds
    <3>2. archive' \in {archive, Torn, req[r].loc} /\ (archive' \in {archive, Torn} \/ ArchiveWrite(r))
      BY <2>1 DEF Archive, ArchiveRequest, ArchiveLoad, ArchiveTruncate, ArchiveWrite
    <3> QED
      BY <3>1, <3>2 DEF Types, DataTypes
  <2> QED
    BY <2>1, Frames DEF Types, DataTypes
<1>6. comments' \subseteq Comments /\ bar' \in 0 .. Cardinality(Comments) /\ sent' \in [Comments -> Nat]
  <2>1. CASE Review(r)
    <3>1. comments' \subseteq Comments
      BY <2>1 DEF Review, AddComment, DeleteComment, Count, BroadcastBar, SendReview, FormatReview, ClearReview,
         DeliverReview, reviews, Types, DataTypes
    <3>2. CASE BroadcastBar(r)
      <4>1. req[r].kind = "review" \/ req[r].loc \in 0 .. Cardinality(Comments)
        BY <3>2, <1>1 DEF BroadcastBar, Shape, ArchiveKinds, EventKinds, ReviewKinds
      <4>2. 0 \in 0 .. Cardinality(Comments)
        BY StoresAssumption, FS_CardinalityType
      <4> QED
        BY <3>1, <3>2, <4>1, <4>2 DEF BroadcastBar, Types, DataTypes
    <3>3. CASE DeliverReview(r)
      <4>1. sent' = sent \/ sent' = [c \in Comments |-> IF c \in req[r].loc THEN sent[c] + 1 ELSE sent[c]]
        BY <3>3 DEF DeliverReview
      <4>2. \A c \in Comments : sent[c] \in Nat /\ sent[c] + 1 \in Nat
        BY DEF Types, DataTypes
      <4>3. [c \in Comments |-> IF c \in req[r].loc THEN sent[c] + 1 ELSE sent[c]] \in [Comments -> Nat]
        BY <4>2
      <4>4. bar' = bar
        BY <3>3 DEF DeliverReview
      <4> QED
        BY <3>1, <4>1, <4>3, <4>4 DEF Types, DataTypes
    <3>4. CASE UNCHANGED <<sent, bar>>
      BY <3>1, <3>4 DEF Types, DataTypes
    <3> QED
      BY <2>1, <3>2, <3>3, <3>4 DEF Review, AddComment, DeleteComment, Count, SendReview, FormatReview, ClearReview, reviews
  <2>2. CASE UNCHANGED reviews
    BY <2>2 DEF reviews, Types, DataTypes
  <2> QED
    BY <2>1, <2>2, Frames
<1>7. last' \in LastType
  <2> DEFINE Events == {None} \cup EventKinds
             Gone == SUBSET (Comments \cup {"closed", "killed", "orphan"})
  <2>1. last \in LastType
    BY DEF Types, DataTypes
  <2>2. /\ \A x \in Events : [last EXCEPT !.event = x] \in LastType
        /\ \A x \in SUBSET Paths : [last EXCEPT !.archive = x] \in LastType
        /\ \A x \in SUBSET Comments : [last EXCEPT !.added = x] \in LastType
        /\ \A x \in Gone : [last EXCEPT !.gone = x] \in LastType
    BY <2>1 DEF LastType
  <2>3. last.gone \in Gone /\ last.added \in SUBSET Comments
    BY <2>1 DEF LastType
  <2>4. CASE Session(r)
    <3>1. last' = last \/ last' = [last EXCEPT !.gone = last.gone \cup {"orphan"}]
      BY <2>4 DEF Session, Restore, LoadSession, UpdateLabel, SetLabel, LabelSaved, FirstSend, SendMessage,
         EnsureProcess, Record, Recorded, Adopt, Start, history
    <3> QED
      BY <2>1, <2>2, <2>3, <3>1
  <2>5. CASE Landing(r)
    <3>1. \/ last' = last \/ \E k \in EventKinds : last' = [last EXCEPT !.event = k]
          \/ \E x \in {"closed", "killed"} : last' = [last EXCEPT !.gone = last.gone \cup {x}]
      BY <2>5 DEF Landing, CliEvent, Track, Tracked, Skip, CloseSession, CloseEntry, RemoveSession, KillCli, history
    <3> QED
      BY <2>1, <2>2, <2>3, <3>1
  <2>6. CASE Archive(r)
    <3>1. (ArchiveLoad(r) \/ ArchiveWrite(r)) => Expected(r) \in SUBSET Paths
      BY <1>1, <2>1 DEF ArchiveLoad, ArchiveWrite, Expected, Shape, ArchiveKinds, EventKinds, LastType
    <3>2. last' = last \/ (last' = [last EXCEPT !.archive = Expected(r)] /\ (ArchiveLoad(r) \/ ArchiveWrite(r)))
      BY <2>6 DEF Archive, ArchiveRequest, ArchiveLoad, ArchiveTruncate, ArchiveWrite, history
    <3> QED
      BY <2>1, <2>2, <3>1, <3>2
  <2>7. CASE Review(r)
    <3>1. \/ last' = last
          \/ \E c \in Comments : \/ last' = [last EXCEPT !.added = last.added \cup {c}]
                                 \/ last' = [last EXCEPT !.gone = last.gone \cup {c}]
          \/ last' = [last EXCEPT !.gone = last.gone \cup (comments \ req[r].loc)]
      BY <2>7 DEF Review, AddComment, DeleteComment, Count, BroadcastBar, SendReview, FormatReview, ClearReview,
         DeliverReview, history
    <3>2. comments \subseteq Comments
      BY DEF Types, DataTypes
    <3> QED
      BY <2>1, <2>2, <2>3, <3>1, <3>2
  <2>8. CASE Other(r)
    BY <2>1, <2>8, Frames DEF history
  <2> QED
    BY <2>4, <2>5, <2>6, <2>7, <2>8
<1> QED
  BY <1>2, <1>3, <1>4, <1>5, <1>6, <1>7 DEF StoreTypes, DataTypes

\* Every step keeps the types.
LEMMA TypesInductive ==
  ASSUME Types, FilesAgree, [Next]_vars
  PROVE  Types'
<1>1. CASE \E r \in Requests : Other(r) \/ Session(r) \/ Landing(r) \/ Archive(r) \/ Review(r)
  BY <1>1, RequestsTyped, DataTyped DEF Types
<1>2. CASE CliDies
  <2>1. sess' \in [exists : BOOLEAN, label : Labels \cup {None}, command : Models \cup {None}, up : BOOLEAN]
    BY <1>2 DEF CliDies, Types, DataTypes
  <2> QED
    BY <1>2, <2>1 DEF CliDies, Types, DataTypes, ReqTypes, stores, reviews, history
<1>3. CASE Crash
  <2>1. \A s \in Stored : NewStores[s] \in Entries(s) /\ NewStores[s] \in {None, file[s]}
    BY DEF NewStores, FilesAgree, Types, DataTypes, Entries
  <2>2. \A s \in Stored : NewStores[s] \in {None, "running", "completed", "blocked"} \cup Labels \cup Models
    BY <2>1 DEF Entries, Stored
  <2>3. StoreTypes'
    BY <1>3, <2>1, <2>2 DEF Crash, StoreTypes, NewStores, Types, DataTypes
  <2>4. ReqTypes'
    <3>1. \A r \in Requests : req'[r] = Idle
      BY <1>3 DEF Crash
    <3>2. Shape("none", "idle", None, None) /\ "none" \in KindsOf(family)
      BY DEF Shape, KindsOf
    <3>3. family' = family /\ req' = [r \in Requests |-> Idle]
      BY <1>3 DEF Crash
    <3> QED
      BY <3>1, <3>2, <3>3 DEF ReqTypes, Idle
  <2>5. sess' \in [exists : BOOLEAN, label : Labels \cup {None}, command : Models \cup {None}, up : BOOLEAN]
    BY <1>3 DEF Crash, NoSession
  <2>6. 0 \in 0 .. Cardinality(Comments)
    BY StoresAssumption, FS_CardinalityType
  <2>7. made' \in [requests : Nat, crashes : Nat]
    <3>1. made' = [made EXCEPT !.crashes = made.crashes + 1]
      BY <1>3 DEF Crash
    <3>2. made \in [requests : Nat, crashes : Nat]
      BY DEF Types, DataTypes
    <3> QED
      BY <3>1, <3>2
  <2>8. UNCHANGED <<archive, sent, last>> /\ comments' = {} /\ bar' = 0
    BY <1>3 DEF Crash
  <2>9. archive' \in {None, Torn} \cup SUBSET Paths /\ sent' \in [Comments -> Nat] /\ last' \in LastType
    BY <2>8 DEF Types, DataTypes
  <2>10. comments' \subseteq Comments /\ bar' \in 0 .. Cardinality(Comments)
    BY <2>6, <2>8
  <2> QED
    BY <2>3, <2>4, <2>5, <2>7, <2>9, <2>10 DEF Types, DataTypes, StoreTypes
<1>4. CASE UNCHANGED vars
  BY <1>4 DEF vars, stores, reviews, history, Types, DataTypes, ReqTypes
<1> QED
  BY <1>1, <1>2, <1>3, <1>4 DEF Next

-----------------------------------------------------------------------------
(* Files and records.                                                      *)

\* Every step keeps a file and the memory of its store together.
LEMMA FilesInductive ==
  ASSUME Types, FilesAgree, [Next]_vars
  PROVE  FilesAgree'
<1>1. ASSUME NEW r \in Requests, NEW s \in Stored, NEW x, Save(r, s, x)
      PROVE  FilesAgree'
  BY <1>1, StoresAssumption DEF Save, FilesAgree, Types, DataTypes
<1>2. ASSUME NEW r \in Requests, NEW s \in Stored, Saved(r, s)
      PROVE  FilesAgree'
  BY <1>2, StoresAssumption DEF Saved, FilesAgree, Types, DataTypes
<1>3. CASE UNCHANGED stores
  BY <1>3 DEF stores, FilesAgree
<1>4. CASE Crash
  BY <1>4 DEF Crash, NewStores, FilesAgree
<1>5. CliDies \/ UNCHANGED vars => UNCHANGED stores
  BY DEF CliDies, vars
<1> QED
  BY <1>1, <1>2, <1>3, <1>4, <1>5, StoreSteps DEF StoreStep, Next

\* Which steps change what a store holds.
LEMMA MemSteps ==
  ASSUME Types, NEW r \in Requests, Other(r) \/ Session(r) \/ Landing(r) \/ Archive(r) \/ Review(r)
  PROVE  /\ mem'["labels"] = mem["labels"] \/ SetLabel(r)
         /\ mem'["models"] = mem["models"] \/ (Record(r) /\ mem["models"] = None)
         /\ mem'["tracker"] = mem["tracker"] \/ Track(r) \/ CloseEntry(r)
<1>1. "labels" \in Stored /\ "models" \in Stored /\ "tracker" \in Stored
  BY DEF Stored
<1>2. \A s \in Stored : \A x : Save(r, s, x) => mem'[s] = x /\ \A t \in Stored : t # s => mem'[t] = mem[t]
  BY DEF Save, Types, DataTypes
<1>3. CASE Other(r)
  BY <1>3, <1>2 DEF Other, OtherSession, SetOther, OtherSaved, Saved, stores, Save, Types, DataTypes
<1>4. CASE Session(r)
  <2>1. SetLabel(r) \/ Record(r) \/ mem' = mem
    BY <1>4 DEF Session, Restore, LoadSession, UpdateLabel, LabelSaved, FirstSend, SendMessage, EnsureProcess,
       Recorded, Adopt, Start, Saved, stores
  <2>2. SetLabel(r) => mem'["models"] = mem["models"] /\ mem'["tracker"] = mem["tracker"]
    BY <1>1, <1>2 DEF SetLabel
  <2>3. Record(r) => /\ mem'["labels"] = mem["labels"] /\ mem'["tracker"] = mem["tracker"]
                     /\ mem["models"] # None => mem'["models"] = mem["models"]
    BY <1>1, <1>2 DEF Record, GetOrSet, stores
  <2> QED
    BY <2>1, <2>2, <2>3
<1>5. CASE Landing(r)
  <2>1. Track(r) \/ CloseEntry(r) \/ mem' = mem
    BY <1>5 DEF Landing, CliEvent, Tracked, Skip, CloseSession, RemoveSession, KillCli, Saved, stores
  <2>2. Track(r) \/ CloseEntry(r) => mem'["models"] = mem["models"] /\ mem'["labels"] = mem["labels"]
    BY <1>1, <1>2 DEF Track, CloseEntry, stores
  <2> QED
    BY <2>1, <2>2
<1>6. CASE Archive(r) \/ Review(r)
  BY <1>6, Frames DEF stores
<1> QED
  BY <1>3, <1>4, <1>5, <1>6

\* An excuse stays one.
LEMMA ExcusesStay == [Next]_vars => excuse \subseteq excuse'
<1> SUFFICES ASSUME [Next]_vars PROVE excuse \subseteq excuse'
  OBVIOUS
<1> USE DEF history, Overlap
<1>1. ASSUME NEW r \in Requests, Session(r) PROVE excuse \subseteq excuse'
  BY <1>1 DEF Session, Restore, LoadSession, UpdateLabel, SetLabel, LabelSaved, FirstSend, SendMessage, EnsureProcess,
         Record, Recorded, Adopt, Start
<1>2. ASSUME NEW r \in Requests, Landing(r) PROVE excuse \subseteq excuse'
  BY <1>2 DEF Landing, CliEvent, Track, Tracked, Skip, CloseSession, CloseEntry, RemoveSession, KillCli
<1>3. ASSUME NEW r \in Requests, Archive(r) PROVE excuse \subseteq excuse'
  BY <1>3 DEF Archive, ArchiveRequest, ArchiveLoad, ArchiveTruncate, ArchiveWrite
<1>4. ASSUME NEW r \in Requests, Review(r) PROVE excuse \subseteq excuse'
  BY <1>4 DEF Review, AddComment, DeleteComment, Count, BroadcastBar, SendReview, FormatReview, ClearReview, DeliverReview
<1>5. CASE CliDies \/ Crash \/ UNCHANGED vars
  BY <1>5 DEF CliDies, Crash, vars
<1> QED
  BY <1>1, <1>2, <1>3, <1>4, <1>5, Frames DEF Next

\* A step of a request takes it from and to the kinds of its part of the server,
\* and no other request anywhere.
Within(r, kinds) ==
  /\ req[r].kind \in {"none"} \cup kinds /\ req'[r].kind \in {"none"} \cup kinds
  /\ \A q \in Requests : q # r => req'[q] = req[q]
\* Each family moves the kinds of its own.
LEMMA Steps ==
  ASSUME Types, NEW r \in Requests
  PROVE  /\ Other(r) => Within(r, {"other"})
         /\ Session(r) => Within(r, {"load", "label", "send"}) /\ family = "session"
         /\ Landing(r) => Within(r, {"close"} \cup EventKinds) /\ family = "tracker"
         /\ Archive(r) => Within(r, ArchiveKinds) /\ family = "archive"
         /\ Review(r) => Within(r, ReviewKinds) /\ family = "reviews"
<1>1. /\ req[r].kind \in {"load", "label", "send"} => family = "session"
      /\ req[r].kind \in {"close"} \cup EventKinds => family = "tracker"
      /\ req[r].kind \in ArchiveKinds => family = "archive"
      /\ req[r].kind \in ReviewKinds => family = "reviews"
  BY DEF Types, ReqTypes, KindsOf, EventKinds, ArchiveKinds, ReviewKinds
<1>2. ASSUME NEW k, NEW a, NEW x, NEW l, Moved(r, k, a, x, l)
      PROVE  req'[r].kind = k /\ \A q \in Requests : q # r => req'[q] = req[q]
  BY <1>2 DEF Moved
<1>3. ASSUME NEW fam, NEW k, NEW a, NEW x, Arrived(r, fam, k, a, x)
      PROVE  /\ req[r].kind = "none" /\ req'[r].kind = k /\ family = fam
             /\ \A q \in Requests : q # r => req'[q] = req[q]
  BY <1>2, <1>3 DEF Arrived
<1>4. ASSUME Other(r) PROVE Within(r, {"other"})
  <2>1. CASE \E s \in Stored : OtherSession(r, s)
    BY <2>1, <1>3, Arrivals DEF Within
  <2>2. CASE SetOther(r) \/ OtherSaved(r)
    <3>1. req[r].kind = "other"
      BY <2>2 DEF SetOther, OtherSaved, At
    <3> QED
      BY <2>2, <3>1, <1>2, SessionMoves, Ends DEF Within
  <2> QED
    BY <1>4, <2>1, <2>2 DEF Other
<1>5. ASSUME Session(r) PROVE Within(r, {"load", "label", "send"}) /\ family = "session"
  <2>1. CASE \/ Restore(r) \/ SendMessage(r) \/ \E l \in Labels : UpdateLabel(r, l)
             \/ \E m \in Models : FirstSend(r, m)
    BY <2>1, <1>3, Arrivals DEF Within
  <2>2. CASE LoadSession(r) \/ LabelSaved(r) \/ Start(r)
    <3>1. req[r].kind \in {"load", "label", "send"}
      BY <2>2 DEF LoadSession, LabelSaved, Start, At
    <3>2. Moved(r, "none", "idle", None, None)
      BY <2>2, Ends
    <3> QED
      BY <3>1, <3>2, <1>1, <1>2 DEF Within
  <2>3. CASE SetLabel(r) \/ EnsureProcess(r) \/ Record(r) \/ Recorded(r) \/ Adopt(r)
    <3>1. req[r].kind \in {"label", "send"}
      BY <2>3 DEF SetLabel, EnsureProcess, Record, Recorded, Adopt, At
    <3>2. \E k \in {"none", "label", "send"} : \E a, x : Moved(r, k, a, x, None)
      BY <2>3, SessionMoves
    <3> QED
      BY <3>1, <3>2, <1>1, <1>2 DEF Within
  <2> QED
    BY <1>5, <2>1, <2>2, <2>3 DEF Session
<1>6. ASSUME Landing(r) PROVE Within(r, {"close"} \cup EventKinds) /\ family = "tracker"
  <2>1. CASE CloseSession(r) \/ \E k \in EventKinds : CliEvent(r, k)
    BY <2>1, <1>3, Arrivals DEF Within
  <2>2. CASE Skip(r) \/ KillCli(r)
    <3>1. req[r].kind \in {"close"} \cup EventKinds
      BY <2>2 DEF Skip, KillCli, At, Types, ReqTypes, Shape
    <3>2. Moved(r, "none", "idle", None, None)
      BY <2>2, Ends
    <3> QED
      BY <3>1, <3>2, <1>1, <1>2 DEF Within
  <2>3. CASE Track(r) \/ Tracked(r) \/ CloseEntry(r) \/ RemoveSession(r)
    <3>1. req[r].kind \in {"close"} \cup EventKinds
      BY <2>3 DEF Track, Tracks, Tracked, CloseEntry, RemoveSession, At, EventKinds
    <3>2. \E k \in {"none", "close", req[r].kind} : \E a, x : Moved(r, k, a, x, None)
      BY <2>3, OtherMoves
    <3> QED
      BY <3>1, <3>2, <1>1, <1>2 DEF Within
  <2> QED
    BY <1>6, <2>1, <2>2, <2>3 DEF Landing
<1>7. ASSUME Archive(r) PROVE Within(r, ArchiveKinds) /\ family = "archive"
  <2>1. CASE \E k \in ArchiveKinds, p \in Paths : ArchiveRequest(r, k, p)
    BY <2>1, <1>3, Arrivals DEF Within
  <2>2. CASE ArchiveLoad(r) \/ ArchiveTruncate(r) \/ ArchiveWrite(r)
    <3>1. req[r].kind \in ArchiveKinds
      BY <2>2 DEF ArchiveLoad, ArchiveTruncate, ArchiveWrite
    <3>2. \E k \in {"none", req[r].kind} : \E a, x, l : Moved(r, k, a, x, l)
      BY <2>2, OtherMoves, Ends
    <3> QED
      BY <3>1, <3>2, <1>1, <1>2 DEF Within
  <2> QED
    BY <1>7, <2>1, <2>2 DEF Archive
<1>8. ASSUME Review(r) PROVE Within(r, ReviewKinds) /\ family = "reviews"
  <2>1. CASE SendReview(r) \/ \E c \in Comments : AddComment(r, c) \/ DeleteComment(r, c)
    BY <2>1, <1>3, Arrivals DEF Within, ReviewKinds
  <2>2. CASE Count(r) \/ FormatReview(r) \/ ClearReview(r) \/ DeliverReview(r) \/ BroadcastBar(r)
    <3>1. req[r].kind \in ReviewKinds
      BY <2>2 DEF Count, FormatReview, ClearReview, DeliverReview, BroadcastBar, At, ReviewKinds
    <3>2. \E k \in {"none", "review", req[r].kind} : \E a, x, l : Moved(r, k, a, x, l)
      BY <2>2, OtherMoves, Ends
    <3> QED
      BY <3>1, <3>2, <1>1, <1>2 DEF Within, ReviewKinds
  <2> QED
    BY <1>8, <2>1, <2>2 DEF Review
<1> QED
  BY <1>4, <1>5, <1>6, <1>7, <1>8

\* A send goes on from the record with what it holds.
LEMMA SendCarries ==
  ASSUME Types, RecordHolds, NEW r \in Requests,
         Other(r) \/ Session(r) \/ Landing(r) \/ Archive(r) \/ Review(r),
         req'[r].kind = "send", req'[r].at \in {"save", "save first", "adopt", "start"}
  PROVE  req'[r].v = mem'["models"]
<1>1. Session(r)
  BY Steps DEF Within, EventKinds, ArchiveKinds, ReviewKinds
<1>2. ASSUME NEW k, NEW a, NEW x, NEW l, Moved(r, k, a, x, l)
      PROVE  req'[r].kind = k /\ req'[r].at = a /\ req'[r].v = x
  BY <1>2 DEF Moved
<1>3. Record(r) \/ Recorded(r)
  <2>1. ~ (LoadSession(r) \/ LabelSaved(r) \/ Start(r))
    BY <1>2, Ends
  <2>2. ~ (SetLabel(r) \/ EnsureProcess(r) \/ Adopt(r))
    BY <1>2, SessionMoves
  <2>3. ~ (Restore(r) \/ SendMessage(r) \/ \E l \in Labels : UpdateLabel(r, l))
    BY <1>2, Arrivals DEF Arrived
  <2>4. ~ \E m \in Models : FirstSend(r, m)
    BY <1>2, Arrivals DEF Arrived
  <2> QED
    BY <1>1, <2>1, <2>2, <2>3, <2>4 DEF Session
<1>4. CASE Record(r)
  <2>1. CASE mem["models"] # None
    <3>1. \E at \in {"adopt", "start"} : Moved(r, "send", at, mem["models"], None)
      BY <1>4, <2>1, SessionMoves
    <3>2. mem'["models"] = mem["models"]
      BY <2>1, MemSteps
    <3> QED
      BY <3>1, <3>2, <1>2
  <2>2. CASE mem["models"] = None
    <3>1. mem'["models"] = req[r].v /\ \E at \in {"save first", "save"} : Moved(r, "send", at, req[r].v, None)
      BY <1>4, <2>2, SessionMoves
    <3> QED
      BY <3>1, <1>2
  <2> QED
    BY <2>1, <2>2
<1>5. CASE Recorded(r)
  <2>1. req[r].kind = "send" /\ req[r].at \in {"save", "save first"} /\ mem' = mem
    BY <1>5 DEF Recorded, Saved
  <2>2. \E at \in {"adopt", "start"} : Moved(r, "send", at, req[r].v, None)
    BY <1>5, SessionMoves
  <2> QED
    BY <2>1, <2>2, <1>2 DEF RecordHolds
<1> QED
  BY <1>3, <1>4, <1>5

\* RecordHolds is kept.
LEMMA RecordInductive ==
  ASSUME Types, FilesAgree, RecordHolds, [Next]_vars
  PROVE  RecordHolds'
<1> DEFINE Ats == {"save", "save first", "adopt", "start"}
<1>1. CASE \E r \in Requests : Other(r) \/ Session(r) \/ Landing(r) \/ Archive(r) \/ Review(r)
  <2>1. PICK r \in Requests : Other(r) \/ Session(r) \/ Landing(r) \/ Archive(r) \/ Review(r)
    BY <1>1
  <2>2. mem'["models"] = mem["models"] \/ (Record(r) /\ mem["models"] = None)
    BY <2>1, MemSteps
  <2>3. \A q \in Requests : q # r => req'[q] = req[q]
    BY <2>1, Steps DEF Within
  <2>4. \A q \in Requests : req[q].kind = "send" /\ req[q].at \in Ats => req[q].v = mem["models"] /\ req[q].v \in Models
    BY DEF RecordHolds, Types, ReqTypes, Shape, EventKinds, ArchiveKinds
  <2>5. ASSUME NEW q \in Requests, req'[q].kind = "send", req'[q].at \in Ats
        PROVE  req'[q].v = mem'["models"]
    <3>1. CASE q = r
      BY <2>1, <2>5, <3>1, SendCarries
    <3>2. CASE q # r
      BY <2>2, <2>3, <2>4, <2>5, <3>2, StoresAssumption
    <3> QED
      BY <3>1, <3>2
  <2>6. ASSUME "torn" \notin excuse'
        PROVE  ran' \subseteq {mem'["models"]} /\ (ran' # {} => mem'["models"] # None)
    <3>1. ran \subseteq {mem["models"]} /\ (ran # {} => mem["models"] # None)
      BY <2>6, ExcusesStay DEF RecordHolds
    <3>2. CASE Start(r)
      <4>1. ran' = ran \cup {req[r].v} /\ req[r].kind = "send" /\ req[r].at = "start" /\ mem' = mem
        BY <3>2 DEF Start, At, stores
      <4>2. req[r].v = mem["models"] /\ mem["models"] # None
        BY <4>1, <2>4, StoresAssumption
      <4> QED
        BY <3>1, <4>1, <4>2
    <3>3. CASE ran' = ran
      BY <3>1, <3>3, <2>2
    <3>4. Session(r) => ran' = ran \/ Start(r)
      BY DEF Session, Restore, LoadSession, UpdateLabel, SetLabel, LabelSaved, FirstSend, SendMessage, EnsureProcess,
             Record, Recorded, Adopt, history
    <3> QED
      BY <2>1, <3>2, <3>3, <3>4, Frames DEF history
  <2> QED
    BY <2>5, <2>6 DEF RecordHolds
<1>2. CASE Crash
  <2>1. \A r \in Requests : req'[r].kind = "none"
    BY <1>2 DEF Crash, Idle
  <2>2. ASSUME "torn" \notin excuse'
        PROVE  ran' \subseteq {mem'["models"]} /\ (ran' # {} => mem'["models"] # None)
    <3>1. "torn" \notin excuse /\ \A s \in Stored : file[s] # Torn
      BY <1>2, <2>2 DEF Crash
    <3>2. mem'["models"] = mem["models"] /\ ran' = ran
      BY <1>2, <3>1 DEF Crash, NewStores, FilesAgree, Stored
    <3> QED
      BY <3>1, <3>2 DEF RecordHolds
  <2> QED
    BY <2>1, <2>2 DEF RecordHolds
<1>3. CASE CliDies \/ UNCHANGED vars
  BY <1>3 DEF CliDies, vars, stores, history, RecordHolds
<1> QED
  BY <1>1, <1>2, <1>3 DEF Next

-----------------------------------------------------------------------------
(* Sessions.                                                               *)

\* In a behaviour about another part of the server no request is about a session,
\* and so for the other parts.
LEMMA Family ==
  ASSUME Types, NEW r \in Requests
  PROVE  /\ req[r].kind \in {"load", "label", "send"} => family = "session"
         /\ req[r].kind \in {"close"} \cup EventKinds => family = "tracker"
         /\ req[r].kind \in ArchiveKinds => family = "archive"
         /\ req[r].kind \in ReviewKinds => family = "reviews"
BY DEF Types, ReqTypes, KindsOf, EventKinds, ArchiveKinds, ReviewKinds

\* A CLI is out of its session only by a load that found one alive.
LEMMA Orphans ==
  ASSUME Types, [Next]_vars, "orphan" \in last'.gone
  PROVE  "orphan" \in last.gone \/ \E r \in Requests : LoadSession(r) /\ sess.up
<1>1. last \in LastType
  BY DEF Types, DataTypes
<1>2. \A x : [last EXCEPT !.gone = x].gone = x
  BY <1>1 DEF LastType
<1>3. \A x : [last EXCEPT !.event = x].gone = last.gone /\ [last EXCEPT !.archive = x].gone = last.gone
             /\ [last EXCEPT !.added = x].gone = last.gone
  BY <1>1 DEF LastType
<1>4. ASSUME NEW r \in Requests, Session(r)
      PROVE  last' = last \/ (LoadSession(r) /\ sess.up)
  BY <1>4 DEF Session, Restore, LoadSession, UpdateLabel, SetLabel, LabelSaved, FirstSend, SendMessage, EnsureProcess,
         Record, Recorded, Adopt, Start, history
<1>5. ASSUME NEW r \in Requests, Landing(r)
      PROVE  "orphan" \in last.gone
  <2>1. \/ last' = last \/ \E k : last' = [last EXCEPT !.event = k]
        \/ \E x \in {"closed", "killed"} : last' = [last EXCEPT !.gone = last.gone \cup {x}]
    BY <1>5 DEF Landing, CliEvent, Track, Tracked, Skip, CloseSession, CloseEntry, RemoveSession, KillCli, history
  <2>2. last'.gone = last.gone \/ \E x \in {"closed", "killed"} : last'.gone = last.gone \cup {x}
    BY <2>1, <1>2, <1>3
  <2> QED
    BY <2>2
<1>6. ASSUME NEW r \in Requests, Archive(r)
      PROVE  "orphan" \in last.gone
  <2>1. last' = last \/ \E x : last' = [last EXCEPT !.archive = x]
    BY <1>6 DEF Archive, ArchiveRequest, ArchiveLoad, ArchiveTruncate, ArchiveWrite, history
  <2> QED
    BY <2>1, <1>3
<1>7. ASSUME NEW r \in Requests, Review(r)
      PROVE  "orphan" \in last.gone
  <2>1. \/ last' = last \/ \E x : last' = [last EXCEPT !.added = x]
        \/ \E x \in SUBSET Comments : last' = [last EXCEPT !.gone = last.gone \cup x]
    <3>1. /\ \A c \in Comments : {c} \in SUBSET Comments
          /\ comments \ req[r].loc \in SUBSET Comments
      BY DEF Types, DataTypes
    <3>2. ClearReview(r) => last' = [last EXCEPT !.gone = last.gone \cup (comments \ req[r].loc)]
      BY DEF ClearReview
    <3>3. \A c \in Comments : DeleteComment(r, c) => last' = [last EXCEPT !.gone = last.gone \cup {c}]
      BY DEF DeleteComment
    <3>4. \/ last' = last \/ ClearReview(r) \/ \E c \in Comments : DeleteComment(r, c)
          \/ \E x : last' = [last EXCEPT !.added = x]
      BY <1>7 DEF Review, AddComment, Count, BroadcastBar, SendReview, FormatReview, DeliverReview, history
    <3> QED
      BY <3>1, <3>2, <3>3, <3>4
  <2> QED
    BY <2>1, <1>2, <1>3, StoresAssumption
<1>8. (\E r \in Requests : Other(r)) \/ CliDies \/ Crash \/ UNCHANGED vars => last' = last
  BY Frames DEF CliDies, Crash, vars, history
<1> QED
  BY <1>4, <1>5, <1>6, <1>7, <1>8 DEF Next

\* What a session's request says of the session stays true: a load ends with it
\* there, and while it is there none begins.
LEMMA LoadedInductive ==
  ASSUME Types, Types', LoadedOnce, [Next]_vars
  PROVE  LoadedOnce'
<1> DEFINE Quiet ==
             /\ sess'.exists = sess.exists /\ (sess'.up => sess.up \/ sess.exists)
             /\ \A q \in Requests : req'[q].kind = "load" => req[q].kind = "load"
             /\ \A q \in Requests : req'[q].kind \in {"label", "send"} =>
                  req[q].kind \in {"label", "send"} \/ sess.exists
<1>1. /\ sess \in [exists : BOOLEAN, label : Labels \cup {None}, command : Models \cup {None}, up : BOOLEAN]
      /\ sess.exists \in BOOLEAN /\ sess.up \in BOOLEAN /\ sess'.exists \in BOOLEAN /\ sess'.up \in BOOLEAN
  BY DEF Types, DataTypes
<1>2. excuse \subseteq excuse'
  BY ExcusesStay
<1>3. "orphan" \in last'.gone => "two loads" \in excuse'
  <2>1. ASSUME NEW r \in Requests, LoadSession(r), sess.up
        PROVE  "two loads" \in excuse
    BY <2>1 DEF LoadSession, At, LoadedOnce
  <2> QED
    BY <2>1, <1>2, Orphans DEF LoadedOnce
<1>4. ASSUME Quiet PROVE LoadedOnce'
  <2>1. sess'.up => sess'.exists
    BY <1>1, <1>4 DEF LoadedOnce
  <2>2. \A r \in Requests : req'[r].kind \in {"label", "send"} => sess'.exists
    BY <1>1, <1>4 DEF LoadedOnce
  <2>3. ASSUME "two loads" \notin excuse'
        PROVE  /\ \A r, q \in Requests : req'[r].kind = "load" /\ req'[q].kind = "load" => r = q
               /\ \A r \in Requests : req'[r].kind = "load" => ~ sess'.exists
    BY <1>1, <1>2, <1>4, <2>3 DEF LoadedOnce
  <2> QED
    BY <1>3, <2>1, <2>2, <2>3 DEF LoadedOnce
<1>5. ASSUME NEW r \in Requests, Session(r)
      PROVE  LoadedOnce'
  <2>1. \A q \in Requests : q # r => req'[q] = req[q]
    BY <1>5, Steps DEF Within
  <2>2. ASSUME NEW k, NEW a, NEW x, NEW l, Moved(r, k, a, x, l)
        PROVE  req'[r].kind = k
    BY <2>2 DEF Moved
  <2>3. CASE Restore(r)
    <3>1. ~ sess.exists /\ sess' = sess /\ (Busy({"load"}) # {} => "two loads" \in excuse')
      BY <2>3 DEF Restore
    <3>2. req[r].kind = "none" /\ req'[r].kind = "load"
      BY <2>3, <2>2, Arrivals DEF Arrived
    <3>3. "two loads" \notin excuse' => \A q \in Requests : req[q].kind # "load"
      BY <3>1 DEF Busy
    <3> QED
      BY <1>2, <1>3, <2>1, <3>1, <3>2, <3>3 DEF LoadedOnce
  <2>4. CASE LoadSession(r)
    <3>1. sess'.exists = TRUE /\ excuse' = excuse /\ req[r].kind = "load"
      BY <2>4 DEF LoadSession, At
    <3>2. req'[r].kind = "none"
      BY <2>4, <2>2, Ends
    <3>3. "two loads" \notin excuse' => \A q \in Requests : req'[q].kind # "load"
      BY <2>1, <3>1, <3>2 DEF LoadedOnce
    <3> QED
      BY <1>3, <3>1, <3>3 DEF LoadedOnce
  <2>5. CASE \/ SendMessage(r) \/ \E l \in Labels : UpdateLabel(r, l)
             \/ \E m \in Models : FirstSend(r, m)
    <3>1. sess.exists /\ sess'.exists = sess.exists
      BY <2>5, <1>1 DEF SendMessage, UpdateLabel, FirstSend
    <3>2. req'[r].kind \in {"label", "send"}
      BY <2>5, <2>2, Arrivals DEF Arrived
    <3> QED
      BY <1>4, <2>1, <3>1, <3>2
  <2>6. CASE EnsureProcess(r) \/ SetLabel(r) \/ LabelSaved(r) \/ Record(r) \/ Recorded(r)
    <3>1. sess' = sess /\ req[r].kind \in {"label", "send"}
      BY <2>6 DEF EnsureProcess, SetLabel, LabelSaved, Record, Recorded, At
    <3>2. req'[r].kind # "load"
      <4>1. \E k \in {"none", "label", "send"} : \E a, x, l : Moved(r, k, a, x, l)
        BY <2>6, SessionMoves, Ends
      <4> QED
        BY <4>1, <2>2
    <3> QED
      BY <1>4, <2>1, <3>1, <3>2
  <2>7. CASE Adopt(r) \/ Start(r)
    <3>1. req[r].kind = "send" /\ sess'.exists = sess.exists
      BY <2>7, <1>1 DEF Adopt, Start, At
    <3>2. req'[r].kind # "load"
      BY <2>7, <2>2, SessionMoves, Ends
    <3>3. sess.exists
      BY <3>1 DEF LoadedOnce
    <3> QED
      BY <1>4, <2>1, <3>1, <3>2, <3>3
  <2> QED
    BY <1>5, <2>3, <2>4, <2>5, <2>6, <2>7 DEF Session
<1>6. ASSUME NEW r \in Requests, Other(r) \/ Archive(r) \/ Review(r)
      PROVE  LoadedOnce'
  <2>1. \A q \in Requests : req'[q].kind \in {"load", "label", "send"} => req'[q] = req[q]
    BY <1>6, Steps DEF Within, ArchiveKinds, ReviewKinds
  <2>2. sess' = sess
    BY <1>6, Frames
  <2> QED
    BY <1>4, <2>1, <2>2
<1>7. ASSUME NEW r \in Requests, Landing(r)
      PROVE  LoadedOnce'
  <2>1. \A q \in Requests : req[q].kind \notin {"load", "label", "send"}
    BY <1>7, Steps, Family
  <2>2. \A q \in Requests : req'[q].kind \notin {"load", "label", "send"}
    BY <1>7, <2>1, Steps DEF Within, EventKinds
  <2>3. sess'.up => sess'.exists
    <3>1. sess' = NoSession \/ sess' = sess
      BY <1>7 DEF Landing, CliEvent, Track, Tracked, Skip, CloseSession, CloseEntry, RemoveSession, KillCli
    <3>2. NoSession.up = FALSE
      BY DEF NoSession
    <3> QED
      BY <3>1, <3>2, <1>1 DEF LoadedOnce
  <2> QED
    BY <1>3, <2>2, <2>3 DEF LoadedOnce
<1>8. CASE CliDies
  BY <1>1, <1>4, <1>8 DEF CliDies
<1>9. CASE Crash
  BY <1>3, <1>9 DEF Crash, Idle, NoSession, LoadedOnce
<1>10. CASE UNCHANGED vars
  BY <1>4, <1>10 DEF vars
<1> QED
  BY <1>5, <1>6, <1>7, <1>8, <1>9, <1>10 DEF Next

\* While no edits of the label overlap the session has the label that is edited,
\* or the one that is stored.
LEMMA LabelsInductive ==
  ASSUME Types, Types', LabelsAgree, LoadedOnce, LoadedOnce', FilesAgree, [Next]_vars
  PROVE  LabelsAgree'
<1> SUFFICES ASSUME "overlap" \notin excuse'
             PROVE  /\ \A r \in Requests : req'[r].kind = "label" =>
                         /\ sess'.label = req'[r].v /\ (req'[r].at = "save" => mem'["labels"] = req'[r].v)
                         /\ \A q \in Requests : req'[q].kind \in {"label", "load"} => q = r
                    /\ sess'.exists /\ (\A q \in Requests : req'[q].kind # "label") => sess'.label = mem'["labels"]
  BY DEF LabelsAgree, Busy
<1> DEFINE Edit(r, q) == req'[q].kind \in {"label", "load"} => q = r
<1>1. /\ sess.exists \in BOOLEAN /\ sess'.exists \in BOOLEAN
      /\ sess \in [exists : BOOLEAN, label : Labels \cup {None}, command : Models \cup {None}, up : BOOLEAN]
  BY DEF Types, DataTypes
<1>2. /\ \A r \in Requests : req[r].kind = "label" =>
           /\ sess.label = req[r].v /\ (req[r].at = "save" => mem["labels"] = req[r].v)
           /\ \A q \in Requests : req[q].kind \in {"label", "load"} => q = r
      /\ sess.exists /\ (\A q \in Requests : req[q].kind # "label") => sess.label = mem["labels"]
  <2>1. "overlap" \notin excuse
    BY ExcusesStay
  <2> QED
    BY <2>1 DEF LabelsAgree, Busy
\* Nothing about a label happens.
<1>3. ASSUME sess'.label = sess.label, sess'.exists => sess.exists, mem'["labels"] = mem["labels"],
             \A q \in Requests : /\ req'[q].kind \in {"label", "load"} => req'[q] = req[q]
                                 /\ req[q].kind = "label" => req'[q] = req[q]
      PROVE  LabelsAgree'
  BY <1>1, <1>2, <1>3 DEF LabelsAgree, Busy
<1>4. ASSUME NEW r \in Requests, Session(r)
      PROVE  LabelsAgree'
  <2>1. \A q \in Requests : q # r => req'[q] = req[q]
    BY <1>4, Steps DEF Within
  <2>2. ASSUME NEW k, NEW a, NEW x, NEW l, Moved(r, k, a, x, l)
        PROVE  req'[r].kind = k /\ req'[r].at = a /\ req'[r].v = x
    BY <2>2 DEF Moved
  <2>3. mem'["labels"] = mem["labels"] \/ SetLabel(r)
    BY <1>4, MemSteps
  <2>4. CASE Restore(r)
    <3>1. ~ sess.exists /\ sess' = sess /\ req'[r].kind = "load"
      BY <2>4, <2>2, Arrivals DEF Restore, Arrived
    <3>2. \A q \in Requests : req'[q].kind # "label"
      BY <2>1, <3>1 DEF LoadedOnce
    <3> QED
      BY <3>1, <3>2 DEF LabelsAgree
  <2>5. CASE LoadSession(r)
    <3>1. sess'.label = mem["labels"] /\ mem' = mem /\ req[r].kind = "load"
      BY <2>5 DEF LoadSession, At, stores
    <3>2. req'[r].kind = "none"
      BY <2>5, <2>2, Ends
    <3>3. \A q \in Requests : req'[q].kind # "label"
      BY <1>2, <2>1, <3>1, <3>2
    <3> QED
      BY <3>1, <3>3 DEF LabelsAgree, Busy
  <2>6. CASE \E l \in Labels : UpdateLabel(r, l)
    <3>1. PICK l \in Labels : UpdateLabel(r, l)
      BY <2>6
    <3>2. req'[r].kind = "label" /\ req'[r].at = "lock" /\ req'[r].v = l
      BY <3>1, <2>2, Arrivals DEF Arrived
    <3>3. sess'.label = l
      BY <3>1, <1>1 DEF UpdateLabel
    <3>4. \A q \in Requests : q # r => req'[q].kind \notin {"label", "load"}
      <4>1. Busy({"label", "load"}) = {}
        BY <3>1 DEF UpdateLabel, Overlap
      <4> QED
        BY <2>1, <4>1 DEF Busy
    <3> QED
      BY <3>2, <3>3, <3>4 DEF LabelsAgree, Busy
  <2>7. CASE SetLabel(r)
    <3>1. req[r].kind = "label" /\ sess' = sess
      BY <2>7 DEF SetLabel, At
    <3>2. req'[r].kind = "label" /\ req'[r].v = req[r].v
      BY <2>7, <2>2, SessionMoves
    <3>3. mem'["labels"] = req[r].v
      BY <2>7 DEF SetLabel, Save, Types, DataTypes, Stored
    <3> QED
      BY <1>2, <2>1, <3>1, <3>2, <3>3 DEF LabelsAgree, Busy
  <2>8. CASE LabelSaved(r)
    <3>1. req[r].kind = "label" /\ req[r].at = "save" /\ sess' = sess /\ mem' = mem
      BY <2>8 DEF LabelSaved, At, Saved
    <3>2. req'[r].kind = "none"
      BY <2>8, <2>2, Ends
    <3> QED
      BY <1>2, <2>1, <3>1, <3>2 DEF LabelsAgree, Busy
  <2>9. CASE \/ SendMessage(r) \/ EnsureProcess(r) \/ Record(r) \/ Recorded(r) \/ Adopt(r) \/ Start(r)
             \/ \E m \in Models : FirstSend(r, m)
    <3>1. sess'.label = sess.label /\ sess'.exists = sess.exists
      BY <2>9, <1>1 DEF SendMessage, EnsureProcess, Record, Recorded, Adopt, Start, FirstSend
    <3>2. req[r].kind \in {"none", "send"} /\ req'[r].kind \in {"none", "send"}
      <4>1. req[r].kind \in {"none", "send"}
        BY <2>9, Arrivals DEF Arrived, EnsureProcess, Record, Recorded, Adopt, Start, At
      <4>2. \E k \in {"none", "send"} : \E a, x, l : Moved(r, k, a, x, l)
        BY <2>9, SessionMoves, Ends, Arrivals DEF Arrived
      <4> QED
        BY <4>1, <4>2, <2>2
    <3>3. ~ SetLabel(r)
      BY <3>2 DEF SetLabel, At
    <3> QED
      BY <1>3, <2>1, <2>3, <3>1, <3>2, <3>3
  <2> QED
    BY <1>4, <2>4, <2>5, <2>6, <2>7, <2>8, <2>9 DEF Session
<1>5. ASSUME NEW r \in Requests, Other(r) \/ Archive(r) \/ Review(r) \/ Landing(r)
      PROVE  LabelsAgree'
  <2>1. \A q \in Requests : /\ req'[q].kind \in {"label", "load"} => req'[q] = req[q]
                            /\ req[q].kind = "label" => req'[q] = req[q]
    BY <1>5, Steps DEF Within, ArchiveKinds, ReviewKinds, EventKinds
  <2>2. mem'["labels"] = mem["labels"]
    <3>1. ~ SetLabel(r)
      BY <1>5, Steps DEF Within, ArchiveKinds, ReviewKinds, EventKinds, SetLabel, At
    <3> QED
      BY <1>5, <3>1, MemSteps
  <2>3. CASE RemoveSession(r)
    <3>1. ~ sess'.exists
      BY <2>3 DEF RemoveSession, NoSession
    <3>2. \A q \in Requests : req'[q].kind # "label"
      BY <3>1 DEF LoadedOnce
    <3> QED
      BY <3>1, <3>2 DEF LabelsAgree
  <2>4. CASE sess' = sess
    BY <1>3, <2>1, <2>2, <2>4
  <2>5. Landing(r) => RemoveSession(r) \/ sess' = sess
    BY DEF Landing, CliEvent, Track, Tracked, Skip, CloseSession, CloseEntry, KillCli
  <2> QED
    BY <1>5, <2>3, <2>4, <2>5, Frames
<1>6. ASSUME CliDies PROVE LabelsAgree'
  <2>1. sess'.label = sess.label /\ sess'.exists = sess.exists /\ req' = req /\ mem' = mem
    BY <1>1, <1>6 DEF CliDies, stores
  <2>2. sess'.exists => sess.exists
    BY <2>1
  <2>3. \A q \in Requests : req'[q] = req[q]
    BY <2>1
  <2> QED
    BY <1>3, <2>1, <2>2, <2>3
<1>7. ASSUME Crash PROVE LabelsAgree'
  <2>1. NoSession.exists = FALSE
    BY DEF NoSession
  <2>2. sess'.exists = FALSE /\ \A q \in Requests : req'[q].kind = "none"
    BY <1>7, <2>1 DEF Crash, Idle
  <2> QED
    BY <2>2 DEF LabelsAgree
<1>8. ASSUME UNCHANGED vars PROVE LabelsAgree'
  <2>1. sess' = sess /\ mem' = mem /\ req' = req
    BY <1>8 DEF vars, stores
  <2> QED
    BY <1>3, <2>1
<1>9. LabelsAgree'
  BY <1>4, <1>5, <1>6, <1>7, <1>8 DEF Next
<1> QED
  BY <1>9 DEF LabelsAgree, Busy

-----------------------------------------------------------------------------
(* The landing page.                                                       *)

\* An event that is not late is the only one on its way, and the last of the CLI.
LEMMA TrackedInductive ==
  ASSUME Types, Types', EventTracked, FilesAgree, [Next]_vars
  PROVE  EventTracked'
<1> DEFINE Closed == "closed" \in last.gone
           InFlight == "event in flight" \in excuse
<1>1. excuse \subseteq excuse' /\ (Excused => Excused')
  BY ExcusesStay DEF Excused
<1>2. /\ last \in LastType /\ "tracker" \in Stored /\ sess'.exists \in BOOLEAN /\ sess.exists \in BOOLEAN
  BY DEF Types, DataTypes, Stored
<1>3. \A x : /\ [last EXCEPT !.gone = x].gone = x /\ [last EXCEPT !.gone = x].event = last.event
             /\ [last EXCEPT !.event = x].gone = last.gone /\ [last EXCEPT !.event = x].event = x
  BY <1>2 DEF LastType
\* Nothing happens to an event, and no session is closed further.
<1>4. ASSUME family = "tracker", mem'["tracker"] = mem["tracker"], sess'.exists = sess.exists,
             "closed" \in last'.gone <=> "closed" \in last.gone, last'.event = last.event,
             \A q \in Requests : req'[q].kind \in {"close"} \cup EventKinds => req'[q] = req[q],
             \A q \in Requests : req[q].kind \in EventKinds => req'[q] = req[q]
      PROVE  EventTracked'
  <2>1. EventOnly => EventOnly'
    BY <1>2, <1>4 DEF EventOnly
  <2> QED
    BY <1>1, <1>4, <2>1 DEF EventTracked
<1>5. ASSUME NEW r \in Requests, Landing(r)
      PROVE  EventTracked'
  <2>1. family = "tracker" /\ \A q \in Requests : q # r => req'[q] = req[q]
    BY <1>5, Steps DEF Within
  <2>2. ASSUME NEW k, NEW a, NEW x, NEW l, Moved(r, k, a, x, l)
        PROVE  req'[r].kind = k /\ req'[r].at = a /\ req'[r].v = x
    BY <2>2 DEF Moved
  <2>3. Closed => mem["tracker"] = None \/ InFlight
    BY <2>1 DEF EventTracked
  <2>4. ~ Closed => Excused \/ EventOnly
    BY <2>1 DEF EventTracked
  <2>5. "close" \notin EventKinds /\ "none" \notin EventKinds /\ None \notin EventKinds
    BY StoresAssumption DEF EventKinds
  <2>6. CASE \E k \in EventKinds : CliEvent(r, k)
    <3>1. PICK k \in EventKinds : CliEvent(r, k)
      BY <2>6
    <3>2. last' = [last EXCEPT !.event = k] /\ mem' = mem /\ sess' = sess
      BY <3>1 DEF CliEvent, stores
    <3>3. last'.gone = last.gone /\ last'.event = k
      BY <3>2, <1>3
    <3>4. req'[r].kind = k /\ (sess.exists => req'[r].at = "lock")
      BY <3>1, <2>2, Arrivals DEF Arrived
    <3>5. ~ Excused' => \A q \in Requests : q # r => req'[q].kind \notin EventKinds
      <4>1. /\ k \in {"running", "done"} => Busy({"running", "done"}) = {}
            /\ Busy({"asked"}) # {} \/ (k = "asked" /\ Busy({"running", "done"}) # {}) => "asked late" \in excuse'
        BY <3>1 DEF CliEvent
      <4>2. ~ Excused' => Busy({"asked"}) = {} /\ Busy({"running", "done"}) = {}
        BY <4>1 DEF Excused, EventKinds
      <4> QED
        BY <4>2, <2>1 DEF Busy, EventKinds
    <3>6. ~ Excused' /\ EventOnly => EventOnly'
      BY <2>1, <2>5, <3>2, <3>3, <3>4, <3>5 DEF EventOnly
    <3> QED
      BY <1>1, <2>3, <2>4, <3>2, <3>3, <3>6 DEF EventTracked
  <2>7. CASE Track(r)
    <3>1. req[r].at = "lock" /\ req[r].kind \in EventKinds /\ req[r].v = Status(req[r].kind)
      BY <2>7 DEF Track, Tracks, Types, ReqTypes, Shape, ArchiveKinds, EventKinds
    <3>2. req'[r].kind = req[r].kind /\ req'[r].at = "save" /\ mem'["tracker"] = req[r].v
      <4>1. mem'["tracker"] = req[r].v
        BY <1>2, <2>7 DEF Track, Save, Types, DataTypes
      <4> QED
        BY <2>7, <2>2, <4>1, OtherMoves
    <3>3. last' = last /\ sess' = sess /\ (Closed => "event in flight" \in excuse')
      BY <2>7, <3>1 DEF Track
    <3>4. EventOnly => EventOnly'
      BY <2>1, <2>5, <3>1, <3>2, <3>3 DEF EventOnly
    <3> QED
      BY <1>1, <2>3, <2>4, <3>3, <3>4 DEF EventTracked
  <2>8. CASE Tracked(r)
    <3>1. /\ req[r].kind \in {"close"} \cup EventKinds /\ req[r].at = "save"
          /\ mem' = mem /\ last' = last /\ sess' = sess /\ excuse' = excuse
      BY <2>8 DEF Tracked, Saved, history, EventKinds
    <3>2. req[r].kind # "close" => req'[r].kind = "none"
      BY <2>8, <2>2, OtherMoves
    <3>3. EventOnly => EventOnly'
      <4>1. SUFFICES ASSUME EventOnly PROVE EventOnly'
        OBVIOUS
      <4>2. req[r].kind \in EventKinds /\ mem["tracker"] = Status(last.event) /\ last.event # None
        BY <2>5, <3>1, <4>1 DEF EventOnly
      <4>3. \A q \in Requests : req'[q].kind \notin EventKinds
        BY <2>1, <2>5, <3>2, <4>1, <4>2 DEF EventOnly
      <4>4. \A q \in Requests : req'[q].kind = "close" => req'[q].at = "lock"
        BY <2>1, <2>5, <3>2, <4>1, <4>2 DEF EventOnly
      <4> QED
        BY <3>1, <4>1, <4>2, <4>3, <4>4 DEF EventOnly
    <3> QED
      BY <1>1, <2>3, <2>4, <3>1, <3>3 DEF EventTracked
  <2>9. CASE Skip(r)
    <3>1. req[r].at = "skip" /\ req[r].kind \in EventKinds /\ mem' = mem /\ last' = last
      BY <2>9 DEF Skip, Types, ReqTypes, Shape, ArchiveKinds, stores, history
    <3>2. ~ EventOnly
      BY <3>1 DEF EventOnly
    <3> QED
      BY <1>1, <2>3, <2>4, <3>1, <3>2 DEF EventTracked
  <2>10. CASE CloseSession(r)
    <3>1. mem' = mem /\ last' = last /\ sess' = sess
      BY <2>10 DEF CloseSession, stores, history
    <3>2. req[r].kind = "none" /\ req'[r].kind = "close" /\ req'[r].at = "lock"
      BY <2>10, <2>2, Arrivals DEF Arrived
    <3>3. EventOnly => EventOnly'
      BY <2>1, <2>5, <3>1, <3>2 DEF EventOnly
    <3> QED
      BY <1>1, <2>3, <2>4, <3>1, <3>3 DEF EventTracked
  <2>11. CASE CloseEntry(r)
    <3>1. last' = [last EXCEPT !.gone = last.gone \cup {"closed"}]
      BY <2>11 DEF CloseEntry
    <3>2. "closed" \in last'.gone
      BY <3>1, <1>3
    <3>3. mem'["tracker"] = None
      BY <2>11, <1>2 DEF CloseEntry, Save, stores, Types, DataTypes
    <3> QED
      BY <3>2, <3>3 DEF EventTracked
  <2>12. CASE RemoveSession(r) \/ KillCli(r)
    <3>1. req[r].kind = "close" /\ req[r].at \in {"remove", "kill"} /\ mem' = mem
      BY <2>12 DEF RemoveSession, KillCli, At, stores
    <3>2. "closed" \in last'.gone <=> Closed
      <4>1. last' = last \/ last' = [last EXCEPT !.gone = last.gone \cup {"killed"}]
        BY <2>12 DEF RemoveSession, KillCli, history
      <4>2. last'.gone = last.gone \/ last'.gone = last.gone \cup {"killed"}
        BY <4>1, <1>3
      <4> QED
        BY <4>2
    <3>3. ~ EventOnly
      BY <3>1 DEF EventOnly
    <3> QED
      BY <1>1, <2>3, <2>4, <3>1, <3>2, <3>3 DEF EventTracked
  <2> QED
    BY <1>5, <2>6, <2>7, <2>8, <2>9, <2>10, <2>11, <2>12 DEF Landing
<1>6. ASSUME NEW r \in Requests, Other(r)
      PROVE  EventTracked'
  <2>1. UNCHANGED <<sess, last, family>>
    BY <1>6, Frames DEF history
  <2>2. Within(r, {"other"})
    BY <1>6, Steps
  <2>3. mem'["tracker"] = mem["tracker"]
    BY <1>6, <2>2, MemSteps DEF Within, Track, Tracks, CloseEntry, At, EventKinds
  <2>4. \A q \in Requests : req'[q].kind \in {"close"} \cup EventKinds => req'[q] = req[q]
    BY <2>2 DEF Within, EventKinds
  <2>5. \A q \in Requests : req[q].kind \in EventKinds => req'[q] = req[q]
    BY <2>2 DEF Within, EventKinds
  <2>6. CASE family = "tracker"
    BY <1>4, <2>1, <2>3, <2>4, <2>5, <2>6
  <2> QED
    BY <2>1, <2>6 DEF EventTracked
<1>7. ASSUME NEW r \in Requests, Session(r) \/ Archive(r) \/ Review(r)
      PROVE  EventTracked'
  <2>1. family # "tracker"
    BY <1>7, Steps
  <2> QED
    BY <1>7, <2>1, Frames DEF EventTracked
<1>8. ASSUME Crash PROVE EventTracked'
  <2>1. Excused' /\ last' = last /\ family' = family
    BY <1>8 DEF Crash, Excused
  <2>2. mem["tracker"] = None => mem'["tracker"] = None
    BY <1>2, <1>8 DEF Crash, NewStores, FilesAgree
  <2> QED
    BY <1>1, <2>1, <2>2 DEF EventTracked
<1>9. ASSUME CliDies PROVE EventTracked'
  BY <1>9 DEF CliDies, EventTracked
<1>10. ASSUME UNCHANGED vars PROVE EventTracked'
  BY <1>10 DEF vars, stores, history, EventTracked, EventOnly, Excused
<1> QED
  BY <1>5, <1>6, <1>7, <1>8, <1>9, <1>10 DEF Next

-----------------------------------------------------------------------------
(* The archive.                                                            *)

\* What each part of the server adds to the history.
LEMMA LastMoves ==
  ASSUME Types, NEW r \in Requests
  PROVE  /\ Other(r) => last' = last
         /\ Session(r) \/ Landing(r) \/ Review(r) => last'.archive = last.archive
         /\ Session(r) \/ Landing(r) \/ Archive(r) => last'.added = last.added
         /\ Session(r) \/ Landing(r) \/ Archive(r) \/ Review(r) => last.gone \subseteq last'.gone
<1>1. last \in LastType
  BY DEF Types, DataTypes
<1>2. \A x : /\ [last EXCEPT !.gone = x].gone = x /\ [last EXCEPT !.gone = x].added = last.added
             /\ [last EXCEPT !.gone = x].archive = last.archive
             /\ [last EXCEPT !.event = x].gone = last.gone /\ [last EXCEPT !.event = x].added = last.added
             /\ [last EXCEPT !.event = x].archive = last.archive
             /\ [last EXCEPT !.archive = x].gone = last.gone /\ [last EXCEPT !.archive = x].added = last.added
             /\ [last EXCEPT !.added = x].gone = last.gone /\ [last EXCEPT !.added = x].archive = last.archive
  BY <1>1 DEF LastType
<1>3. ASSUME NEW x, last' = [last EXCEPT !.gone = last.gone \cup x]
      PROVE  last'.archive = last.archive /\ last'.added = last.added /\ last.gone \subseteq last'.gone
  BY <1>2, <1>3
<1>4. ASSUME NEW x, last' = [last EXCEPT !.event = x]
      PROVE  last'.archive = last.archive /\ last'.added = last.added /\ last.gone \subseteq last'.gone
  BY <1>2, <1>4
<1>5. ASSUME NEW x, last' = [last EXCEPT !.archive = x]
       PROVE  last'.added = last.added /\ last.gone \subseteq last'.gone
  BY <1>2, <1>5
<1>6. ASSUME NEW x, last' = [last EXCEPT !.added = x]
       PROVE  last'.archive = last.archive /\ last.gone \subseteq last'.gone
  BY <1>2, <1>6
<1>7. Other(r) => last' = last
  BY Frames DEF history
<1>8. ASSUME Session(r)
      PROVE  last'.archive = last.archive /\ last'.added = last.added /\ last.gone \subseteq last'.gone
  <2>1. last' = last \/ last' = [last EXCEPT !.gone = last.gone \cup {"orphan"}]
    BY <1>8 DEF Session, Restore, LoadSession, UpdateLabel, SetLabel, LabelSaved, FirstSend, SendMessage, EnsureProcess,
       Record, Recorded, Adopt, Start, history
  <2> QED
    BY <2>1, <1>3
<1>9. ASSUME Landing(r)
      PROVE  last'.archive = last.archive /\ last'.added = last.added /\ last.gone \subseteq last'.gone
  <2>1. \/ last' = last \/ \E k : last' = [last EXCEPT !.event = k]
        \/ \E x : last' = [last EXCEPT !.gone = last.gone \cup x]
    BY <1>9 DEF Landing, CliEvent, Track, Tracked, Skip, CloseSession, CloseEntry, RemoveSession, KillCli, history
  <2> QED
    BY <2>1, <1>3, <1>4
<1>10. ASSUME Archive(r)
      PROVE  last'.added = last.added /\ last.gone \subseteq last'.gone
  <2>1. last' = last \/ \E x : last' = [last EXCEPT !.archive = x]
    BY <1>10 DEF Archive, ArchiveRequest, ArchiveLoad, ArchiveTruncate, ArchiveWrite, history
  <2> QED
    BY <2>1, <1>5
<1>11. ASSUME Review(r)
      PROVE  last'.archive = last.archive /\ last.gone \subseteq last'.gone
  <2>1. \/ last' = last \/ \E x : last' = [last EXCEPT !.added = x]
        \/ \E x : last' = [last EXCEPT !.gone = last.gone \cup x]
    BY <1>11 DEF Review, AddComment, DeleteComment, Count, BroadcastBar, SendReview, FormatReview, ClearReview,
       DeliverReview, history
  <2> QED
    BY <2>1, <1>3, <1>6
<1> QED
  BY <1>7, <1>8, <1>9, <1>10, <1>11

\* The archive is what was asked for, while requests do not overlap.
LEMMA ArchiveInductive ==
  ASSUME Types, Types', ArchiveAlone, [Next]_vars
  PROVE  ArchiveAlone'
<1> DEFINE Ok == excuse \cap {"overlap", "torn archive"} = {}
           Value == IF archive = None THEN {} ELSE archive
           Mine(q) == req[q].kind \in ArchiveKinds
<1> SUFFICES ASSUME Ok' PROVE ArchiveAlone'
  BY DEF ArchiveAlone
<1>1. Ok
  BY ExcusesStay
<1>2. /\ \A r, q \in Requests : Mine(r) /\ Mine(q) => r = q
      /\ (\A r \in Requests : Mine(r) => req[r].at # "write") => Value = last.archive
      /\ \A r \in Requests : Mine(r) /\ req[r].at \in {"truncate", "write"} => req[r].loc = Expected(r)
      /\ \A r \in Requests : Mine(r) /\ req[r].at = "write" => archive = Torn
  BY <1>1 DEF ArchiveAlone
<1>3. /\ archive \in {None, Torn} \cup SUBSET Paths /\ last.archive \in SUBSET Paths /\ None # Torn
      /\ None \notin SUBSET Paths /\ Torn \notin SUBSET Paths
  BY StoresAssumption DEF Types, DataTypes, LastType
<1>4. \A x : [last EXCEPT !.archive = x].archive = x
  BY DEF Types, DataTypes, LastType
\* Nothing is asked of the archive.
<1>5. ASSUME archive' = archive, last'.archive = last.archive,
             \A q \in Requests : req'[q].kind \in ArchiveKinds => req'[q] = req[q],
             \A q \in Requests : req[q].kind \in ArchiveKinds => req'[q] = req[q]
      PROVE  ArchiveAlone'
  BY <1>2, <1>5 DEF ArchiveAlone, Expected
<1>6. ASSUME NEW r \in Requests, Archive(r)
      PROVE  ArchiveAlone'
  <2>1. \A q \in Requests : q # r => req'[q] = req[q]
    BY <1>6, Steps DEF Within
  <2>2. ASSUME NEW k, NEW a, NEW x, NEW l, Moved(r, k, a, x, l)
        PROVE  req'[r].kind = k /\ req'[r].at = a /\ req'[r].v = x /\ req'[r].loc = l
    BY <2>2 DEF Moved
  <2>3. "none" \notin ArchiveKinds
    BY DEF ArchiveKinds
  <2>4. CASE \E k \in ArchiveKinds, p \in Paths : ArchiveRequest(r, k, p)
    <3>1. PICK k \in ArchiveKinds, p \in Paths : ArchiveRequest(r, k, p)
      BY <2>4
    <3>2. archive' = archive /\ last' = last /\ Busy(ArchiveKinds) = {}
      BY <3>1 DEF ArchiveRequest
    <3>3. \A q \in Requests : ~ Mine(q)
      BY <3>2 DEF Busy
    <3>4. req'[r].kind = k /\ req'[r].at = "load"
      BY <3>1, <2>2, Arrivals DEF Arrived
    <3> QED
      BY <1>2, <2>1, <3>2, <3>3, <3>4 DEF ArchiveAlone
  <2>5. CASE ArchiveLoad(r)
    <3>1. Mine(r) /\ req[r].at = "load" /\ archive' = archive /\ req[r].v \in Paths
      BY <2>5 DEF ArchiveLoad, Types, ReqTypes, Shape, ArchiveKinds, EventKinds
    <3>2. \A q \in Requests : Mine(q) => q = r
      BY <1>2, <3>1
    <3>3. Value = last.archive
      BY <1>2, <3>1, <3>2
    <3>4. archive # Torn
      BY <1>3, <3>3
    <3>5. CASE req[r].kind = "unarchive" /\ Load(archive) = None
      <4>1. archive = None /\ last.archive = {}
        BY <1>3, <3>3, <3>4, <3>5 DEF Load
      <4>2. last'.archive = Expected(r)
        BY <2>5, <3>5, <1>4 DEF ArchiveLoad
      <4>3. Expected(r) = {}
        BY <3>5, <4>1 DEF Expected
      <4>4. req'[r].kind = "none"
        BY <2>5, <3>5, <2>2, OtherMoves
      <4>5. \A q \in Requests : req'[q].kind \notin ArchiveKinds
        BY <2>1, <2>3, <3>2, <4>4
      <4>6. Value' = last'.archive
        BY <3>1, <4>1, <4>2, <4>3
      <4> QED
        BY <4>5, <4>6 DEF ArchiveAlone
    <3>6. CASE ~ (req[r].kind = "unarchive" /\ Load(archive) = None)
      <4>1. /\ req'[r].kind = req[r].kind /\ req'[r].at = "truncate" /\ req'[r].v = req[r].v
            /\ req'[r].loc = Updated(r, Load(archive)) /\ last' = last
        <5>1. last' = last
          BY <2>5, <3>6 DEF ArchiveLoad
        <5> QED
          BY <2>5, <3>6, <2>2, <5>1, OtherMoves
      <4>2. Updated(r, Load(archive)) = Expected(r)
        <5>1. CASE req[r].kind = "archive"
          BY <1>3, <3>3, <3>4, <5>1 DEF Updated, Load, Expected
        <5>2. CASE req[r].kind = "unarchive"
          <6>1. Load(archive) = last.archive
            BY <1>3, <3>3, <3>4, <3>6, <5>2 DEF Load
          <6> QED
            BY <5>2, <6>1 DEF Updated, Expected
        <5> QED
          BY <3>1, <5>1, <5>2 DEF ArchiveKinds
      <4>3. Expected(r)' = Expected(r)
        BY <4>1 DEF Expected
      <4>4. \A q \in Requests : req'[q].kind \in ArchiveKinds => q = r
        BY <2>1, <3>2
      <4>5. Value' = last'.archive
        BY <3>1, <3>3, <4>1
      <4> QED
        BY <3>1, <4>1, <4>2, <4>3, <4>4, <4>5 DEF ArchiveAlone
    <3> QED
      BY <3>5, <3>6
  <2>6. CASE ArchiveTruncate(r)
    <3>1. Mine(r) /\ req[r].at = "truncate" /\ archive' = Torn /\ last' = last
      BY <2>6 DEF ArchiveTruncate, history
    <3>2. /\ req'[r].kind = req[r].kind /\ req'[r].at = "write" /\ req'[r].v = req[r].v
          /\ req'[r].loc = req[r].loc
      BY <2>6, <2>2, OtherMoves
    <3>3. \A q \in Requests : req'[q].kind \in ArchiveKinds => q = r
      BY <1>2, <2>1, <3>1
    <3>4. Expected(r)' = Expected(r) /\ req[r].loc = Expected(r)
      BY <1>2, <3>1, <3>2 DEF Expected
    <3> QED
      BY <3>1, <3>2, <3>3, <3>4 DEF ArchiveAlone
  <2>7. CASE ArchiveWrite(r)
    <3>1. Mine(r) /\ req[r].at = "write" /\ last'.archive = Expected(r)
      BY <2>7, <1>4 DEF ArchiveWrite
    <3>2. archive = Torn /\ req[r].loc = Expected(r)
      BY <1>2, <3>1
    <3>3. archive' = req[r].loc
      BY <2>7, <3>2 DEF ArchiveWrite
    <3>4. Expected(r) \in SUBSET Paths
      BY <3>1, <1>3 DEF Types, ReqTypes, Shape, ArchiveKinds, EventKinds, Expected
    <3>5. Value' = last'.archive
      BY <1>3, <3>1, <3>2, <3>3, <3>4
    <3>6. \A q \in Requests : req'[q].kind \notin ArchiveKinds
      <4>1. req'[r].kind = "none"
        BY <2>7, <2>2, Ends
      <4> QED
        BY <1>2, <2>1, <2>3, <3>1, <4>1
    <3> QED
      BY <3>5, <3>6 DEF ArchiveAlone
  <2> QED
    BY <1>6, <2>4, <2>5, <2>6, <2>7 DEF Archive
<1>7. ASSUME NEW r \in Requests, Other(r) \/ Session(r) \/ Landing(r) \/ Review(r)
      PROVE  ArchiveAlone'
  <2>1. archive' = archive /\ last'.archive = last.archive
    BY <1>7, Frames, LastMoves
  <2>2. /\ \A q \in Requests : req'[q].kind \in ArchiveKinds => req'[q] = req[q]
        /\ \A q \in Requests : req[q].kind \in ArchiveKinds => req'[q] = req[q]
    BY <1>7, Steps DEF Within, ArchiveKinds, EventKinds, ReviewKinds
  <2> QED
    BY <1>5, <2>1, <2>2
<1>8. ASSUME Crash PROVE ArchiveAlone'
  <2>1. archive # Torn /\ \A r \in Requests : ~ Mine(r)
    BY <1>8 DEF Crash, ArchiveKinds
  <2>2. archive' = archive /\ last' = last /\ \A r \in Requests : req'[r].kind \notin ArchiveKinds
    BY <1>8 DEF Crash, Idle, ArchiveKinds
  <2> QED
    BY <1>2, <2>1, <2>2 DEF ArchiveAlone
<1>9. ASSUME CliDies \/ UNCHANGED vars PROVE ArchiveAlone'
  <2>1. archive' = archive /\ last' = last /\ req' = req
    BY <1>9 DEF CliDies, vars, history
  <2> QED
    BY <1>5, <2>1
<1> QED
  BY <1>6, <1>7, <1>8, <1>9 DEF Next

-----------------------------------------------------------------------------
(* Review comments.                                                        *)

\* What a delivery does to the counts: a comment in it is counted once more or
\* its message is Lost, the others keep their count.
LEMMA Counted ==
  ASSUME NEW S, NEW Lost, last.added \subseteq Comments,
         \A c \in Comments : sent[c] \in Nat,
         \A c \in Comments : c \notin S => sent'[c] = sent[c],
         \A c \in Comments : c \in S => (sent'[c] = sent[c] + 1) \/ (sent'[c] = sent[c] /\ Lost)
  PROVE  /\ \A c \in last.added : sent[c] > 0 => sent'[c] > 0
         /\ \A c \in last.added : c \in S => (sent'[c] > 0) \/ Lost
         /\ (\A c \in Comments : sent[c] <= 1) /\ (\A c \in S : sent[c] = 0)
              => \A c \in Comments : sent'[c] <= 1
<1>1. \A c \in Comments : sent[c] > 0 => sent'[c] > 0
  OBVIOUS
<1>2. \A c \in Comments : c \in S => (sent'[c] > 0) \/ Lost
  OBVIOUS
<1>3. ASSUME \A c \in Comments : sent[c] <= 1, \A c \in S : sent[c] = 0
      PROVE  \A c \in Comments : sent'[c] <= 1
  BY <1>3
<1> QED
  BY <1>1, <1>2, <1>3

\* Comments are kept: an added one is there until it is sent or deleted, and while
\* requests do not overlap it is sent once, and counted.
LEMMA ReviewsInductive ==
  ASSUME Types, Types', Taken, CommentKept, ReviewAlone, [Next]_vars
  PROVE  Taken' /\ CommentKept' /\ ReviewAlone'
<1> DEFINE Ok == "overlap" \notin excuse
           Mine(q) == req[q].kind \in ReviewKinds
           Lost == excuse \cap {"send failed", "crash"} # {}
<1>1. excuse \subseteq excuse' /\ (Ok' => Ok) /\ (Lost => Lost')
  BY ExcusesStay
<1>2. /\ comments \subseteq Comments /\ comments' \subseteq Comments
      /\ sent \in [Comments -> Nat] /\ last.added \subseteq Comments
      /\ Cardinality({}) = 0
  BY FS_EmptySet DEF Types, DataTypes, LastType
<1>3. ASSUME Ok
      PROVE  /\ \A r, q \in Requests : Mine(r) /\ Mine(q) => r = q
             /\ \A c \in Comments : sent[c] <= 1
             /\ \A r \in Requests : At(r, "review", "clear") => req[r].loc = comments
             /\ \A r \in Requests : At(r, "review", "send") => comments = {} /\ \A c \in req[r].loc : sent[c] = 0
             /\ \A r \in Requests : At(r, "review", "bar") => comments = {}
             /\ \A r \in Requests : req[r].kind \in {"comment", "delete"} /\ req[r].at = "bar" =>
                  req[r].loc = Cardinality(comments)
             /\ (\A r \in Requests : Mine(r) => At(r, "review", "list")) => bar = Cardinality(comments)
  BY <1>3 DEF ReviewAlone, At
<1>4. ReviewKinds = {"comment", "delete", "review"}
  BY DEF ReviewKinds
\* Nothing happens to a comment.
<1>5. ASSUME UNCHANGED reviews, last'.added = last.added, last.gone \subseteq last'.gone,
             \A q \in Requests : req'[q].kind \in ReviewKinds => req'[q] = req[q],
             \A q \in Requests : req[q].kind \in ReviewKinds => req'[q] = req[q]
      PROVE  Taken' /\ CommentKept' /\ ReviewAlone'
  <2> USE <1>4, <1>5 DEF reviews
  <2>1. Taken'
    BY DEF Taken
  <2>2. CommentKept'
    BY <1>1 DEF CommentKept, At
  <2>3. ReviewAlone'
    BY <1>1 DEF ReviewAlone, At
  <2> QED
    BY <2>1, <2>2, <2>3
<1>6. ASSUME NEW r \in Requests, Review(r)
      PROVE  Taken' /\ CommentKept' /\ ReviewAlone'
  <2>1. \A q \in Requests : q # r => req'[q] = req[q]
    BY <1>6, Steps DEF Within
  <2>2. ASSUME NEW k, NEW a, NEW x, NEW l, Moved(r, k, a, x, l)
        PROVE  req'[r].kind = k /\ req'[r].at = a /\ req'[r].loc = l
    BY <2>2 DEF Moved
  <2>3. last.gone \subseteq last'.gone
    BY <1>6, LastMoves
  <2>4. CASE \E c \in Comments : AddComment(r, c)
    <3>1. PICK c \in Comments : AddComment(r, c)
      BY <2>4
    <3>2. /\ c \notin last.added /\ comments' = comments \cup {c} /\ sent' = sent
          /\ (Ok' => \A q \in Requests : ~ Mine(q))
      BY <3>1 DEF AddComment, Overlap, Busy
    <3>3. last'.added = last.added \cup {c}
      BY <3>1 DEF AddComment, Types, DataTypes, LastType
    <3>4. req[r].kind = "none" /\ req'[r].kind = "comment" /\ req'[r].at = "count"
      BY <3>1, <2>2, Arrivals DEF Arrived
    <3>5. Taken'
      BY <2>1, <3>2, <3>3, <3>4, <1>2 DEF Taken
    <3>6. CommentKept'
      BY <1>1, <2>1, <2>3, <3>2, <3>3, <3>4 DEF CommentKept, At
    <3>7. ReviewAlone'
      BY <1>1, <1>3, <1>4, <2>1, <3>2, <3>4 DEF ReviewAlone, At
    <3> QED
      BY <3>5, <3>6, <3>7
  <2>5. CASE \E c \in Comments : DeleteComment(r, c)
    <3>1. PICK c \in Comments : DeleteComment(r, c)
      BY <2>5
    <3>2. /\ comments' = comments \ {c} /\ sent' = sent
          /\ (Ok' => \A q \in Requests : ~ Mine(q))
      BY <3>1 DEF DeleteComment, Overlap, Busy
    <3>3. last'.added = last.added /\ c \in last'.gone
      BY <3>1 DEF DeleteComment, Types, DataTypes, LastType
    <3>4. req[r].kind = "none" /\ req'[r].kind = "delete" /\ req'[r].at = "count"
      BY <3>1, <2>2, Arrivals DEF Arrived
    <3>5. Taken'
      BY <2>1, <3>2, <3>3, <3>4, <1>2 DEF Taken
    <3>6. CommentKept'
      BY <1>1, <2>1, <2>3, <3>2, <3>3, <3>4 DEF CommentKept, At
    <3>7. ReviewAlone'
      BY <1>1, <1>3, <1>4, <2>1, <3>2, <3>4 DEF ReviewAlone, At
    <3> QED
      BY <3>5, <3>6, <3>7
  <2>6. CASE Count(r)
    <3>1. /\ req[r].kind \in {"comment", "delete"} /\ req[r].at = "count" /\ last' = last
          /\ comments' = comments /\ sent' = sent /\ bar' = bar /\ excuse' = excuse
      BY <2>6 DEF Count, reviews, history
    <3>2. req'[r].kind = req[r].kind /\ req'[r].at = "bar" /\ req'[r].loc = Cardinality(comments)
      BY <2>6, <2>2, OtherMoves
    <3>3. Taken'
      BY <2>1, <3>1, <3>2 DEF Taken
    <3>4. CommentKept'
      BY <2>1, <3>1, <3>2 DEF CommentKept, At
    <3>5. ReviewAlone'
      BY <1>3, <1>4, <2>1, <3>1, <3>2 DEF ReviewAlone, At
    <3> QED
      BY <3>3, <3>4, <3>5
  <2>7. CASE BroadcastBar(r)
    <3>1. /\ Mine(r) /\ req[r].at = "bar" /\ last' = last /\ excuse' = excuse
          /\ comments' = comments /\ sent' = sent
          /\ bar' = (IF req[r].kind = "review" THEN 0 ELSE req[r].loc)
      BY <2>7 DEF BroadcastBar, history
    <3>2. req'[r].kind = "none"
      BY <2>7, <2>2, Ends
    <3>3. Taken'
      BY <2>1, <3>1, <3>2 DEF Taken
    <3>4. CommentKept'
      BY <2>1, <3>1, <3>2 DEF CommentKept, At
    <3>5. ReviewAlone'
      <4>1. ASSUME Ok
            PROVE  (\A q \in Requests : req'[q].kind \notin ReviewKinds) /\ bar' = Cardinality(comments)
        BY <1>2, <1>3, <1>4, <2>1, <3>1, <3>2, <4>1 DEF At
      <4> QED
        BY <1>3, <1>4, <3>1, <4>1 DEF ReviewAlone
    <3> QED
      BY <3>3, <3>4, <3>5
  <2>8. CASE SendReview(r)
    <3>1. /\ comments' = comments /\ sent' = sent /\ bar' = bar /\ last' = last
          /\ (Ok' => \A q \in Requests : ~ Mine(q))
      BY <2>8 DEF SendReview, Overlap, Busy, reviews
    <3>2. req[r].kind = "none" /\ req'[r].kind = "review" /\ req'[r].at = "list"
      BY <2>8, <2>2, Arrivals DEF Arrived
    <3>3. Taken'
      BY <2>1, <3>1, <3>2 DEF Taken
    <3>4. CommentKept'
      BY <1>1, <2>1, <3>1, <3>2 DEF CommentKept, At
    <3>5. ReviewAlone'
      BY <1>1, <1>3, <1>4, <2>1, <3>1, <3>2 DEF ReviewAlone, At
    <3> QED
      BY <3>3, <3>4, <3>5
  <2>9. CASE FormatReview(r)
    <3>1. /\ At(r, "review", "list") /\ last' = last /\ excuse' = excuse
          /\ comments' = comments /\ sent' = sent /\ bar' = bar
      BY <2>9 DEF FormatReview, reviews, history
    <3>2. \/ comments = {} /\ req'[r].kind = "none"
          \/ req'[r].kind = "review" /\ req'[r].at = "clear" /\ req'[r].loc = comments
      BY <2>9, <2>2, OtherMoves
    <3>3. Taken'
      BY <2>1, <3>1, <3>2 DEF Taken
    <3>4. CommentKept'
      BY <2>1, <3>1, <3>2 DEF CommentKept, At
    <3>5. ReviewAlone'
      BY <1>3, <1>4, <2>1, <3>1, <3>2 DEF ReviewAlone, At
    <3> QED
      BY <3>3, <3>4, <3>5
  <2>10. CASE ClearReview(r)
    <3>1. /\ At(r, "review", "clear") /\ excuse' = excuse
          /\ comments' = {} /\ sent' = sent /\ bar' = bar
      BY <2>10 DEF ClearReview
    <3>2. req'[r].kind = "review" /\ req'[r].at = "send" /\ req'[r].loc = req[r].loc
      BY <2>10, <2>2, OtherMoves
    <3>3. last'.added = last.added /\ comments \ req[r].loc \subseteq last'.gone
      BY <2>10 DEF ClearReview, Types, DataTypes, LastType
    <3>4. Taken'
      BY <2>1, <3>1, <3>2, <3>3 DEF Taken, At
    <3>5. CommentKept'
      BY <2>1, <2>3, <3>1, <3>2, <3>3 DEF CommentKept, At
    <3>6. ReviewAlone'
      <4>1. Ok => \A c \in req[r].loc : sent[c] = 0
        BY <1>2, <1>3, <3>1 DEF Taken
      <4> QED
        BY <1>3, <1>4, <2>1, <3>1, <3>2, <4>1 DEF ReviewAlone, At
    <3> QED
      BY <3>4, <3>5, <3>6
  <2>11. CASE DeliverReview(r)
    <3>1. At(r, "review", "send") /\ last' = last /\ comments' = comments /\ bar' = bar
      BY <2>11 DEF DeliverReview
    <3>2. req'[r].kind = "review" /\ req'[r].at = "bar" /\ req'[r].loc = req[r].loc
      BY <2>11, <2>2, OtherMoves
    <3>3. /\ \A c \in Comments : c \notin req[r].loc => sent'[c] = sent[c]
          /\ \A c \in Comments : c \in req[r].loc => (sent'[c] = sent[c] + 1) \/ (sent'[c] = sent[c] /\ Lost')
      <4>1. CASE sent' = [c \in Comments |-> IF c \in req[r].loc THEN sent[c] + 1 ELSE sent[c]]
        BY <1>2, <4>1
      <4>2. CASE sent' = sent /\ Lost'
        BY <1>2, <4>2
      <4> QED
        BY <2>11, <4>1, <4>2 DEF DeliverReview
    <3>4. /\ \A c \in last.added : sent[c] > 0 => sent'[c] > 0
          /\ \A c \in last.added : c \in req[r].loc => (sent'[c] > 0) \/ Lost'
          /\ (\A c \in Comments : sent[c] <= 1) /\ (\A c \in req[r].loc : sent[c] = 0)
               => \A c \in Comments : sent'[c] <= 1
      <4>1. \A c \in Comments : sent[c] \in Nat
        BY <1>2
      <4> HIDE DEF Lost
      <4> QED
        BY <1>2, <3>3, <4>1, Counted
    <3>5. Taken'
      BY <1>2, <2>1, <3>1, <3>2, <3>3 DEF Taken, At
    <3>6. CommentKept'
      BY <1>1, <2>1, <3>1, <3>4 DEF CommentKept, At
    <3>7. ReviewAlone'
      <4>1. Ok => \A c \in Comments : sent'[c] <= 1
        BY <1>3, <3>1, <3>4
      <4> QED
        BY <1>1, <1>3, <1>4, <2>1, <3>1, <3>2, <4>1 DEF ReviewAlone, At
    <3> QED
      BY <3>5, <3>6, <3>7
  <2> QED
    BY <1>6, <2>4, <2>5, <2>6, <2>7, <2>8, <2>9, <2>10, <2>11 DEF Review
<1>7. ASSUME NEW r \in Requests, Other(r) \/ Session(r) \/ Landing(r) \/ Archive(r)
      PROVE  Taken' /\ CommentKept' /\ ReviewAlone'
  <2>1. UNCHANGED reviews /\ last'.added = last.added /\ last.gone \subseteq last'.gone
    BY <1>7, Frames, LastMoves
  <2>2. /\ \A q \in Requests : req'[q].kind \in ReviewKinds => req'[q] = req[q]
        /\ \A q \in Requests : req[q].kind \in ReviewKinds => req'[q] = req[q]
    BY <1>7, Steps DEF Within, ArchiveKinds, EventKinds, ReviewKinds
  <2> QED
    BY <1>5, <2>1, <2>2
<1>8. ASSUME Crash PROVE Taken' /\ CommentKept' /\ ReviewAlone'
  <2>1. /\ comments' = {} /\ bar' = 0 /\ sent' = sent /\ last' = last /\ "crash" \in excuse'
        /\ \A q \in Requests : req'[q].kind = "none"
    BY <1>8 DEF Crash, Idle
  <2>2. Taken'
    BY <2>1 DEF Taken
  <2>3. CommentKept'
    BY <2>1 DEF CommentKept
  <2>4. ReviewAlone'
    BY <1>1, <1>2, <1>3, <1>4, <2>1 DEF ReviewAlone
  <2> QED
    BY <2>2, <2>3, <2>4
<1>9. ASSUME CliDies \/ UNCHANGED vars PROVE Taken' /\ CommentKept' /\ ReviewAlone'
  <2>1. UNCHANGED reviews /\ last' = last /\ req' = req
    BY <1>9 DEF CliDies, vars, history
  <2> QED
    BY <1>5, <2>1
<1> QED
  BY <1>6, <1>7, <1>8, <1>9 DEF Next

-----------------------------------------------------------------------------
(* The theorems.                                                           *)

\* The invariant holds of a server that has just started.
LEMMA InitInv == Init => Inv
<1> SUFFICES ASSUME Init PROVE Inv
  OBVIOUS
<1> USE StoresAssumption
<1>1. \A r \in Requests : req[r] = Idle /\ req[r].kind = "none" /\ req[r].at = "idle" /\ req[r].v = None /\ req[r].loc = None
  BY DEF Init, Idle
<1>2. /\ sess = [exists |-> TRUE, label |-> None, command |-> None, up |-> FALSE]
      /\ last = [event |-> None, archive |-> {}, added |-> {}, gone |-> {}]
  BY DEF Init, NoSession
<1>3. Cardinality({}) = 0 /\ Cardinality(Comments) \in Nat
  BY FS_EmptySet, FS_CardinalityType
<1>4. "none" \notin EventKinds \cup ArchiveKinds \cup ReviewKinds
  BY DEF EventKinds, ArchiveKinds, ReviewKinds
<1>5. ReqTypes
  <2>1. req = [r \in Requests |-> [kind |-> req[r].kind, at |-> req[r].at, v |-> req[r].v, loc |-> req[r].loc]]
    BY <1>1 DEF Init, Idle
  <2>2. "none" \in KindsOf(family)
    BY DEF KindsOf
  <2> QED
    BY <1>1, <2>1, <2>2 DEF ReqTypes, Shape
<1>6. DataTypes
  <2>1. last \in LastType
    BY <1>2 DEF LastType
  <2>2. sess \in [exists : BOOLEAN, label : Labels \cup {None}, command : Models \cup {None}, up : BOOLEAN]
    BY <1>2
  <2>3. comments \subseteq Comments /\ bar \in 0 .. Cardinality(Comments) /\ sent \in [Comments -> Nat]
    BY <1>3 DEF Init
  <2> QED
    BY <2>1, <2>2, <2>3 DEF Init, DataTypes, Entries
<1>7. FilesAgree /\ RecordHolds
  BY <1>1 DEF Init, FilesAgree, RecordHolds, Stored
<1>8. LabelsAgree /\ LoadedOnce
  BY <1>1, <1>2 DEF Init, LabelsAgree, LoadedOnce, Busy, Stored
<1>9. EventTracked /\ ArchiveAlone
  BY <1>1, <1>2, <1>4 DEF Init, EventTracked, EventOnly, ArchiveAlone, Stored
<1>10. Taken /\ CommentKept /\ ReviewAlone
  BY <1>1, <1>2, <1>3, <1>4 DEF Init, Taken, CommentKept, ReviewAlone, At
<1> QED
  BY <1>5, <1>6, <1>7, <1>8, <1>9, <1>10 DEF Inv, Types

\* No step of a request, of the CLI or of a crash breaks the invariant.
LEMMA InvInductive == Inv /\ [Next]_vars => Inv'
<1> SUFFICES ASSUME Inv, [Next]_vars PROVE Inv'
  OBVIOUS
<1> USE DEF Inv
<1>1. Types' /\ FilesAgree'
  BY TypesInductive, FilesInductive
<1>2. RecordHolds'
  BY RecordInductive
<1>3. LoadedOnce'
  BY <1>1, LoadedInductive
<1>4. LabelsAgree'
  BY <1>1, <1>3, LabelsInductive
<1>5. EventTracked'
  BY <1>1, TrackedInductive
<1>6. ArchiveAlone'
  BY <1>1, ArchiveInductive
<1>7. Taken' /\ CommentKept' /\ ReviewAlone'
  BY <1>1, ReviewsInductive
<1> QED
  BY <1>1, <1>2, <1>3, <1>4, <1>5, <1>6, <1>7

\* In every behaviour of the stores, at every moment, the invariant holds.
THEOREM InvAlways == Spec => []Inv
<1>1. Init => Inv
  BY InitInv
<1>2. Inv /\ [Next]_vars => Inv'
  BY InvInductive
<1> QED
  BY <1>1, <1>2, PTL DEF Spec

\* What is recorded about a session is true of it: every CLI it ever had ran
\* one model, the one that is stored, and its label is the stored one when no
\* edit is under way, but for the crashes and overlaps that the code loses.
THEOREM SessionRecordsHold == Spec => []SessionRecords
<1>1. Inv => SessionRecords
  <2> SUFFICES ASSUME Inv PROVE SessionRecords
    OBVIOUS
  <2> USE DEF Inv
  <2>1. TypeOK
    BY DEF TypeOK, Types, DataTypes
  <2>2. ModelFixed
    <3> SUFFICES ASSUME "torn" \notin excuse
                 PROVE  Cardinality(ran) <= 1 /\ (ran # {} => mem["models"] \in ran)
      BY DEF ModelFixed
    <3>1. ran = {} \/ ran = {mem["models"]}
      BY DEF RecordHolds
    <3>2. Cardinality({}) = 0 /\ Cardinality({mem["models"]}) = 1
      BY FS_EmptySet, FS_Singleton
    <3> QED
      BY <3>1, <3>2
  <2>3. SessionAgrees
    <3>1. ASSUME sess.exists, Busy({"label", "load"}) = {}, "overlap" \notin excuse
          PROVE  sess.label = mem["labels"]
      <4>1. Busy({"label"}) = {}
        BY <3>1 DEF Busy
      <4> QED
        BY <3>1, <4>1 DEF LabelsAgree
    <3>2. "orphan" \in last.gone => "two loads" \in excuse
      BY DEF LoadedOnce
    <3> QED
      BY <3>1, <3>2 DEF SessionAgrees
  <2> QED
    BY <2>1, <2>2, <2>3 DEF SessionRecords
<1> QED
  BY <1>1, InvAlways, PTL

\* The landing page shows what the CLI last did, and a session that was closed
\* stays closed, but for a late permission goroutine and an event that was on
\* its way.
THEOREM LandingIsTrue == Spec => []LandingTrue
<1>1. Inv => LandingTrue
  <2> SUFFICES ASSUME Inv, family = "tracker", Busy(EventKinds) = {}
               PROVE  IF "closed" \in last.gone THEN mem["tracker"] = None \/ "event in flight" \in excuse
                      ELSE \/ mem["tracker"] = (IF last.event = None THEN None ELSE Status(last.event))
                           \/ excuse \cap {"asked late", "crash"} # {}
    BY DEF LandingTrue
  <2>1. \A r \in Requests : req[r].kind \notin EventKinds
    BY DEF Busy
  <2> QED
    BY <2>1 DEF Inv, EventTracked, EventOnly, Excused
<1> QED
  BY <1>1, InvAlways, PTL

\* The archived workstreams are the ones that were asked for, if no two
\* requests overlapped and no crash tore the file.
THEOREM ArchiveHolds == Spec => []ArchiveAgrees
<1>1. Inv => ArchiveAgrees
  <2> SUFFICES ASSUME Inv, Busy(ArchiveKinds) = {}, excuse \cap {"overlap", "torn archive"} = {}
               PROVE  (IF archive = None THEN {} ELSE archive) = last.archive
    BY DEF ArchiveAgrees
  <2>1. \A r \in Requests : req[r].kind \in ArchiveKinds => req[r].at # "write"
    BY DEF Busy
  <2> QED
    BY <2>1 DEF Inv, ArchiveAlone
<1> QED
  BY <1>1, InvAlways, PTL

\* A comment stays in the store until it is deleted or sent, unless sending it
\* failed; none is sent twice, and the bar counts them, unless requests overlap.
THEOREM ReviewsAreKept == Spec => []ReviewsKept
<1>1. Inv => ReviewsKept
  <2> SUFFICES ASSUME Inv PROVE ReviewsKept
    OBVIOUS
  <2> USE DEF Inv
  <2>1. \A c \in Comments : sent[c] > 1 => "overlap" \in excuse
    BY DEF ReviewAlone, Types, DataTypes
  <2>2. Busy(ReviewKinds) = {} => bar = Cardinality(comments) \/ "overlap" \in excuse
    BY DEF ReviewAlone, Busy
  <2> QED
    BY <2>1, <2>2 DEF ReviewsKept, CommentKept
<1> QED
  BY <1>1, InvAlways, PTL

\* No request counts as a crash.
LEMMA CrashesCounted ==
  ASSUME Types, NEW r \in Requests, Other(r) \/ Session(r) \/ Landing(r) \/ Archive(r) \/ Review(r)
  PROVE  made'.crashes = made.crashes
<1>1. ASSUME NEW fam, NEW kind, NEW at, NEW x, Arrive(r, fam, kind, at, x)
      PROVE  made'.crashes = made.crashes
  BY <1>1 DEF Arrive, Types, DataTypes
<1>2. ASSUME Other(r) PROVE made'.crashes = made.crashes
  BY <1>1, <1>2 DEF Other, OtherSession, SetOther, OtherSaved
<1>3. ASSUME Session(r) PROVE made'.crashes = made.crashes
  BY <1>1, <1>3 DEF Session, Restore, LoadSession, UpdateLabel, SetLabel, LabelSaved, FirstSend, SendMessage,
    EnsureProcess, Record, Recorded, Adopt, Start
<1>4. ASSUME Landing(r) PROVE made'.crashes = made.crashes
  BY <1>1, <1>4 DEF Landing, CliEvent, Track, Tracked, Skip, CloseSession, CloseEntry, RemoveSession, KillCli
<1>5. ASSUME Archive(r) PROVE made'.crashes = made.crashes
  BY <1>1, <1>5 DEF Archive, ArchiveRequest, ArchiveLoad, ArchiveTruncate, ArchiveWrite
<1>6. ASSUME Review(r) PROVE made'.crashes = made.crashes
  BY <1>1, <1>6 DEF Review, AddComment, DeleteComment, Count, BroadcastBar, SendReview, FormatReview,
    ClearReview, DeliverReview
<1> QED
  BY <1>2, <1>3, <1>4, <1>5, <1>6

\* A server that restarts has what the stores held, but for a store whose file
\* was being written.
THEOREM RestartsKeep == Spec => RestartKeeps
<1>1. ASSUME Inv, [Next]_vars
      PROVE  [made'.crashes > made.crashes => \A s \in Stored : mem'[s] = mem[s] \/ lock[s] # None]_vars
  <2>1. CASE Crash
    <3>1. \A s \in Stored : mem[s] # Torn
      BY <1>1, StoresAssumption DEF Inv, Types, DataTypes
    <3>2. \A s \in Stored : mem'[s] = IF file[s] = Torn THEN None ELSE file[s]
      BY <2>1 DEF Crash, NewStores
    <3>3. \A s \in Stored : mem'[s] = mem[s] \/ lock[s] # None
      BY <1>1, <3>1, <3>2 DEF Inv, FilesAgree
    <3> QED
      BY <3>3
  <2>2. ASSUME made'.crashes = made.crashes PROVE ~ (made'.crashes > made.crashes)
    BY <1>1, <2>2 DEF Inv, Types, DataTypes
  <2>3. Crash \/ made'.crashes = made.crashes
    BY <1>1, CrashesCounted DEF Next, CliDies, vars, Inv
  <2> QED
    BY <2>1, <2>2, <2>3
<1> QED
  BY <1>1, InvAlways, PTL DEF Spec, RestartKeeps
=============================================================================
