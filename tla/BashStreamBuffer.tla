-------------------------- MODULE BashStreamBuffer --------------------------
(***************************************************************************)
(* The in-memory buffer between the bashstreamer connection that writes    *)
(* the output of a foreground Bash command (handleBashStream) and the SSE  *)
(* handlers that show it (handleBashStreamSSE, streamBashWithExtractor).   *)
(* The buffer is bounded: the oldest half is dropped when it overflows,    *)
(* and a reader that fell behind gets a truncation note instead.           *)
(*                                                                         *)
(* A line is its number in the order of writing, from 0; its text does not *)
(* matter.  Appending, closing and reading hold the buffer's lock; the     *)
(* wake-up is a separate, non-blocking send on a channel of capacity one   *)
(* that all readers share.                                                 *)
(***************************************************************************)
EXTENDS Integers, Sequences

CONSTANTS
  Requests,       \* SSE requests that read the buffer
  MaxStreamLines, \* maxBashStreamLines
  MaxWritten      \* bound: lines the command prints

ASSUME BufferAssumption ==
  /\ MaxStreamLines \in Nat \ {0}
  /\ MaxWritten \in Nat

VARIABLES
  lines, startSeq, done, \* the fields of the buffer
  wake,     \* a token is in the channel ch
  writer,   \* the connection: "open", or between an update and its signal
  written,  \* lines written so far
  pc,       \* where each reader is
  pos,      \* the sequence number a reader passes to its next Read
  seen,     \* (history) the lines a reader was sent
  missed    \* (history) the lines a reader was told of by truncation notes

buffer == <<lines, startSeq, done>>
progress == <<pc, pos, seen, missed>>
bufferVars == <<buffer, wake, writer, written, progress>>

BufferInit ==
  /\ lines = <<>>
  /\ startSeq = 0
  /\ done = FALSE
  /\ wake = FALSE
  /\ writer = "open"
  /\ written = 0
  /\ pc = [r \in Requests |-> "off"]
  /\ pos = [r \in Requests |-> 0]
  /\ seen = [r \in Requests |-> {}]
  /\ missed = [r \in Requests |-> {}]

-----------------------------------------------------------------------------
(* The writer.                                                             *)

\* The number of lines Append drops from a buffer of len lines.
Drop(len) == IF len > MaxStreamLines THEN len \div 2 ELSE 0

AppendLineAs(next) ==
  LET full == Append(lines, written)
      drop == Drop(Len(full))
  IN
  /\ writer = "open"
  /\ written < MaxWritten
  /\ lines' = SubSeq(full, drop + 1, Len(full))
  /\ startSeq' = startSeq + drop
  /\ written' = written + 1
  /\ writer' = next
  /\ UNCHANGED <<done, wake, progress>>

AppendQuietly == AppendLineAs("open")  \* wrong: no signal follows
AppendLine == AppendLineAs("appended")

\* The command's output ended: handleBashStream closes the buffer.
Close ==
  /\ writer = "open"
  /\ done' = TRUE
  /\ writer' = "closed"
  /\ UNCHANGED <<lines, startSeq, wake, written, progress>>

\* The non-blocking send that follows: it leaves a token or finds one.
SignalAs(token) ==
  /\ writer \in {"appended", "closed"}
  /\ wake' = token
  /\ writer' = IF writer = "closed" THEN "end" ELSE "open"
  /\ UNCHANGED <<buffer, written, progress>>

SignalAppend == SignalAs(wake \/ writer = "appended")  \* wrong: Close is silent
Signal == SignalAs(TRUE)

-----------------------------------------------------------------------------
(* A reader: Read, send what it returned, stop at done, otherwise Wait.    *)

Connect(r) ==
  /\ pc[r] = "off"
  /\ pc' = [pc EXCEPT ![r] = "read"]
  /\ UNCHANGED <<buffer, wake, writer, written, pos, seen, missed>>

\* What Read(seq) returns: the lines a truncation note stands for, the lines
\* themselves, and the next sequence number.
Truncated(seq) == {n \in 0 .. startSeq : seq <= n /\ n < startSeq}
From(seq) == IF seq < startSeq THEN startSeq ELSE seq
ChunkShort(seq) ==      \* wrong: the last line is not returned
  {lines[i] : i \in {j \in 1 .. Len(lines) - 1 : j > From(seq) - startSeq}}
Chunk(seq) == {lines[i] : i \in {j \in 1 .. Len(lines) : j > From(seq) - startSeq}}
NewSeq(seq) == IF From(seq) - startSeq < Len(lines) THEN startSeq + Len(lines)
               ELSE From(seq)

Read(r) ==
  /\ pc[r] = "read"
  /\ missed' = [missed EXCEPT ![r] = @ \cup Truncated(pos[r])]
  /\ seen' = [seen EXCEPT ![r] = @ \cup Chunk(pos[r])]
  /\ pos' = [pos EXCEPT ![r] = NewSeq(pos[r])]
  /\ pc' = [pc EXCEPT ![r] = IF done THEN "ended" ELSE "wait"]
  /\ UNCHANGED <<buffer, wake, writer, written>>

\* Wait returns true: the reader takes the token.
Wake(r) ==
  /\ pc[r] = "wait"
  /\ wake
  /\ wake' = FALSE
  /\ pc' = [pc EXCEPT ![r] = "read"]
  /\ UNCHANGED <<buffer, writer, written, pos, seen, missed>>

\* Wait returns false: the client disconnected.
Disconnect(r) ==
  /\ pc[r] = "wait"
  /\ pc' = [pc EXCEPT ![r] = "left"]
  /\ UNCHANGED <<buffer, wake, writer, written, pos, seen, missed>>

BufferNext ==
  \/ AppendLine
  \/ Close
  \/ Signal
  \/ \E r \in Requests : Connect(r) \/ Read(r) \/ Wake(r) \/ Disconnect(r)

BufferSpec == BufferInit /\ [][BufferNext]_bufferVars

\* Goroutines that can run do run.  The command need not end, nobody has to
\* connect or to disconnect.
BufferFairness ==
  /\ WF_bufferVars(Signal)
  /\ \A r \in Requests : WF_bufferVars(Read(r)) /\ WF_bufferVars(Wake(r))

FairBufferSpec == BufferSpec /\ BufferFairness

-----------------------------------------------------------------------------
BufferTypeOK ==
  /\ lines \in Seq(Nat)
  /\ startSeq \in Nat
  /\ done \in BOOLEAN
  /\ wake \in BOOLEAN
  /\ writer \in {"open", "appended", "closed", "end"}
  /\ written \in Nat
  /\ pc \in [Requests -> {"off", "read", "wait", "ended", "left"}]
  /\ pos \in [Requests -> Nat]
  /\ seen \in [Requests -> SUBSET Nat]
  /\ missed \in [Requests -> SUBSET Nat]

\* The implicit sequence numbers are right: line number n is at position
\* n - startSeq, whatever was trimmed, and the buffer is bounded.
SequenceNumbers ==
  /\ startSeq + Len(lines) = written
  /\ \A i \in 1 .. Len(lines) : lines[i] = startSeq + i - 1
  /\ Len(lines) <= MaxStreamLines

\* Every line up to a reader's position was either sent to it or is covered by
\* one of its truncation notes, never both: the client can tell exactly what
\* it misses.
EveryLineAccounted ==
  \A r \in Requests : /\ seen[r] \cup missed[r] = 0 .. pos[r] - 1
                     /\ seen[r] \cap missed[r] = {}

\* The next Read repeats nothing and skips nothing the buffer still has.
NextReadIsNew ==
  \A r \in Requests :
    /\ Chunk(pos[r]) \cap (seen[r] \cup missed[r]) = {}
    /\ \A i \in 1 .. Len(lines) : lines[i] \in seen[r] \cup missed[r] \cup Chunk(pos[r])

\* A reader that stops at done has the whole output.
EndedHasAll ==
  \A r \in Requests : pc[r] = "ended" =>
    done /\ seen[r] \cup missed[r] = 0 .. written - 1

\* Only a reader that is more than half a buffer behind misses lines.
OnlySlowReadersTruncate ==
  \A r \in Requests : pos[r] < startSeq => written - pos[r] > MaxStreamLines \div 2

\* A reader gets the output of the command, whatever is trimmed under it and
\* wherever it stands: no line twice, none out of turn, none lost silently, and
\* none lost at all by a reader that keeps up.
OutputIsDelivered ==
  SequenceNumbers /\ EveryLineAccounted /\ NextReadIsNew /\ EndedHasAll /\ OnlySlowReadersTruncate

\* There is something a reader has not read, or not been told.
News(r) == pos[r] < written \/ done

\* The wake-up is not lost: when nobody left, all readers wait and each has
\* something to read, a token is there or about to be left.
WakeupPending == wake \/ writer \in {"appended", "closed"}
SomeReaderUpToDate ==
  (\A r \in Requests : pc[r] = "wait" /\ News(r)) /\ Requests # {} => WakeupPending

\* With a single reader this is: a reader that waits has nothing to read, or
\* is going to be woken.
NoLostWakeup ==
  \A r \in Requests : pc[r] = "wait" /\ News(r) => WakeupPending

Listening(r) == pc[r] \in {"read", "wait"}

\* "Closes with done when the buffer is done": every connected reader ends.
ReadersEnd == \A r \in Requests : (done /\ Listening(r)) ~> ~Listening(r)

\* What the shared channel still gives: Close reaches one of the readers.
SomeReaderEnds ==
  (done /\ \E r \in Requests : Listening(r)) ~>
    (\E r \in Requests : pc[r] = "ended") \/ (\A r \in Requests : ~Listening(r))
=============================================================================
