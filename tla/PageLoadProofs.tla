--------------------------- MODULE PageLoadProofs ---------------------------
(***************************************************************************)
(* What pages show of the log, for any number of producers, messages and   *)
(* page loads and channels of any capacity.                                *)
(***************************************************************************)
EXTENDS PageLoad, SequenceTheorems, FiniteSetTheorems, TLAPS

In(x, s) == \E i \in 1 .. Len(s) : s[i] = x
Before(m, n) == m[1] = n[1] /\ m[2] < n[2]
InOrder(s) ==
  \A i, j \in 1 .. Len(s) : Before(s[i], s[j]) => \E k \in 1 .. j : s[k] = s[i]

-----------------------------------------------------------------------------
(* Who holds what.                                                         *)

\* The log has what each producer has broadcast, once and in its order.
LogRight ==
  /\ \A i, j \in 1 .. Len(log) : log[i] = log[j] => i = j
  /\ \A i, j \in 1 .. Len(log) : Before(log[i], log[j]) => i < j
  /\ \A b \in Producers, n \in 1 .. MaxMsgs : In(<<b, n>>, log) <=> n <= bcount[b]
  /\ Len(log) <= MaxMsgs
  /\ \A b \in Producers : bcount[b] <= Len(log) /\ (bpc[b] # "idle" => bcount[b] # 0)

\* Nothing shows what is not in the log.
Logged ==
  /\ \A g \in Models : \A m \in Msgs : In(m, queue[g]) \/ In(m, applied[g]) => In(m, log)
  /\ \A c \in Clients : \A m \in Msgs : In(m, page[c]) => In(m, log)
  /\ \A c \in Clients : \A i \in 1 .. Len(inbox[c]) : In(inbox[c][i][1], log) /\ inbox[c][i][2] <= seq
  /\ \A g \in Models : Len(work[g]) = 2 => work[g][2] <= seq

\* Models are built one after the other, one by each load that comes so far.
ModelsRight ==
  /\ model = built
  /\ built = Cardinality({c \in Clients : cpc[c] \in {"number", "render", "loop"}})
  /\ \A g \in Models :
       /\ run[g] = "none" <=> g > built
       /\ g > built => queue[g] = <<>>
       /\ work[g] # <<>> => run[g] \in {"running", "stopping"} /\ In(work[g][1], applied[g])
  /\ \A b \in Producers : bpc[b] = "enqueue" => bmodel[b] \in 1 .. built

\* Where a load is says what it has read.
LoadsRight ==
  \A c \in Clients :
    /\ cpc[c] = "wait" => closing[c] \in 1 .. built
    /\ cpc[c] # "loop" => page[c] = <<>>
    /\ cpc[c] \in {"number", "render", "loop"} => built # 0
    /\ cpc[c] \in {"close", "wait", "build"} =>
         Len(snap[c]) <= Len(log) /\ \A i \in 1 .. Len(snap[c]) : snap[c][i] = log[i]

\* The last model is not stopped unless a load is replacing it.
LastGoes ==
  built # 0 /\ run[built] # "running" => \E c \in Clients : cpc[c] \in {"wait", "build"}

Shape == TypeOK /\ LogRight /\ Logged /\ ModelsRight /\ LoadsRight

-----------------------------------------------------------------------------
(* Messages that no page load has met.                                     *)

ByProducer(m) == bpc[m[1]] # "idle" /\ bcount[m[1]] = m[2]
InWork(m) == \E g \in Models : work[g] # <<>> /\ work[g][1] = m
OnItsWay(m) == ByProducer(m) \/ InWork(m) \/ \E g \in Models : In(m, queue[g])
Fresh(c, i) == inbox[c][i][2] > lastSeq[c]
InInbox(c, m) == \E i \in 1 .. Len(inbox[c]) : inbox[c][i][1] = m /\ Fresh(c, i)

\* It is on its way only while no page is loaded, in one place, and to the
\* session's model.
OnePlace(m) ==
  /\ OnItsWay(m) => \A c \in Clients : ~ Loading(c)
  /\ ByProducer(m) => /\ ~ InWork(m) /\ \A g \in Models : ~ In(m, queue[g])
                      /\ bpc[m[1]] = "enqueue" => bmodel[m[1]] = model
  /\ \A g \in Models :
       /\ \A i, j \in 1 .. Len(queue[g]) : queue[g][i] = m /\ queue[g][j] = m => i = j
       /\ In(m, queue[g]) => g = model /\ ~ InWork(m)
       /\ work[g] # <<>> /\ work[g][1] = m => g = model

\* The model has it once, or it is on its way there.
InModel(m) ==
  /\ \A c \in Clients : cpc[c] \in {"close", "wait", "build"} /\ In(m, log) => In(m, snap[c])
  /\ model # NoModel =>
       /\ In(m, log) => In(m, applied[model]) \/ m \in dropped \/ In(m, queue[model]) \/ ByProducer(m)
       /\ \A i, j \in 1 .. Len(applied[model]) : applied[model][i] = m /\ applied[model][j] = m => i = j
       /\ In(m, queue[model]) \/ ByProducer(m) => ~ In(m, applied[model])

\* So has each page.
OnPage(m, c) ==
  /\ cpc[c] = "loop" /\ In(m, log) =>
       In(m, page[c]) \/ <<c, m>> \in overrun \/ m \in dropped \/ OnItsWay(m) \/ InInbox(c, m)
  /\ \A i, j \in 1 .. Len(page[c]) : page[c][i] = m /\ page[c][j] = m => i = j
  /\ cpc[c] = "render" => ~ InInbox(c, m)
  /\ cpc[c] = "loop" =>
       /\ In(m, page[c]) => ~ OnItsWay(m) /\ ~ InInbox(c, m)
       /\ InInbox(c, m) => ~ OnItsWay(m)
       /\ \A i, j \in 1 .. Len(inbox[c]) :
            inbox[c][i][1] = m /\ inbox[c][j][1] = m /\ Fresh(c, i) /\ Fresh(c, j) => i = j
       /\ \A g \in Models : Len(work[g]) = 2 /\ work[g][1] = m => work[g][2] > lastSeq[c]

Unexposed ==
  \A m \in Msgs \ exposed : OnePlace(m) /\ InModel(m) /\ \A c \in Clients : OnPage(m, c)

-----------------------------------------------------------------------------
(* The order of each producer's messages, while loads do not overlap.      *)

\* One load at a time, and one model that is not stopped.
OneLoad ==
  /\ \A c, d \in Clients : Loading(c) /\ Loading(d) => c = d
  /\ \A g \in Models : g < built => run[g] = "stopped"
  /\ \A c \in Clients : cpc[c] = "wait" => closing[c] = model
  /\ \A c \in Clients : cpc[c] = "build" => model = NoModel \/ run[model] = "stopped"

\* Inbox, work and queue have each producer's messages in this order.
ToCome ==
  /\ \A g \in Models :
       /\ \A i, j \in 1 .. Len(queue[g]) : i < j => ~ Before(queue[g][j], queue[g][i])
       /\ \A i \in 1 .. Len(queue[g]) : work[g] # <<>> => ~ Before(queue[g][i], work[g][1])
  /\ \A c \in Clients : \A i \in 1 .. Len(inbox[c]) :
       /\ \A j \in 1 .. Len(inbox[c]) : i < j => ~ Before(inbox[c][j][1], inbox[c][i][1])
       /\ built # 0 => /\ work[built] # <<>> => ~ Before(work[built][1], inbox[c][i][1])
                       /\ \A j \in 1 .. Len(queue[built]) : ~ Before(queue[built][j], inbox[c][i][1])

\* What is still to come to the model, or to a page, is not overtaken there.
ModelInOrder ==
  built # 0 =>
    /\ InOrder(applied[built])
    /\ \A i \in 1 .. Len(applied[built]), j \in 1 .. Len(queue[built]) :
         Before(queue[built][j], applied[built][i]) => In(queue[built][j], applied[built])
    /\ \A c \in Clients : cpc[c] = "render" =>
         \A i \in 1 .. Len(inbox[c]) : Fresh(c, i) => In(inbox[c][i][1], applied[built])
PagesInOrder ==
  \A c \in Clients : cpc[c] = "loop" =>
    /\ InOrder(page[c])
    /\ \A i \in 1 .. Len(page[c]) :
         /\ \A j \in 1 .. Len(inbox[c]) :
              Fresh(c, j) /\ Before(inbox[c][j][1], page[c][i]) => In(inbox[c][j][1], page[c])
         /\ work[built] # <<>> /\ Before(work[built][1], page[c][i]) => In(work[built][1], page[c])
         /\ \A j \in 1 .. Len(queue[built]) :
              Before(queue[built][j], page[c][i]) => In(queue[built][j], page[c])

Ordered == ~ overlap => OneLoad /\ ToCome /\ ModelInOrder /\ PagesInOrder

PageInv == Shape /\ LastGoes /\ Unexposed /\ Ordered

-----------------------------------------------------------------------------
(* Sequences.                                                              *)

LEMMA OneMore ==
  ASSUME NEW S, NEW s \in Seq(S), NEW e \in S
  PROVE  /\ Append(s, e) \in Seq(S) /\ Len(Append(s, e)) = Len(s) + 1
         /\ \A i \in 1 .. Len(s) : Append(s, e)[i] = s[i]
         /\ Append(s, e)[Len(s) + 1] = e
         /\ \A i \in 1 .. Len(s) + 1 : Append(s, e)[i] = IF i = Len(s) + 1 THEN e ELSE s[i]
         /\ \A x : In(x, Append(s, e)) <=> In(x, s) \/ x = e
<1>1. /\ Append(s, e) \in Seq(S) /\ Len(Append(s, e)) = Len(s) + 1 /\ Len(s) \in Nat
      /\ \A i \in 1 .. Len(s) : Append(s, e)[i] = s[i]
      /\ Append(s, e)[Len(s) + 1] = e
  BY AppendProperties, LenProperties
<1>2. \A i \in 1 .. Len(s) + 1 : i = Len(s) + 1 \/ i \in 1 .. Len(s)
  BY <1>1
<1>3. \A i \in 1 .. Len(s) : i \in 1 .. Len(s) + 1 /\ i # Len(s) + 1
  BY <1>1
<1>4. Len(s) + 1 \in 1 .. Len(s) + 1
  BY <1>1
<1> QED
  BY <1>1, <1>2, <1>3, <1>4 DEF In

LEMMA OneLess ==
  ASSUME NEW S, NEW s \in Seq(S), s # <<>>
  PROVE  /\ Head(s) \in S /\ Tail(s) \in Seq(S) /\ Len(Tail(s)) = Len(s) - 1
         /\ Len(s) \in Nat /\ 1 \in 1 .. Len(s) /\ Head(s) = s[1]
         /\ \A i \in 1 .. Len(Tail(s)) : Tail(s)[i] = s[i + 1] /\ i + 1 \in 1 .. Len(s)
         /\ \A x : In(x, s) <=> In(x, Tail(s)) \/ x = Head(s)
<1>1. Len(s) \in Nat /\ Len(s) # 0
  BY EmptySeq, LenProperties
<1>2. /\ Head(s) \in S /\ Tail(s) \in Seq(S) /\ Len(Tail(s)) = Len(s) - 1
      /\ \A i \in 1 .. Len(Tail(s)) : Tail(s)[i] = s[i + 1]
  BY HeadTailProperties
<1>3. Head(s) = s[1]
  OBVIOUS
<1>4. \A i \in 1 .. Len(Tail(s)) : i + 1 \in 1 .. Len(s)
  BY <1>1, <1>2
<1>5. \A i \in 1 .. Len(s) : i = 1 \/ (i - 1 \in 1 .. Len(Tail(s)) /\ s[i] = Tail(s)[i - 1])
  BY <1>1, <1>2
<1>6. 1 \in 1 .. Len(s)
  BY <1>1
<1> QED
  BY <1>1, <1>2, <1>3, <1>4, <1>5, <1>6 DEF In

LEMMA EmptyHas == Len(<<>>) = 0 /\ \A x : ~ In(x, <<>>)
BY DEF In

\* What the goroutine of a model has in hand.
LEMMA WorkShape ==
  ASSUME TypeOK, NEW g \in Models
  PROVE  \/ work[g] = <<>> /\ Len(work[g]) = 0
         \/ /\ work[g] # <<>> /\ work[g][1] \in Msgs
            /\ \/ Len(work[g]) = 1 /\ work[g] = <<work[g][1]>>
               \/ Len(work[g]) = 2 /\ work[g][2] \in Nat /\ work[g] = <<work[g][1], work[g][2]>>
<1>1. CASE work[g] = <<>>
  BY <1>1
<1>2. CASE \E m \in Msgs : work[g] = <<m>>
  BY <1>2
<1>3. CASE work[g] \in Msgs \X Nat
  <2>1. PICK m \in Msgs, n \in Nat : work[g] = <<m, n>>
    BY <1>3
  <2> QED
    BY <2>1
<1> QED
  BY <1>1, <1>2, <1>3 DEF TypeOK

-----------------------------------------------------------------------------
(* Types.                                                                  *)

LEMMA TypesInit == Init => TypeOK
<1> SUFFICES ASSUME Init
             PROVE  TypeOK
  OBVIOUS
<1>1. <<>> \in Seq(Msgs) /\ <<>> \in Seq(Msgs \X Nat) /\ Len(<<>>) = 0
  BY EmptySeq
<1>2. /\ queue \in [Models -> Seq(Msgs)] /\ \A g \in Models : Len(queue[g]) <= ModelCap
      /\ inbox \in [Clients -> Seq(Msgs \X Nat)] /\ \A c \in Clients : Len(inbox[c]) <= ClientCap
      /\ 0 \in Nat /\ 0 \in 0 .. seq /\ 0 \in 0 .. MaxMsgs
  BY <1>1, ConstantsAssumption DEF Init
<1>3. log \in Seq(Msgs) /\ applied \in [Models -> Seq(Msgs)] /\ page \in [Clients -> Seq(Msgs)]
      /\ snap \in [Clients -> Seq(Msgs)]
  BY <1>1 DEF Init
<1> QED
  BY <1>2, <1>3 DEF Init, TypeOK, NoModel

LEMMA AppendToLogTypes ==
  ASSUME TypeOK, LogRight, NEW b \in Producers, AppendToLog(b)
  PROVE  TypeOK'
<1>1. <<b, bcount[b] + 1>> \in Msgs /\ bcount[b] + 1 \in 0 .. MaxMsgs
  <2>1. bcount[b] \in Nat /\ bcount[b] <= Len(log) /\ Len(log) \in Nat
    BY ConstantsAssumption, LenProperties DEF TypeOK, LogRight
  <2> QED
    BY <2>1, ConstantsAssumption DEF AppendToLog, Msgs
<1>2. log' \in Seq(Msgs)
  BY <1>1, OneMore DEF AppendToLog, TypeOK
<1> QED
  BY <1>1, <1>2 DEF AppendToLog, TypeOK, modelVars, client

LEMMA ReadModelTypes ==
  ASSUME TypeOK, NEW b \in Producers, ReadModel(b)
  PROVE  TypeOK'
BY DEF ReadModel, TypeOK, modelVars, client, history

LEMMA EnqueueTypes ==
  ASSUME TypeOK, LogRight, ModelsRight, NEW b \in Producers, Enqueue(b)
  PROVE  TypeOK'
<1> DEFINE g == bmodel[b]
<1>1. Current(b) \in Msgs
  <2>1. bcount[b] \in 0 .. MaxMsgs /\ bcount[b] # 0
    BY DEF TypeOK, LogRight, Enqueue
  <2> QED
    BY <2>1, ConstantsAssumption DEF Current, Msgs
<1>2. g \in Models
  BY DEF ModelsRight, Enqueue, TypeOK, Models, NoModel
<1>3. /\ log' \in Seq(Msgs)
      /\ bpc' \in [Producers -> {"idle", "read", "enqueue"}]
      /\ bmodel' \in [Producers -> {NoModel} \cup Models]
      /\ dropped' \subseteq Msgs
  BY <1>1 DEF TypeOK, Enqueue
<1>4. queue[g] \in Seq(Msgs) /\ Len(queue[g]) \in Nat
  BY <1>2, LenProperties DEF TypeOK
<1>5. queue' \in [Models -> Seq(Msgs)] /\ \A h \in Models : Len(queue'[h]) <= ModelCap
  <2>1. CASE Len(queue[g]) < ModelCap
    <3>1. queue' = [queue EXCEPT ![g] = Append(@, Current(b))]
      BY <2>1 DEF Enqueue
    <3>2. Append(queue[g], Current(b)) \in Seq(Msgs) /\ Len(Append(queue[g], Current(b))) = Len(queue[g]) + 1
      BY <1>1, <1>4, OneMore
    <3> QED
      BY <1>2, <1>4, <2>1, <3>1, <3>2, ConstantsAssumption DEF TypeOK
  <2>2. CASE ~ (Len(queue[g]) < ModelCap)
    BY <2>2 DEF TypeOK, Enqueue
  <2> QED
    BY <2>1, <2>2
<1> QED
  BY <1>3, <1>5 DEF TypeOK, Enqueue, client

LEMMA ApplyTypes ==
  ASSUME TypeOK, NEW g \in Models, Apply(g)
  PROVE  TypeOK'
<1>1. queue[g] \in Seq(Msgs) /\ queue[g] # <<>> /\ applied[g] \in Seq(Msgs)
  BY DEF TypeOK, Apply
<1>2. /\ Head(queue[g]) \in Msgs /\ Tail(queue[g]) \in Seq(Msgs) /\ Len(Tail(queue[g])) = Len(queue[g]) - 1
      /\ Len(queue[g]) \in Nat
  BY <1>1, OneLess
<1>3. Append(applied[g], Head(queue[g])) \in Seq(Msgs)
  BY <1>1, <1>2, OneMore
<1>4. queue' \in [Models -> Seq(Msgs)] /\ \A h \in Models : Len(queue'[h]) <= ModelCap
  BY <1>2, ConstantsAssumption DEF TypeOK, Apply
<1>5. applied' \in [Models -> Seq(Msgs)]
  BY <1>3 DEF TypeOK, Apply
<1>6. work' \in [Models -> {<<>>} \cup {<<m>> : m \in Msgs} \cup (Msgs \X Nat)]
  BY <1>2 DEF TypeOK, Apply
<1> QED
  BY <1>4, <1>5, <1>6 DEF TypeOK, Apply, producer, client, history

LEMMA NumberTypes ==
  ASSUME TypeOK, NEW g \in Models, Number(g)
  PROVE  TypeOK'
<1>1. work' \in [Models -> {<<>>} \cup {<<m>> : m \in Msgs} \cup (Msgs \X Nat)]
  <2>1. work[g] = <<work[g][1]>> /\ work[g][1] \in Msgs
    BY WorkShape DEF Number
  <2>2. Append(work[g], seq + 1) = <<work[g][1], seq + 1>>
    <3> DEFINE m == work[g][1]
               S == {m, seq + 1}
    <3>1. <<m>> \in Seq(S) /\ <<m, seq + 1>> \in Seq(S) /\ Len(<<m>>) = 1 /\ Len(<<m, seq + 1>>) = 2
          /\ <<m>>[1] = m /\ <<m, seq + 1>>[1] = m /\ <<m, seq + 1>>[2] = seq + 1
      OBVIOUS
    <3>2. /\ Append(<<m>>, seq + 1) \in Seq(S) /\ Len(Append(<<m>>, seq + 1)) = 2
          /\ Append(<<m>>, seq + 1)[1] = m /\ Append(<<m>>, seq + 1)[2] = seq + 1
      <4> HIDE DEF m
      <4>1. seq + 1 \in S /\ 1 \in 1 .. 1
        OBVIOUS
      <4> HIDE DEF S
      <4> QED
        BY <3>1, <4>1, OneMore
    <3>3. \A i \in 1 .. 2 : i = 1 \/ i = 2
      OBVIOUS
    <3>4. Append(<<m>>, seq + 1) = <<m, seq + 1>>
      <4> HIDE DEF S, m
      <4> QED
        BY <3>1, <3>2, <3>3, SeqEqual
    <3> QED
      BY <2>1, <3>4
  <2> QED
    BY <2>1, <2>2 DEF TypeOK, Number
<1>2. seq' \in Nat /\ lastSeq' \in [Clients -> 0 .. seq']
  BY DEF TypeOK, Number, client
<1> QED
  BY <1>1, <1>2 DEF TypeOK, Number, producer, client, history

LEMMA SendTypes ==
  ASSUME TypeOK, NEW g \in Models, Send(g)
  PROVE  TypeOK'
<1>1. work[g] \in Msgs \X Nat /\ work[g][1] \in Msgs
  <2>1. work[g] = <<work[g][1], work[g][2]>> /\ work[g][1] \in Msgs /\ work[g][2] \in Nat
    BY WorkShape DEF Send
  <2> QED
    BY <2>1
<1>2. work' \in [Models -> {<<>>} \cup {<<m>> : m \in Msgs} \cup (Msgs \X Nat)]
  BY DEF TypeOK, Send
<1>3. inbox' \in [Clients -> Seq(Msgs \X Nat)] /\ \A c \in Clients : Len(inbox'[c]) <= ClientCap
  <2> SUFFICES ASSUME NEW c \in Clients
               PROVE  inbox'[c] \in Seq(Msgs \X Nat) /\ Len(inbox'[c]) <= ClientCap
    BY DEF Send
  <2>1. inbox[c] \in Seq(Msgs \X Nat) /\ Len(inbox[c]) \in Nat /\ Len(inbox[c]) <= ClientCap
    BY LenProperties DEF TypeOK
  <2>2. /\ Append(inbox[c], work[g]) \in Seq(Msgs \X Nat)
        /\ Len(Append(inbox[c], work[g])) = Len(inbox[c]) + 1
    BY <1>1, <2>1, OneMore
  <2>3. CASE inbox'[c] = inbox[c]
    BY <2>1, <2>3
  <2>4. CASE inbox'[c] = Append(inbox[c], work[g]) /\ Len(inbox[c]) # ClientCap
    BY <2>1, <2>2, <2>4, ConstantsAssumption
  <2> QED
    BY <2>3, <2>4 DEF Send, Connected
<1>4. overrun' \subseteq Clients \X Msgs
  BY <1>1 DEF TypeOK, Send, Connected
<1> QED
  BY <1>2, <1>3, <1>4 DEF TypeOK, Send, producer

LEMMA StopTypes ==
  ASSUME TypeOK, NEW g \in Models, Stop(g)
  PROVE  TypeOK'
BY DEF TypeOK, Stop, producer, client, history

LEMMA ConnectTypes ==
  ASSUME TypeOK, LogRight, NEW c \in Clients, Connect(c) \/ ReadLog(c) \/ Closed(c) \/ ReadNumber(c)
  PROVE  TypeOK'
<1>1. CASE Connect(c)
  BY <1>1 DEF TypeOK, Connect, Goto, modelVars, producer, history
<1>2. CASE ReadLog(c)
  <2>1. InFlight \subseteq Msgs
    <3>1. \A b \in Producers : bpc[b] # "idle" => Current(b) \in Msgs
      <4> SUFFICES ASSUME NEW b \in Producers, bpc[b] # "idle"
                   PROVE  Current(b) \in Msgs
        OBVIOUS
      <4>1. bcount[b] \in 0 .. MaxMsgs /\ bcount[b] # 0
        BY DEF TypeOK, LogRight
      <4> QED
        BY <4>1, ConstantsAssumption DEF Current, Msgs
    <3>2. \A g \in Models : ToSet(queue[g]) \subseteq Msgs
      <4> SUFFICES ASSUME NEW g \in Models
                   PROVE  ToSet(queue[g]) \subseteq Msgs
        OBVIOUS
      <4>1. queue[g] \in Seq(Msgs)
        BY DEF TypeOK
      <4> QED
        BY <4>1, ElementOfSeq, LenProperties DEF ToSet
    <3>3. \A g \in Models : work[g] # <<>> => work[g][1] \in Msgs
      BY WorkShape
    <3> DEFINE Producing == {Current(b) : b \in {x \in Producers : bpc[x] # "idle"}}
               Queued == UNION {ToSet(queue[g]) : g \in Models}
               InHand == {work[g][1] : g \in {x \in Models : work[x] # <<>>}}
    <3>4. Producing \subseteq Msgs /\ Queued \subseteq Msgs /\ InHand \subseteq Msgs
      BY <3>1, <3>2, <3>3
    <3>5. InFlight = Producing \cup Queued \cup InHand
      BY Zenon DEF InFlight
    <3> HIDE DEF Producing, Queued, InHand
    <3> QED
      BY <3>4, <3>5
  <2> QED
    BY <1>2, <2>1 DEF TypeOK, ReadLog, Goto, modelVars, producer
<1>3. CASE Closed(c)
  BY <1>3 DEF TypeOK, Closed, Goto, modelVars, producer, history
<1>4. CASE ReadNumber(c)
  BY <1>4 DEF TypeOK, ReadNumber, Goto, modelVars, producer, history
<1> QED
  BY <1>1, <1>2, <1>3, <1>4

LEMMA CloseModelTypes ==
  ASSUME TypeOK, NEW c \in Clients, CloseModel(c)
  PROVE  TypeOK'
BY DEF TypeOK, CloseModel, CloseModelGoing, producer, history, NoModel

LEMMA BuildTypes ==
  ASSUME TypeOK, ModelsRight, NEW c \in Clients, Build(c)
  PROVE  TypeOK' /\ built + 1 \in Models
<1> DEFINE Loaded == {d \in Clients : cpc[d] \in {"number", "render", "loop"}}
<1>1. built + 1 \in Models
  <2>1. IsFiniteSet(Clients) /\ Loaded \subseteq Clients /\ c \notin Loaded
    BY ConstantsAssumption DEF Build, BuildFrom, Goto
  <2>2. IsFiniteSet(Loaded) /\ IsFiniteSet(Clients \ {c}) /\ Cardinality(Clients \ {c}) = Cardinality(Clients) - 1
        /\ Cardinality(Clients) \in Nat
    BY <2>1, FS_Subset, FS_RemoveElement, FS_CardinalityType
  <2>3. Cardinality(Loaded) <= Cardinality(Clients) - 1 /\ Cardinality(Loaded) \in Nat
    <3>1. Loaded \subseteq Clients \ {c}
      BY <2>1
    <3> QED
      BY <2>2, <3>1, FS_Subset, FS_CardinalityType
  <2> QED
    BY <2>2, <2>3 DEF ModelsRight, Models
<1> QED
  BY <1>1, EmptySeq DEF TypeOK, Build, BuildFrom, Goto, producer, history

LEMMA RenderTypes ==
  ASSUME TypeOK, ModelsRight, LoadsRight, NEW c \in Clients, Render(c)
  PROVE  TypeOK'
<1>1. model \in Models
  BY DEF TypeOK, ModelsRight, LoadsRight, Render, Goto, NoModel
<1> QED
  BY <1>1 DEF TypeOK, Render, Goto, modelVars, producer, history

LEMMA ForwardTypes ==
  ASSUME TypeOK, NEW c \in Clients, Forward(c)
  PROVE  TypeOK'
<1>1. inbox[c] \in Seq(Msgs \X Nat) /\ inbox[c] # <<>> /\ page[c] \in Seq(Msgs)
  BY DEF TypeOK, Forward
<1>2. /\ Head(inbox[c]) \in Msgs \X Nat /\ Tail(inbox[c]) \in Seq(Msgs \X Nat)
      /\ Len(Tail(inbox[c])) = Len(inbox[c]) - 1 /\ Len(inbox[c]) \in Nat
  BY <1>1, OneLess
<1>3. Append(page[c], Head(inbox[c])[1]) \in Seq(Msgs)
  BY <1>1, <1>2, OneMore
<1>4. inbox' \in [Clients -> Seq(Msgs \X Nat)] /\ \A d \in Clients : Len(inbox'[d]) <= ClientCap
  <2>1. \A d \in Clients : inbox'[d] = IF d = c THEN Tail(inbox[c]) ELSE inbox[d]
    BY DEF TypeOK, Forward
  <2>2. Len(Tail(inbox[c])) <= ClientCap
    <3>1. Len(inbox[c]) <= ClientCap
      BY DEF TypeOK
    <3> QED
      BY <1>2, <3>1, ConstantsAssumption
  <2>3. inbox' \in [Clients -> Seq(Msgs \X Nat)]
    BY <1>2 DEF TypeOK, Forward
  <2> QED
    BY <2>1, <2>2, <2>3 DEF TypeOK
<1>5. page' \in [Clients -> Seq(Msgs)]
  BY <1>3 DEF TypeOK, Forward
<1> QED
  BY <1>4, <1>5 DEF TypeOK, Forward, modelVars, producer, history

-----------------------------------------------------------------------------
(* The log.                                                                *)

LEMMA MsgParts ==
  /\ \A m \in Msgs : m[1] \in Producers /\ m[2] \in 1 .. MaxMsgs /\ m[2] \in Nat /\ m = <<m[1], m[2]>>
  /\ \A b \in Producers, n \in 1 .. MaxMsgs : <<b, n>> \in Msgs
  /\ \A m, n \in Msgs : m[1] = n[1] /\ m[2] = n[2] => m = n
BY ConstantsAssumption DEF Msgs

LEMMA LogHas ==
  ASSUME TypeOK, LogRight
  PROVE  /\ \A m \in Msgs : In(m, log) <=> m[2] <= bcount[m[1]]
         /\ log \in Seq(Msgs) /\ Len(log) \in Nat /\ \A i \in 1 .. Len(log) : log[i] \in Msgs /\ In(log[i], log)
         /\ \A b \in Producers : bcount[b] \in 0 .. MaxMsgs /\ bcount[b] \in Nat
<1>1. \A m \in Msgs : In(m, log) <=> m[2] <= bcount[m[1]]
  <2> SUFFICES ASSUME NEW m \in Msgs
               PROVE  In(m, log) <=> m[2] <= bcount[m[1]]
    OBVIOUS
  <2>1. m[1] \in Producers /\ m[2] \in 1 .. MaxMsgs /\ m = <<m[1], m[2]>>
    BY MsgParts
  <2>2. In(<<m[1], m[2]>>, log) <=> m[2] <= bcount[m[1]]
    BY <2>1 DEF LogRight
  <2> QED
    BY <2>1, <2>2
<1>2. log \in Seq(Msgs) /\ Len(log) \in Nat /\ \A i \in 1 .. Len(log) : log[i] \in Msgs /\ In(log[i], log)
  BY ElementOfSeq, LenProperties DEF TypeOK, In
<1> QED
  BY <1>1, <1>2, ConstantsAssumption DEF TypeOK

\* A producer's new message is the last of its messages in the log.
LEMMA NewMessage ==
  ASSUME TypeOK, LogRight, NEW b \in Producers, AppendToLog(b)
  PROVE  LET m == <<b, bcount[b] + 1>> IN
         /\ m \in Msgs /\ ~ In(m, log) /\ log' = Append(log, m)
         /\ \A x : In(x, log') <=> In(x, log) \/ x = m
         /\ \A x \in Msgs : In(x, log) => ~ Before(m, x) /\ x # m
         /\ bcount' = [bcount EXCEPT ![b] = @ + 1]
<1> DEFINE m == <<b, bcount[b] + 1>>
<1>1. bcount[b] \in Nat /\ bcount[b] + 1 \in 1 .. MaxMsgs
  BY LogHas, ConstantsAssumption DEF AppendToLog, LogRight
<1>2. m \in Msgs /\ m[1] = b /\ m[2] = bcount[b] + 1
  BY <1>1, MsgParts
<1>3. ~ In(m, log)
  BY <1>1, <1>2, LogHas
<1>4. \A x \in Msgs : In(x, log) => ~ Before(m, x) /\ x # m
  <2> SUFFICES ASSUME NEW x \in Msgs, In(x, log), Before(m, x)
               PROVE  FALSE
    BY <1>3
  <2>1. x[2] <= bcount[x[1]] /\ x[1] = b /\ bcount[b] + 1 < x[2] /\ x[2] \in Nat
    BY <1>2, LogHas, MsgParts DEF Before
  <2> QED
    BY <1>1, <2>1
<1>5. log' = Append(log, m) /\ bcount' = [bcount EXCEPT ![b] = @ + 1]
  BY DEF AppendToLog
<1>6. \A x : In(x, log') <=> In(x, log) \/ x = m
  <2> HIDE DEF m
  <2> QED
    BY <1>2, <1>5, LogHas, OneMore
<1> QED
  BY <1>2, <1>3, <1>4, <1>5, <1>6

LEMMA AppendToLogRight ==
  ASSUME TypeOK, LogRight, NEW b \in Producers, AppendToLog(b)
  PROVE  LogRight'
<1> DEFINE m == <<b, bcount[b] + 1>>
<1>1. /\ m \in Msgs /\ ~ In(m, log) /\ log' = Append(log, m)
      /\ \A x : In(x, log') <=> In(x, log) \/ x = m
      /\ \A x \in Msgs : In(x, log) => ~ Before(m, x) /\ x # m
      /\ bcount' = [bcount EXCEPT ![b] = @ + 1]
  BY NewMessage
<1>2. m[1] = b /\ m[2] = bcount[b] + 1 /\ ~ Before(m, m) /\ bcount[b] \in Nat
  BY LogHas DEF Before
<1> HIDE DEF m
<1>3. /\ Len(log') = Len(log) + 1 /\ Len(log) \in Nat /\ log'[Len(log) + 1] = m
      /\ \A i \in 1 .. Len(log) : log'[i] = log[i] /\ log[i] \in Msgs /\ In(log[i], log)
  BY <1>1, LogHas, OneMore
<1>4. \A i \in 1 .. Len(log') : i = Len(log) + 1 \/ i \in 1 .. Len(log)
  BY <1>3
<1>5. \A i, j \in 1 .. Len(log') : log'[i] = log'[j] => i = j
  BY <1>1, <1>3, <1>4 DEF LogRight
<1>6. \A i, j \in 1 .. Len(log') : Before(log'[i], log'[j]) => i < j
  BY <1>1, <1>2, <1>3, <1>4 DEF LogRight
<1>7. \A c \in Producers, n \in 1 .. MaxMsgs : In(<<c, n>>, log') <=> n <= bcount'[c]
  <2> SUFFICES ASSUME NEW c \in Producers, NEW n \in 1 .. MaxMsgs
               PROVE  In(<<c, n>>, log') <=> n <= bcount'[c]
    OBVIOUS
  <2>1. In(<<c, n>>, log) <=> n <= bcount[c]
    BY DEF LogRight
  <2>2. <<c, n>> = m <=> c = b /\ n = bcount[b] + 1
    BY DEF m
  <2>3. bcount'[c] = IF c = b THEN bcount[b] + 1 ELSE bcount[c]
    BY <1>1 DEF TypeOK
  <2> QED
    BY <1>1, <1>2, <2>1, <2>2, <2>3, ConstantsAssumption
<1>8. Len(log') <= MaxMsgs
  BY <1>3, ConstantsAssumption DEF AppendToLog
<1>9. \A c \in Producers : bcount'[c] <= Len(log') /\ (bpc'[c] # "idle" => bcount'[c] # 0)
  <2> SUFFICES ASSUME NEW c \in Producers
               PROVE  bcount'[c] <= Len(log') /\ (bpc'[c] # "idle" => bcount'[c] # 0)
    OBVIOUS
  <2>1. bcount[c] \in Nat /\ bcount[c] <= Len(log) /\ (bpc[c] # "idle" => bcount[c] # 0)
    BY LogHas DEF LogRight
  <2>2. bcount'[c] = (IF c = b THEN bcount[b] + 1 ELSE bcount[c]) /\ (c # b => bpc'[c] = bpc[c])
    BY <1>1 DEF TypeOK, AppendToLog
  <2> QED
    BY <1>2, <1>3, <2>1, <2>2
<1> QED
  BY <1>5, <1>6, <1>7, <1>8, <1>9 DEF LogRight

LEMMA LogStays ==
  ASSUME TypeOK, LogRight, UNCHANGED <<log, bcount>>,
         \A b \in Producers : bpc'[b] # "idle" => bpc[b] # "idle"
  PROVE  LogRight'
BY DEF LogRight, In

\* Only a broadcast changes the log.
LEMMA Elsewhere ==
  ASSUME TypeOK
  PROVE  /\ \A b \in Producers : ReadModel(b) \/ Enqueue(b) =>
              UNCHANGED <<log, bcount>> /\ \A x \in Producers : bpc'[x] # "idle" => bpc[x] # "idle"
         /\ \A g \in Models : ModelStep(g) => UNCHANGED <<log, producer>>
         /\ \A c \in Clients : Connect(c) \/ LoadStep(c) \/ Forward(c) => UNCHANGED <<log, producer>>
<1>1. ASSUME NEW b \in Producers, ReadModel(b)
      PROVE  UNCHANGED <<log, bcount>> /\ \A x \in Producers : bpc'[x] # "idle" => bpc[x] # "idle"
  BY <1>1 DEF ReadModel, TypeOK
<1>2. ASSUME NEW b \in Producers, Enqueue(b)
      PROVE  UNCHANGED <<log, bcount>> /\ \A x \in Producers : bpc'[x] # "idle" => bpc[x] # "idle"
  BY <1>2 DEF Enqueue, TypeOK
<1>3. \A g \in Models : ModelStep(g) => UNCHANGED <<log, producer>>
  BY DEF ModelStep, Apply, Number, Send, Stop, producer
<1>4. \A c \in Clients : Connect(c) \/ LoadStep(c) \/ Forward(c) => UNCHANGED <<log, producer>>
  BY DEF LoadStep, Connect, ReadLog, CloseModel, CloseModelGoing, Closed, Build, BuildFrom, ReadNumber, Render,
         Forward, producer
<1> QED
  BY <1>1, <1>2, <1>3, <1>4

-----------------------------------------------------------------------------
(* What is shown is in the log.                                            *)

LEMMA LoggedStays ==
  ASSUME Logged, UNCHANGED <<log, queue, applied, page, inbox, work, seq>>
  PROVE  Logged'
BY DEF Logged, In

LEMMA LoggedAppend ==
  ASSUME TypeOK, LogRight, Logged, NEW b \in Producers, AppendToLog(b)
  PROVE  Logged'
<1>1. \A x : In(x, log) => In(x, log')
  BY NewMessage
<1>2. UNCHANGED <<queue, applied, page, inbox, work, seq>>
  BY DEF AppendToLog, modelVars, client
<1> QED
  BY <1>1, <1>2 DEF Logged

LEMMA LoggedEnqueue ==
  ASSUME TypeOK, LogRight, ModelsRight, Logged, NEW b \in Producers, Enqueue(b)
  PROVE  Logged'
<1> DEFINE g == bmodel[b]
<1>1. g \in Models /\ queue[g] \in Seq(Msgs)
  BY DEF ModelsRight, Enqueue, TypeOK, Models, NoModel
<1>2. Current(b) \in Msgs /\ In(Current(b), log)
  <2>1. bcount[b] \in 1 .. MaxMsgs
    BY LogHas, ConstantsAssumption DEF LogRight, Enqueue
  <2> QED
    BY <2>1, LogHas, MsgParts DEF Current, LogRight
<1>3. \A h \in Models, m \in Msgs : In(m, queue'[h]) => In(m, queue[h]) \/ m = Current(b)
  <2>1. \A x : In(x, Append(queue[g], Current(b))) <=> In(x, queue[g]) \/ x = Current(b)
    BY <1>1, <1>2, OneMore
  <2>2. \A h \in Models : queue'[h] = queue[h] \/ (h = g /\ queue'[h] = Append(queue[g], Current(b)))
    BY DEF Enqueue, TypeOK
  <2> QED
    BY <2>1, <2>2
<1>4. UNCHANGED <<log, applied, page, inbox, work, seq>>
  BY DEF Enqueue, client
<1> QED
  BY <1>2, <1>3, <1>4 DEF Logged

\* What taking the next message does.
LEMMA Taken ==
  ASSUME TypeOK, NEW g \in Models, Apply(g)
  PROVE  LET m == Head(queue[g]) IN
         /\ m \in Msgs /\ m = queue[g][1] /\ 1 \in 1 .. Len(queue[g]) /\ Len(queue[g]) \in Nat
         /\ \A x : In(x, queue[g]) <=> In(x, queue'[g]) \/ x = m
         /\ \A x : In(x, applied'[g]) <=> In(x, applied[g]) \/ x = m
         /\ Len(queue'[g]) = Len(queue[g]) - 1
         /\ \A i \in 1 .. Len(queue'[g]) : queue'[g][i] = queue[g][i + 1] /\ i + 1 \in 1 .. Len(queue[g])
         /\ Len(applied[g]) \in Nat /\ Len(applied'[g]) = Len(applied[g]) + 1
         /\ \A i \in 1 .. Len(applied'[g]) : applied'[g][i] = IF i = Len(applied[g]) + 1 THEN m ELSE applied[g][i]
         /\ work'[g] = <<m>> /\ work'[g] # <<>> /\ work'[g][1] = m /\ Len(work'[g]) = 1
         /\ \A h \in Models \ {g} : queue'[h] = queue[h] /\ applied'[h] = applied[h] /\ work'[h] = work[h]
<1> DEFINE m == Head(queue[g])
<1>1. queue[g] \in Seq(Msgs) /\ queue[g] # <<>> /\ applied[g] \in Seq(Msgs) /\ Len(applied[g]) \in Nat
  BY LenProperties DEF TypeOK, Apply
<1>2. /\ m \in Msgs /\ m = queue[g][1] /\ 1 \in 1 .. Len(queue[g]) /\ Len(queue[g]) \in Nat
      /\ Len(Tail(queue[g])) = Len(queue[g]) - 1
      /\ \A i \in 1 .. Len(Tail(queue[g])) : Tail(queue[g])[i] = queue[g][i + 1] /\ i + 1 \in 1 .. Len(queue[g])
      /\ \A x : In(x, queue[g]) <=> In(x, Tail(queue[g])) \/ x = m
  BY <1>1, OneLess
<1>3. queue'[g] = Tail(queue[g]) /\ applied'[g] = Append(applied[g], m) /\ work'[g] = <<m>>
      /\ \A h \in Models \ {g} : queue'[h] = queue[h] /\ applied'[h] = applied[h] /\ work'[h] = work[h]
  BY DEF TypeOK, Apply
<1>4. /\ Len(Append(applied[g], m)) = Len(applied[g]) + 1
      /\ \A i \in 1 .. Len(applied[g]) + 1 : Append(applied[g], m)[i] = IF i = Len(applied[g]) + 1 THEN m ELSE applied[g][i]
      /\ \A x : In(x, Append(applied[g], m)) <=> In(x, applied[g]) \/ x = m
  <2> HIDE DEF m
  <2> QED
    BY <1>1, <1>2, OneMore
<1>5. work'[g] # <<>> /\ work'[g][1] = m /\ Len(work'[g]) = 1
  BY <1>3
<1> HIDE DEF m
<1>6. /\ m \in Msgs /\ m = queue[g][1] /\ 1 \in 1 .. Len(queue[g]) /\ Len(queue[g]) \in Nat
      /\ \A x : In(x, queue[g]) <=> In(x, queue'[g]) \/ x = m
      /\ \A x : In(x, applied'[g]) <=> In(x, applied[g]) \/ x = m
      /\ Len(queue'[g]) = Len(queue[g]) - 1
      /\ \A i \in 1 .. Len(queue'[g]) : queue'[g][i] = queue[g][i + 1] /\ i + 1 \in 1 .. Len(queue[g])
      /\ Len(applied[g]) \in Nat /\ Len(applied'[g]) = Len(applied[g]) + 1
      /\ \A i \in 1 .. Len(applied'[g]) : applied'[g][i] = IF i = Len(applied[g]) + 1 THEN m ELSE applied[g][i]
  BY <1>1, <1>2, <1>3, <1>4
<1> QED
  BY <1>3, <1>5, <1>6 DEF m

LEMMA LoggedApply ==
  ASSUME TypeOK, Logged, NEW g \in Models, Apply(g)
  PROVE  Logged'
<1>1. /\ Head(queue[g]) \in Msgs /\ In(Head(queue[g]), queue[g])
      /\ \A x : In(x, queue[g]) <=> In(x, queue'[g]) \/ x = Head(queue[g])
      /\ \A x : In(x, applied'[g]) <=> In(x, applied[g]) \/ x = Head(queue[g])
      /\ Len(work'[g]) = 1
      /\ \A h \in Models \ {g} : queue'[h] = queue[h] /\ applied'[h] = applied[h] /\ work'[h] = work[h]
  BY Taken
<1>2. UNCHANGED <<log, page, inbox, seq>>
  BY DEF Apply, client
<1> QED
  BY <1>1, <1>2 DEF Logged

\* What numbering and sending do.
LEMMA Numbered ==
  ASSUME TypeOK, NEW g \in Models, Number(g)
  PROVE  /\ work[g] # <<>> /\ Len(work[g]) = 1 /\ work[g][1] \in Msgs
         /\ work'[g] # <<>> /\ Len(work'[g]) = 2 /\ work'[g][1] = work[g][1] /\ work'[g][2] = seq + 1
         /\ \A h \in Models \ {g} : work'[h] = work[h]
         /\ seq' = seq + 1 /\ seq \in Nat
<1>1. work[g] # <<>> /\ Len(work[g]) = 1 /\ work[g][1] \in Msgs /\ work[g] = <<work[g][1]>>
  BY WorkShape DEF Number
<1>2. \A h \in Models : work'[h] = IF h = g THEN Append(work[g], seq + 1) ELSE work[h]
  BY DEF Number, TypeOK
<1>3. /\ Len(Append(work[g], seq + 1)) = 2 /\ Append(work[g], seq + 1) # <<>>
      /\ Append(work[g], seq + 1)[1] = work[g][1] /\ Append(work[g], seq + 1)[2] = seq + 1
  <2> DEFINE S == {work[g][1], seq + 1}
  <2>1. work[g] \in Seq(S) /\ seq + 1 \in S /\ 1 \in 1 .. 1
    <3>1. <<work[g][1]>> \in Seq(S)
      OBVIOUS
    <3>2. work[g] \in Seq(S)
      BY <1>1, <3>1, Zenon
    <3> QED
      BY <3>2
  <2> HIDE DEF S
  <2>2. /\ Len(Append(work[g], seq + 1)) = 2 /\ Append(work[g], seq + 1)[1] = work[g][1]
        /\ Append(work[g], seq + 1)[2] = seq + 1
    BY <1>1, <2>1, OneMore
  <2> QED
    BY <2>2, EmptyHas
<1> QED
  BY <1>1, <1>2, <1>3 DEF Number, TypeOK

LEMMA Sent ==
  ASSUME TypeOK, NEW g \in Models, Send(g)
  PROVE  /\ work[g] # <<>> /\ Len(work[g]) = 2 /\ work[g][1] \in Msgs /\ work[g][2] \in Nat
         /\ work[g] \in Msgs \X Nat
         /\ work'[g] = <<>> /\ Len(work'[g]) = 0 /\ \A h \in Models \ {g} : work'[h] = work[h]
         /\ \A c \in Clients :
              \/ /\ inbox'[c] = inbox[c]
                 /\ cpc[c] = "idle" \/ <<c, work[g][1]>> \in overrun'
              \/ /\ inbox'[c] = Append(inbox[c], work[g]) /\ Len(inbox'[c]) = Len(inbox[c]) + 1
                 /\ Len(inbox[c]) \in Nat /\ cpc[c] # "idle"
                 /\ inbox'[c][Len(inbox[c]) + 1] = work[g]
                 /\ \A i \in 1 .. Len(inbox[c]) : inbox'[c][i] = inbox[c][i]
                 /\ \A i \in 1 .. Len(inbox'[c]) : i = Len(inbox[c]) + 1 \/ i \in 1 .. Len(inbox[c])
<1>1. /\ work[g] # <<>> /\ Len(work[g]) = 2 /\ work[g][1] \in Msgs /\ work[g][2] \in Nat
      /\ work[g] = <<work[g][1], work[g][2]>>
  BY WorkShape DEF Send
<1>2. work[g] \in Msgs \X Nat
  BY <1>1
<1>3. work'[g] = <<>> /\ Len(work'[g]) = 0 /\ \A h \in Models \ {g} : work'[h] = work[h]
  BY DEF Send, TypeOK
<1>4. ASSUME NEW c \in Clients
      PROVE  \/ /\ inbox'[c] = inbox[c]
                /\ cpc[c] = "idle" \/ <<c, work[g][1]>> \in overrun'
             \/ /\ inbox'[c] = Append(inbox[c], work[g]) /\ cpc[c] # "idle"
  BY DEF Send, Connected
<1>5. ASSUME NEW c \in Clients
      PROVE  /\ Len(Append(inbox[c], work[g])) = Len(inbox[c]) + 1 /\ Len(inbox[c]) \in Nat
             /\ Append(inbox[c], work[g])[Len(inbox[c]) + 1] = work[g]
             /\ \A i \in 1 .. Len(inbox[c]) : Append(inbox[c], work[g])[i] = inbox[c][i]
             /\ \A i \in 1 .. Len(Append(inbox[c], work[g])) : i = Len(inbox[c]) + 1 \/ i \in 1 .. Len(inbox[c])
  <2>1. inbox[c] \in Seq(Msgs \X Nat) /\ Len(inbox[c]) \in Nat
    BY LenProperties DEF TypeOK
  <2>2. /\ Len(Append(inbox[c], work[g])) = Len(inbox[c]) + 1
        /\ Append(inbox[c], work[g])[Len(inbox[c]) + 1] = work[g]
        /\ \A i \in 1 .. Len(inbox[c]) : Append(inbox[c], work[g])[i] = inbox[c][i]
    BY <1>2, <2>1, OneMore
  <2> QED
    BY <2>1, <2>2
<1> QED
  BY <1>1, <1>2, <1>3, <1>4, <1>5

\* What forwarding does.
LEMMA Forwarded ==
  ASSUME TypeOK, NEW c \in Clients, Forward(c)
  PROVE  LET e == inbox[c][1] IN
         /\ cpc[c] = "loop" /\ e \in Msgs \X Nat /\ e[1] \in Msgs /\ e[2] \in Nat
         /\ 1 \in 1 .. Len(inbox[c]) /\ Len(inbox[c]) \in Nat /\ Len(inbox'[c]) = Len(inbox[c]) - 1
         /\ \A i \in 1 .. Len(inbox'[c]) : inbox'[c][i] = inbox[c][i + 1] /\ i + 1 \in 1 .. Len(inbox[c])
         /\ \A i \in 1 .. Len(inbox[c]) : i = 1 \/ (i - 1 \in 1 .. Len(inbox'[c]) /\ inbox[c][i] = inbox'[c][i - 1])
         /\ lastSeq' = lastSeq /\ cpc' = cpc
         /\ \A d \in Clients \ {c} : inbox'[d] = inbox[d] /\ page'[d] = page[d]
         /\ e[2] <= lastSeq[c] => page'[c] = page[c]
         /\ e[2] > lastSeq[c] =>
              /\ Len(page[c]) \in Nat /\ Len(page'[c]) = Len(page[c]) + 1
              /\ \A x : In(x, page'[c]) <=> In(x, page[c]) \/ x = e[1]
              /\ \A i \in 1 .. Len(page'[c]) : page'[c][i] = IF i = Len(page[c]) + 1 THEN e[1] ELSE page[c][i]
<1> DEFINE e == inbox[c][1]
<1>1. inbox[c] \in Seq(Msgs \X Nat) /\ inbox[c] # <<>> /\ page[c] \in Seq(Msgs) /\ Len(page[c]) \in Nat
  BY LenProperties DEF TypeOK, Forward
<1>2. /\ e \in Msgs \X Nat /\ e = Head(inbox[c]) /\ 1 \in 1 .. Len(inbox[c]) /\ Len(inbox[c]) \in Nat
      /\ Len(Tail(inbox[c])) = Len(inbox[c]) - 1
      /\ \A i \in 1 .. Len(Tail(inbox[c])) : Tail(inbox[c])[i] = inbox[c][i + 1] /\ i + 1 \in 1 .. Len(inbox[c])
  BY <1>1, OneLess
<1>3. e[1] \in Msgs /\ e[2] \in Nat
  BY <1>2
<1>4. /\ cpc[c] = "loop" /\ inbox'[c] = Tail(inbox[c]) /\ lastSeq' = lastSeq /\ cpc' = cpc
      /\ \A d \in Clients \ {c} : inbox'[d] = inbox[d] /\ page'[d] = page[d]
      /\ page'[c] = IF Head(inbox[c])[2] <= lastSeq[c] THEN page[c] ELSE Append(page[c], Head(inbox[c])[1])
  BY DEF Forward, TypeOK
<1>5. \A i \in 1 .. Len(inbox[c]) : i = 1 \/ (i - 1 \in 1 .. Len(inbox'[c]) /\ inbox[c][i] = inbox'[c][i - 1])
  BY <1>2, <1>4
<1>6. /\ Len(Append(page[c], e[1])) = Len(page[c]) + 1
      /\ \A x : In(x, Append(page[c], e[1])) <=> In(x, page[c]) \/ x = e[1]
      /\ \A i \in 1 .. Len(page[c]) + 1 : Append(page[c], e[1])[i] = IF i = Len(page[c]) + 1 THEN e[1] ELSE page[c][i]
  <2> HIDE DEF e
  <2> QED
    BY <1>1, <1>3, OneMore
<1>7. e[2] > lastSeq[c] => ~ (e[2] <= lastSeq[c])
  BY <1>3 DEF TypeOK
<1> HIDE DEF e
<1>8. e[2] > lastSeq[c] =>
              /\ Len(page'[c]) = Len(page[c]) + 1
              /\ \A x : In(x, page'[c]) <=> In(x, page[c]) \/ x = e[1]
              /\ \A i \in 1 .. Len(page'[c]) : page'[c][i] = IF i = Len(page[c]) + 1 THEN e[1] ELSE page[c][i]
  BY <1>2, <1>4, <1>6, <1>7
<1> QED
  BY <1>1, <1>2, <1>3, <1>4, <1>5, <1>8 DEF e

LEMMA LoggedNumber ==
  ASSUME TypeOK, Logged, NEW g \in Models, Number(g)
  PROVE  Logged'
<1>1. \A c \in Clients : \A i \in 1 .. Len(inbox[c]) : inbox[c][i][2] \in Nat
  <2> SUFFICES ASSUME NEW c \in Clients, NEW i \in 1 .. Len(inbox[c])
               PROVE  inbox[c][i][2] \in Nat
    OBVIOUS
  <2>1. inbox[c][i] \in Msgs \X Nat
    BY ElementOfSeq DEF TypeOK
  <2> QED
    BY <2>1
<1>2. \A h \in Models : Len(work[h]) = 2 => work[h][2] \in Nat
  BY WorkShape
<1>3. UNCHANGED <<log, queue, applied, page, inbox>>
  BY DEF Number, client
<1>4. /\ work'[g][2] = seq + 1 /\ seq' = seq + 1 /\ seq \in Nat
      /\ \A h \in Models \ {g} : work'[h] = work[h]
  BY Numbered
<1>5. \A n \in Nat : n <= seq => n <= seq'
  BY <1>4
<1>6. \A c \in Clients : \A i \in 1 .. Len(inbox'[c]) : In(inbox'[c][i][1], log') /\ inbox'[c][i][2] <= seq'
  BY <1>1, <1>3, <1>5 DEF Logged, In
<1>7. \A h \in Models : Len(work'[h]) = 2 => work'[h][2] <= seq'
  BY <1>2, <1>4, <1>5 DEF Logged
<1>8. /\ \A h \in Models : \A m \in Msgs : In(m, queue'[h]) \/ In(m, applied'[h]) => In(m, log')
      /\ \A c \in Clients : \A m \in Msgs : In(m, page'[c]) => In(m, log')
  BY <1>3 DEF Logged, In
<1> QED
  BY <1>6, <1>7, <1>8 DEF Logged

LEMMA LoggedSend ==
  ASSUME TypeOK, ModelsRight, Logged, NEW g \in Models, Send(g)
  PROVE  Logged'
<1>1. In(work[g][1], log) /\ work[g][2] <= seq
  BY Sent DEF ModelsRight, Logged
<1>2. UNCHANGED <<log, queue, applied, page, seq>>
  BY DEF Send
<1>3. \A c \in Clients : \A i \in 1 .. Len(inbox'[c]) : In(inbox'[c][i][1], log) /\ inbox'[c][i][2] <= seq
  <2> SUFFICES ASSUME NEW c \in Clients, NEW i \in 1 .. Len(inbox'[c])
               PROVE  In(inbox'[c][i][1], log) /\ inbox'[c][i][2] <= seq
    OBVIOUS
  <2>1. \/ i \in 1 .. Len(inbox[c]) /\ inbox'[c][i] = inbox[c][i]
        \/ inbox'[c][i] = work[g]
    <3>1. \/ inbox'[c] = inbox[c]
          \/ /\ inbox'[c][Len(inbox[c]) + 1] = work[g]
             /\ \A j \in 1 .. Len(inbox[c]) : inbox'[c][j] = inbox[c][j]
             /\ \A j \in 1 .. Len(inbox'[c]) : j = Len(inbox[c]) + 1 \/ j \in 1 .. Len(inbox[c])
      BY Sent
    <3> QED
      BY <3>1
  <2> QED
    BY <1>1, <2>1 DEF Logged
<1>4. \A h \in Models : Len(work'[h]) = 2 => work'[h][2] <= seq
  BY Sent DEF Logged
<1> QED
  BY <1>2, <1>3, <1>4 DEF Logged, In

LEMMA LoggedBuild ==
  ASSUME TypeOK, ModelsRight, LoadsRight, Logged, NEW c \in Clients, Build(c)
  PROVE  Logged'
<1>1. \A m : In(m, snap[c]) => In(m, log)
  <2>1. Len(snap[c]) <= Len(log) /\ \A i \in 1 .. Len(snap[c]) : snap[c][i] = log[i]
    BY DEF LoadsRight, Build, BuildFrom, Goto
  <2>2. Len(snap[c]) \in Nat /\ Len(log) \in Nat
    BY LenProperties DEF TypeOK
  <2>3. \A i \in 1 .. Len(snap[c]) : i \in 1 .. Len(log)
    BY <2>1, <2>2
  <2> QED
    BY <2>1, <2>3 DEF In
<1>2. UNCHANGED <<log, queue, page, inbox, work, seq>>
  BY DEF Build, BuildFrom
<1>3. \A h \in Models : applied'[h] = applied[h] \/ applied'[h] = snap[c]
  BY DEF TypeOK, Build, BuildFrom
<1>4. \A h \in Models : \A m \in Msgs : In(m, queue'[h]) \/ In(m, applied'[h]) => In(m, log)
  <2> TAKE h \in Models
  <2>1. \A m \in Msgs : In(m, queue[h]) \/ In(m, applied[h]) => In(m, log)
    BY DEF Logged
  <2>2. queue'[h] = queue[h] /\ (applied'[h] = applied[h] \/ applied'[h] = snap[c])
    BY <1>2, <1>3
  <2> QED
    BY <1>1, <2>1, <2>2
<1> QED
  BY <1>2, <1>4 DEF Logged, In

LEMMA LoggedRender ==
  ASSUME TypeOK, ModelsRight, LoadsRight, Logged, NEW c \in Clients, Render(c)
  PROVE  Logged'
<1>1. model \in Models
  BY DEF TypeOK, ModelsRight, LoadsRight, Render, Goto, NoModel
<1>2. UNCHANGED <<log, queue, applied, inbox, work, seq>>
  BY DEF Render, modelVars
<1>3. \A d \in Clients : page'[d] = page[d] \/ page'[d] = applied[model]
  BY DEF TypeOK, Render
<1>4. \A d \in Clients : \A m \in Msgs : In(m, page'[d]) => In(m, log)
  BY <1>1, <1>3 DEF Logged
<1> QED
  BY <1>2, <1>4 DEF Logged, In

LEMMA LoggedForward ==
  ASSUME TypeOK, Logged, NEW c \in Clients, Forward(c)
  PROVE  Logged'
<1>1. UNCHANGED <<log, queue, applied, work, seq>>
  BY DEF Forward, modelVars
<1> DEFINE e == inbox[c][1]
<1>2. /\ e[1] \in Msgs /\ 1 \in 1 .. Len(inbox[c]) /\ e[2] \in Nat
      /\ \A i \in 1 .. Len(inbox'[c]) : inbox'[c][i] = inbox[c][i + 1] /\ i + 1 \in 1 .. Len(inbox[c])
      /\ \A d \in Clients \ {c} : inbox'[d] = inbox[d] /\ page'[d] = page[d]
      /\ e[2] <= lastSeq[c] => page'[c] = page[c]
      /\ e[2] > lastSeq[c] => \A x : In(x, page'[c]) <=> In(x, page[c]) \/ x = e[1]
  BY Forwarded
<1>3. e[2] <= lastSeq[c] \/ e[2] > lastSeq[c]
  BY <1>2 DEF TypeOK
<1>4. \A m : In(m, page'[c]) => In(m, page[c]) \/ m = e[1]
  BY <1>2, <1>3
<1>5. In(e[1], log)
  BY <1>2 DEF Logged
<1> HIDE DEF e
<1>6. \A d \in Clients : \A m \in Msgs : In(m, page'[d]) => In(m, log)
  BY <1>2, <1>4, <1>5 DEF Logged
<1>7. \A d \in Clients : \A i \in 1 .. Len(inbox'[d]) : In(inbox'[d][i][1], log) /\ inbox'[d][i][2] <= seq
  BY <1>2 DEF Logged
<1> QED
  BY <1>1, <1>6, <1>7 DEF Logged, In

-----------------------------------------------------------------------------
(* The models.                                                             *)

LEMMA CountOfModels ==
  ASSUME TypeOK
  PROVE  Cardinality(Clients) \in Nat /\ built \in Nat /\ Models \subseteq Nat
BY ConstantsAssumption, FS_CardinalityType DEF TypeOK, Models

LEMMA ModelsStay ==
  ASSUME ModelsRight, UNCHANGED <<model, built, queue, applied, work, run>>,
         \A c \in Clients : cpc'[c] \in {"number", "render", "loop"} <=> cpc[c] \in {"number", "render", "loop"},
         \A b \in Producers : bpc'[b] = "enqueue" => bmodel'[b] \in 1 .. built
  PROVE  ModelsRight'
<1>1. {c \in Clients : cpc'[c] \in {"number", "render", "loop"}} = {c \in Clients : cpc[c] \in {"number", "render", "loop"}}
  OBVIOUS
<1> QED
  BY <1>1 DEF ModelsRight, In

LEMMA ModelsProducer ==
  ASSUME TypeOK, ModelsRight, NEW b \in Producers, AppendToLog(b) \/ ReadModel(b)
  PROVE  ModelsRight'
<1>1. UNCHANGED <<model, built, queue, applied, work, run, cpc>>
  BY DEF AppendToLog, ReadModel, modelVars, client
<1>2. \A x \in Producers : bpc'[x] = "enqueue" => bmodel'[x] \in 1 .. built
  <2>1. CASE AppendToLog(b)
    BY <2>1 DEF AppendToLog, TypeOK, ModelsRight
  <2>2. CASE ReadModel(b)
    BY <2>2, ConstantsAssumption DEF ReadModel, TypeOK, ModelsRight, NoModel, Models
  <2> QED
    BY <2>1, <2>2
<1> QED
  BY <1>1, <1>2, ModelsStay

LEMMA ModelsEnqueue ==
  ASSUME TypeOK, ModelsRight, NEW b \in Producers, Enqueue(b)
  PROVE  ModelsRight'
<1>1. UNCHANGED <<model, built, applied, work, run, cpc>>
  BY DEF Enqueue, client
<1>2. \A x \in Producers : bpc'[x] = "enqueue" => bmodel'[x] \in 1 .. built
  BY DEF Enqueue, TypeOK, ModelsRight
<1>3. \A g \in Models : g > built => queue'[g] = <<>>
  <2> SUFFICES ASSUME NEW g \in Models, g > built
               PROVE  queue'[g] = <<>>
    OBVIOUS
  <2>1. bmodel[b] \in 1 .. built /\ built \in Nat /\ g \in Nat
    BY CountOfModels DEF Enqueue, ModelsRight, Models
  <2>2. g # bmodel[b]
    BY <2>1
  <2> QED
    BY <2>2 DEF Enqueue, TypeOK, ModelsRight
<1> QED
  BY <1>1, <1>2, <1>3 DEF ModelsRight, In

LEMMA ModelsApply ==
  ASSUME TypeOK, ModelsRight, NEW g \in Models, Apply(g)
  PROVE  ModelsRight'
<1>1. UNCHANGED <<model, built, run, cpc, bpc, bmodel>>
  BY DEF Apply, producer, client
<1>2. \A h \in Models : h > built => h # g
  BY DEF ModelsRight, Apply
<1>3. \A h \in Models : h > built => queue'[h] = <<>>
  BY <1>2 DEF Apply, TypeOK, ModelsRight
<1>4. \A h \in Models : work'[h] # <<>> => run[h] \in {"running", "stopping"} /\ In(work'[h][1], applied'[h])
  <2> SUFFICES ASSUME NEW h \in Models, work'[h] # <<>>
               PROVE  run[h] \in {"running", "stopping"} /\ In(work'[h][1], applied'[h])
    OBVIOUS
  <2>1. CASE h = g
    BY <2>1, Taken DEF Apply
  <2>2. CASE h # g
    <3>1. work'[h] = work[h] /\ applied'[h] = applied[h]
      BY <2>2, Taken
    <3> QED
      BY <3>1 DEF ModelsRight
  <2> QED
    BY <2>1, <2>2
<1> QED
  BY <1>1, <1>3, <1>4 DEF ModelsRight

LEMMA ModelsNumber ==
  ASSUME TypeOK, ModelsRight, NEW g \in Models, Number(g) \/ Send(g)
  PROVE  ModelsRight'
<1>1. UNCHANGED <<model, built, run, cpc, bpc, bmodel, queue, applied>>
  BY DEF Number, Send, producer, client
<1>2. \A h \in Models : work'[h] # <<>> => work[h] # <<>> /\ work'[h][1] = work[h][1]
  BY Numbered, Sent
<1> QED
  BY <1>1, <1>2 DEF ModelsRight, In

LEMMA ModelsStop ==
  ASSUME TypeOK, ModelsRight, NEW g \in Models, Stop(g)
  PROVE  ModelsRight'
<1>1. UNCHANGED <<model, built, cpc, bpc, bmodel, queue, applied, work>>
  BY DEF Stop, producer, client
<1>2. run[g] = "stopping" /\ work[g] = <<>> /\ \A h \in Models : run'[h] = IF h = g THEN "stopped" ELSE run[h]
  BY DEF Stop, TypeOK
<1> QED
  BY <1>1, <1>2 DEF ModelsRight, In

LEMMA ModelsLoad ==
  ASSUME TypeOK, ModelsRight, NEW c \in Clients,
         Connect(c) \/ ReadLog(c) \/ Closed(c) \/ ReadNumber(c) \/ Render(c) \/ Forward(c)
  PROVE  ModelsRight'
<1>1. UNCHANGED <<model, built, run, bpc, bmodel, queue, applied, work>>
  BY DEF Connect, ReadLog, Closed, ReadNumber, Render, Forward, modelVars, producer
<1>2. \A d \in Clients : cpc'[d] \in {"number", "render", "loop"} <=> cpc[d] \in {"number", "render", "loop"}
  BY DEF Connect, ReadLog, Closed, ReadNumber, Render, Forward, Goto, TypeOK
<1> QED
  BY <1>1, <1>2, ModelsStay DEF ModelsRight

LEMMA ModelsClose ==
  ASSUME TypeOK, ModelsRight, NEW c \in Clients, CloseModel(c)
  PROVE  ModelsRight'
<1>1. UNCHANGED <<model, built, bpc, bmodel, queue, applied, work>>
  BY DEF CloseModel, CloseModelGoing, producer
<1>2. \A d \in Clients : cpc'[d] \in {"number", "render", "loop"} <=> cpc[d] \in {"number", "render", "loop"}
  BY DEF CloseModel, CloseModelGoing, TypeOK
<1>3. {d \in Clients : cpc'[d] \in {"number", "render", "loop"}} = {d \in Clients : cpc[d] \in {"number", "render", "loop"}}
  BY <1>2
<1>4. \A g \in Models : run'[g] = run[g] \/ (run[g] = "running" /\ run'[g] = "stopping")
  BY DEF CloseModel, CloseModelGoing, TypeOK
<1> QED
  BY <1>1, <1>3, <1>4 DEF ModelsRight, In

LEMMA ModelsBuild ==
  ASSUME TypeOK, ModelsRight, NEW c \in Clients, Build(c)
  PROVE  ModelsRight'
<1> DEFINE Loaded == {d \in Clients : cpc[d] \in {"number", "render", "loop"}}
<1>1. UNCHANGED <<bpc, bmodel, queue, work>> /\ model' = built + 1 /\ built' = built + 1
  BY DEF Build, BuildFrom, producer
<1>2. built + 1 \in Models /\ built \in Nat
  BY BuildTypes, CountOfModels
<1>3. built + 1 = Cardinality({d \in Clients : cpc'[d] \in {"number", "render", "loop"}})
  <2>1. {d \in Clients : cpc'[d] \in {"number", "render", "loop"}} = Loaded \cup {c} /\ c \notin Loaded
    BY DEF Build, BuildFrom, Goto, TypeOK
  <2>2. IsFiniteSet(Loaded)
    BY ConstantsAssumption, FS_Subset
  <2>3. built = Cardinality(Loaded)
    BY DEF ModelsRight
  <2>4. Cardinality(Loaded \cup {c}) = Cardinality(Loaded) + 1
    <3> HIDE DEF Loaded
    <3> QED
      BY <2>1, <2>2, FS_AddElement
  <2> QED
    BY <2>1, <2>3, <2>4
<1>4. \A g \in Models : /\ g # built + 1 => run'[g] = run[g] /\ applied'[g] = applied[g]
                        /\ g = built + 1 => run'[g] = "running"
  BY DEF Build, BuildFrom, TypeOK
<1>5. \A g \in Models : g > built + 1 <=> g > built /\ g # built + 1
  BY <1>2, ConstantsAssumption DEF Models
<1>6. work[built + 1] = <<>>
  <2>1. built + 1 > built
    BY <1>2
  <2> QED
    BY <1>2, <2>1 DEF ModelsRight
<1>7. \A g \in Models : work[g] # <<>> => run'[g] \in {"running", "stopping"} /\ In(work[g][1], applied'[g])
  BY <1>4, <1>6 DEF ModelsRight
<1>8. \A b \in Producers : bpc[b] = "enqueue" => bmodel[b] \in 1 .. built + 1
  BY <1>2 DEF ModelsRight
<1>9. \A g \in Models : (run'[g] = "none" <=> g > built + 1) /\ (g > built + 1 => queue[g] = <<>>)
  BY <1>4, <1>5 DEF ModelsRight
<1> QED
  BY <1>1, <1>3, <1>7, <1>8, <1>9 DEF ModelsRight

-----------------------------------------------------------------------------
(* The loads.                                                              *)

LEMMA LoadsStay ==
  ASSUME LoadsRight, UNCHANGED <<cpc, closing, page, built, snap, log>>
  PROVE  LoadsRight'
BY DEF LoadsRight

LEMMA LoadsAppend ==
  ASSUME TypeOK, LogRight, LoadsRight, NEW b \in Producers, AppendToLog(b)
  PROVE  LoadsRight'
<1> DEFINE m == <<b, bcount[b] + 1>>
<1>0. m \in Msgs /\ log' = Append(log, m)
  BY NewMessage
<1> HIDE DEF m
<1>1. UNCHANGED <<cpc, closing, page, built, snap>>
  BY DEF AppendToLog, client, modelVars
<1>2. Len(log') = Len(log) + 1 /\ Len(log) \in Nat /\ \A i \in 1 .. Len(log) : log'[i] = log[i]
  BY <1>0, LogHas, OneMore
<1>3. \A c \in Clients : Len(snap[c]) \in Nat
  BY LenProperties DEF TypeOK
<1>4. \A c \in Clients : Len(snap[c]) <= Len(log) =>
        Len(snap[c]) <= Len(log') /\ \A i \in 1 .. Len(snap[c]) : log'[i] = log[i]
  BY <1>2, <1>3
<1> QED
  BY <1>1, <1>4 DEF LoadsRight

LEMMA LoadsLoad ==
  ASSUME TypeOK, ModelsRight, LoadsRight, NEW c \in Clients,
         Connect(c) \/ LoadStep(c) \/ Forward(c)
  PROVE  LoadsRight'
<1> USE DEF Goto
<1>1. CASE Connect(c)
  BY <1>1 DEF Connect, LoadsRight, TypeOK, modelVars
<1>2. CASE ReadLog(c)
  <2>1. Len(log) \in Nat
    BY LenProperties DEF TypeOK
  <2>2. UNCHANGED <<log, built, page, closing>> /\ page[c] = <<>>
    BY <1>2 DEF ReadLog, LoadsRight, modelVars
  <2>3. cpc'[c] \in {"close", "panicked"} /\ (cpc'[c] = "close" => snap'[c] = log)
    BY <1>2 DEF ReadLog, TypeOK
  <2>4. \A d \in Clients : d # c => UNCHANGED <<cpc[d], snap[d]>>
    BY <1>2 DEF ReadLog, TypeOK
  <2> QED
    BY <2>1, <2>2, <2>3, <2>4 DEF LoadsRight
<1>3. CASE CloseModel(c)
  <2>1. model # NoModel => model \in 1 .. built
    BY CountOfModels DEF ModelsRight, NoModel
  <2>2. UNCHANGED <<built, page, log, snap>>
    BY <1>3 DEF CloseModel, CloseModelGoing, producer, history
  <2>3. cpc[c] = "close" /\ page[c] = <<>>
    BY <1>3 DEF CloseModel, CloseModelGoing, LoadsRight
  <2>4. cpc'[c] \in {"wait", "build", "panicked"} /\ (cpc'[c] = "wait" => closing'[c] \in 1 .. built)
    BY <1>3, <2>1 DEF CloseModel, CloseModelGoing, TypeOK
  <2>5. \A d \in Clients : d # c => UNCHANGED <<cpc[d], closing[d]>>
    BY <1>3 DEF CloseModel, CloseModelGoing, TypeOK
  <2> QED
    BY <2>2, <2>3, <2>4, <2>5 DEF LoadsRight
<1>4. CASE Closed(c)
  BY <1>4 DEF Closed, LoadsRight, TypeOK, modelVars
<1>5. CASE Build(c)
  <2>1. built' = built + 1 /\ built \in Nat
    BY <1>5, CountOfModels DEF Build, BuildFrom
  <2>2. UNCHANGED <<page, log>> /\ \A d \in Clients : d # c => UNCHANGED <<cpc[d], closing[d], snap[d]>>
    BY <1>5 DEF Build, BuildFrom, TypeOK
  <2>3. cpc'[c] = "number" /\ page[c] = <<>>
    BY <1>5 DEF Build, BuildFrom, TypeOK, LoadsRight
  <2>4. built' # 0 /\ \A n \in 1 .. built : n \in 1 .. built'
    BY <2>1
  <2> QED
    BY <2>2, <2>3, <2>4 DEF LoadsRight
<1>6. CASE ReadNumber(c)
  BY <1>6 DEF ReadNumber, LoadsRight, TypeOK, modelVars
<1>7. CASE Render(c)
  BY <1>7 DEF Render, LoadsRight, TypeOK, modelVars
<1>8. CASE Forward(c)
  <2>1. cpc[c] = "loop" /\ \A d \in Clients : d # c => page'[d] = page[d]
    BY <1>8, Forwarded
  <2> QED
    BY <1>8, <2>1 DEF Forward, LoadsRight, modelVars
<1> QED
  BY <1>1, <1>2, <1>3, <1>4, <1>5, <1>6, <1>7, <1>8 DEF LoadStep

LEMMA ShapeInit == Init => Shape
<1> SUFFICES ASSUME Init
             PROVE  Shape
  OBVIOUS
<1>1. TypeOK
  BY TypesInit
<1>2. LogRight
  BY ConstantsAssumption, EmptyHas DEF Init, LogRight
<1>3. Logged
  BY EmptyHas DEF Init, Logged
<1>4. LoadsRight
  BY DEF Init, LoadsRight
<1>5. ModelsRight
  <2>1. {c \in Clients : cpc[c] \in {"number", "render", "loop"}} = {}
    BY DEF Init
  <2>2. \A g \in Models : g > built
    BY ConstantsAssumption DEF Init, Models
  <2> QED
    BY <2>1, <2>2, FS_EmptySet DEF Init, ModelsRight, NoModel
<1> QED
  BY <1>1, <1>2, <1>3, <1>4, <1>5 DEF Shape

LEMMA ShapeStep ==
  ASSUME Shape, [Next]_vars
  PROVE  Shape'
<1> USE DEF Shape
<1>1. ASSUME NEW b \in Producers, AppendToLog(b)
      PROVE  Shape'
  BY <1>1, AppendToLogTypes, AppendToLogRight, LoggedAppend, ModelsProducer, LoadsAppend
<1>2. ASSUME NEW b \in Producers, ReadModel(b)
      PROVE  Shape'
  <2>1. UNCHANGED <<log, queue, applied, page, inbox, work, seq, cpc, closing, built, snap>>
    BY <1>2 DEF ReadModel, modelVars, client
  <2> QED
    BY <1>2, <2>1, ReadModelTypes, Elsewhere, LogStays, LoggedStays, ModelsProducer, LoadsStay
<1>3. ASSUME NEW b \in Producers, Enqueue(b)
      PROVE  Shape'
  <2>1. UNCHANGED <<cpc, closing, page, built, snap, log>>
    BY <1>3 DEF Enqueue, client
  <2> QED
    BY <1>3, <2>1, EnqueueTypes, Elsewhere, LogStays, LoggedEnqueue, ModelsEnqueue, LoadsStay
<1>4. ASSUME NEW g \in Models, ModelStep(g)
      PROVE  Shape'
  <2>1. UNCHANGED <<cpc, closing, page, built, snap, log>>
    BY <1>4 DEF ModelStep, Apply, Number, Send, Stop, client
  <2>2. LogRight' /\ LoadsRight'
    <3>1. UNCHANGED <<log, bcount, bpc>>
      BY <1>4, Elsewhere DEF producer
    <3> QED
      BY <2>1, <3>1, LogStays, LoadsStay
  <2>3. CASE Apply(g)
    BY <2>2, <2>3, ApplyTypes, LoggedApply, ModelsApply
  <2>4. CASE Number(g)
    BY <2>2, <2>4, NumberTypes, LoggedNumber, ModelsNumber
  <2>5. CASE Send(g)
    BY <2>2, <2>5, SendTypes, LoggedSend, ModelsNumber
  <2>6. CASE Stop(g)
    <3>1. UNCHANGED <<log, queue, applied, page, inbox, work, seq>>
      BY <2>6 DEF Stop, client
    <3> QED
      BY <2>2, <2>6, <3>1, StopTypes, LoggedStays, ModelsStop
  <2> QED
    BY <1>4, <2>3, <2>4, <2>5, <2>6 DEF ModelStep
<1>5. ASSUME NEW c \in Clients, Connect(c) \/ LoadStep(c) \/ Forward(c)
      PROVE  Shape'
  <2>1. LogRight' /\ LoadsRight'
    <3>1. UNCHANGED <<log, bcount, bpc>>
      BY <1>5, Elsewhere DEF producer
    <3> QED
      BY <1>5, <3>1, LogStays, LoadsLoad
  <2>2. CASE Connect(c) \/ ReadLog(c) \/ Closed(c) \/ ReadNumber(c)
    <3>1. UNCHANGED <<log, queue, applied, page, inbox, work, seq>>
      BY <2>2 DEF Connect, ReadLog, Closed, ReadNumber, modelVars
    <3> QED
      BY <2>1, <2>2, <3>1, ConnectTypes, LoggedStays, ModelsLoad
  <2>3. CASE CloseModel(c)
    <3>1. UNCHANGED <<log, queue, applied, page, inbox, work, seq>>
      BY <2>3 DEF CloseModel, CloseModelGoing
    <3> QED
      BY <2>1, <2>3, <3>1, CloseModelTypes, LoggedStays, ModelsClose
  <2>4. CASE Build(c)
    BY <2>1, <2>4, BuildTypes, LoggedBuild, ModelsBuild
  <2>5. CASE Render(c)
    BY <2>1, <2>5, RenderTypes, LoggedRender, ModelsLoad
  <2>6. CASE Forward(c)
    BY <2>1, <2>6, ForwardTypes, LoggedForward, ModelsLoad
  <2> QED
    BY <1>5, <2>2, <2>3, <2>4, <2>5, <2>6 DEF LoadStep
<1>6. CASE UNCHANGED vars
  <2>1. UNCHANGED <<log, model, built, queue, applied, work, run, seq, bpc, bmodel, bcount, cpc, snap, closing,
                    lastSeq, inbox, page, exposed, overlap, dropped, overrun>>
    BY <1>6 DEF vars, modelVars, producer, client, history
  <2>2. TypeOK'
    BY <2>1 DEF TypeOK
  <2> QED
    BY <2>1, <2>2, LogStays, LoggedStays, ModelsStay, LoadsStay DEF ModelsRight
<1> QED
  BY <1>1, <1>2, <1>3, <1>4, <1>5, <1>6 DEF Next

\* Every value stays in its range.
THEOREM TypeCorrect == Spec => []TypeOK
<1>1. Init => Shape
  BY ShapeInit
<1>2. Shape /\ [Next]_vars => Shape'
  BY ShapeStep
<1>3. Shape => TypeOK
  BY DEF Shape
<1> QED
  BY <1>1, <1>2, <1>3, PTL DEF Spec

-----------------------------------------------------------------------------
(* Messages that no page load has met: what each step does to one of them. *)

Met(m) == OnePlace(m) /\ InModel(m) /\ \A c \in Clients : OnPage(m, c)

\* The history only grows.
LEMMA HistoryGrows ==
  ASSUME TypeOK, [Next]_vars
  PROVE  exposed \subseteq exposed' /\ dropped \subseteq dropped' /\ overrun \subseteq overrun'
<1>1. ASSUME NEW b \in Producers, AppendToLog(b) \/ ReadModel(b) \/ Enqueue(b)
      PROVE  exposed \subseteq exposed' /\ dropped \subseteq dropped' /\ overrun \subseteq overrun'
  BY <1>1 DEF AppendToLog, ReadModel, Enqueue, history
<1>2. ASSUME NEW g \in Models, ModelStep(g)
      PROVE  exposed \subseteq exposed' /\ dropped \subseteq dropped' /\ overrun \subseteq overrun'
  BY <1>2 DEF ModelStep, Apply, Number, Send, Stop, history
<1>3. ASSUME NEW c \in Clients, Connect(c) \/ LoadStep(c) \/ Forward(c)
      PROVE  exposed \subseteq exposed' /\ dropped \subseteq dropped' /\ overrun \subseteq overrun'
  BY <1>3 DEF LoadStep, Connect, ReadLog, CloseModel, CloseModelGoing, Closed, Build, BuildFrom, ReadNumber,
              Render, Forward, history
<1> QED
  BY <1>1, <1>2, <1>3 DEF Next, vars, history

\* Nothing has a message before it is broadcast.
LEMMA NotYet ==
  ASSUME Shape, NEW m \in Msgs, ~ In(m, log)
  PROVE  /\ ~ InWork(m)
         /\ \A g \in Models : ~ In(m, queue[g]) /\ ~ In(m, applied[g])
                              /\ (work[g] # <<>> => work[g][1] # m)
         /\ \A c \in Clients : /\ ~ In(m, page[c])
                               /\ \A i \in 1 .. Len(inbox[c]) : inbox[c][i][1] # m
<1>1. \A g \in Models : ~ In(m, queue[g]) /\ ~ In(m, applied[g])
  BY DEF Shape, Logged
<1>2. \A g \in Models : work[g] # <<>> => work[g][1] # m
  BY <1>1 DEF Shape, ModelsRight
<1>3. \A c \in Clients : /\ ~ In(m, page[c])
                         /\ \A i \in 1 .. Len(inbox[c]) : inbox[c][i][1] # m
  BY DEF Shape, Logged
<1> QED
  BY <1>1, <1>2, <1>3 DEF InWork

LEMMA AppendToLogMet ==
  ASSUME Shape, NEW b \in Producers, AppendToLog(b), NEW m \in Msgs,
         m \notin exposed', Met(m)
  PROVE  Met(m)'
<1> DEFINE x == <<b, bcount[b] + 1>>
<1>1. /\ x \in Msgs /\ ~ In(x, log)
      /\ \A y : In(y, log') <=> In(y, log) \/ y = x
      /\ bcount' = [bcount EXCEPT ![b] = @ + 1]
  BY NewMessage DEF Shape
<1>2. UNCHANGED <<model, queue, applied, work, bmodel, cpc, snap, lastSeq, inbox, page, dropped, overrun>>
  BY DEF AppendToLog, modelVars, client
<1>3. bpc[b] = "idle" /\ bpc' = [bpc EXCEPT ![b] = "read"]
  BY DEF AppendToLog
<1>4. InWork(m)' <=> InWork(m)
  BY <1>2 DEF InWork
<1>5. \A c \in Clients : InInbox(c, m)' <=> InInbox(c, m)
  BY <1>2 DEF InInbox, Fresh
<1>6. m[1] \in Producers /\ bcount[b] \in Nat
  BY MsgParts, LogHas DEF Shape
<1>7. CASE m = x
  <2>1. \A c \in Clients : ~ Loading(c)
    BY <1>7 DEF AppendToLog
  <2>2. /\ ~ InWork(m)
        /\ \A g \in Models : ~ In(m, queue[g]) /\ ~ In(m, applied[g]) /\ (work[g] # <<>> => work[g][1] # m)
        /\ \A c \in Clients : ~ In(m, page[c]) /\ \A i \in 1 .. Len(inbox[c]) : inbox[c][i][1] # m
    <3> HIDE DEF x
    <3> QED
      BY <1>1, <1>7, NotYet
  <2>3. ByProducer(m)' /\ bpc'[m[1]] = "read"
    BY <1>1, <1>3, <1>7 DEF ByProducer, Shape, TypeOK
  <2>4. OnePlace(m)'
    BY <1>2, <1>4, <2>1, <2>2, <2>3 DEF OnePlace, Loading, In
  <2>5. InModel(m)'
    BY <1>2, <2>1, <2>2, <2>3 DEF InModel, Loading, In, Shape, TypeOK
  <2>6. ASSUME NEW c \in Clients
        PROVE  OnPage(m, c)'
    <3>1. OnItsWay(m)' /\ ~ InInbox(c, m)' /\ ~ In(m, page'[c]) /\ cpc'[c] # "render"
      BY <1>2, <1>5, <2>1, <2>2, <2>3 DEF OnItsWay, InInbox, In, Loading
    <3>2. \A g \in Models : ~ (Len(work'[g]) = 2 /\ work'[g][1] = m)
      BY <1>2, <2>2, EmptyHas
    <3>3. \A i \in 1 .. Len(inbox'[c]) : inbox'[c][i][1] # m
      BY <1>2, <2>2
    <3> QED
      BY <3>1, <3>2, <3>3 DEF OnPage, In
  <2> QED
    BY <2>4, <2>5, <2>6 DEF Met
<1>8. CASE m # x
  <2>1. ByProducer(m)' <=> ByProducer(m)
    <3>1. CASE m[1] = b
      <4>1. m[2] # bcount[b] + 1
        BY <1>8, <3>1, MsgParts
      <4>2. bcount'[m[1]] # m[2]
        BY <1>1, <3>1, <4>1 DEF Shape, TypeOK
      <4> QED
        BY <1>3, <3>1, <4>2 DEF ByProducer
    <3>2. CASE m[1] # b
      BY <1>1, <1>3, <1>6, <3>2 DEF ByProducer, Shape, TypeOK
    <3> QED
      BY <3>1, <3>2
  <2>2. ByProducer(m)' => bpc'[m[1]] = bpc[m[1]]
    BY <1>3, <1>6, <2>1 DEF ByProducer, Shape, TypeOK
  <2>3. In(m, log') <=> In(m, log)
    BY <1>1, <1>8
  <2>4. OnItsWay(m)' <=> OnItsWay(m)
    BY <1>2, <1>4, <2>1 DEF OnItsWay, In
  <2>5. OnePlace(m)'
    BY <1>2, <1>4, <2>1, <2>2, <2>4 DEF OnePlace, Loading, In, Met
  <2>6. InModel(m)'
    BY <1>2, <2>1, <2>3 DEF InModel, In, Met
  <2>7. ASSUME NEW c \in Clients
        PROVE  OnPage(m, c)'
    BY <1>2, <1>5, <2>3, <2>4 DEF OnPage, Met, In, Fresh
  <2> QED
    BY <2>5, <2>6, <2>7 DEF Met
<1> QED
  BY <1>7, <1>8

\* What no step moves stays where it is.
LEMMA StaysMet ==
  ASSUME NEW m, Met(m), UNCHANGED <<log, model, queue, applied, work, lastSeq, inbox, page, bpc, bmodel, bcount>>,
         dropped \subseteq dropped', overrun \subseteq overrun',
         \A c \in Clients :
           /\ Loading(c)' => Loading(c) \/ ~ OnItsWay(m)
           /\ cpc'[c] \in {"close", "wait", "build"} =>
                \/ cpc[c] \in {"close", "wait", "build"} /\ snap'[c] = snap[c]
                \/ snap'[c] = log
           /\ cpc'[c] = "loop" => cpc[c] = "loop"
           /\ cpc'[c] = "render" => cpc[c] = "render"
  PROVE  Met(m)'
<1>1. ByProducer(m)' <=> ByProducer(m)
  BY DEF ByProducer
<1>2. InWork(m)' <=> InWork(m)
  BY DEF InWork
<1>3. \A c \in Clients : InInbox(c, m)' <=> InInbox(c, m)
  BY DEF InInbox, Fresh
<1>4. OnItsWay(m)' <=> OnItsWay(m)
  BY <1>1, <1>2 DEF OnItsWay, In
<1>5. OnePlace(m)'
  BY <1>1, <1>2, <1>4 DEF OnePlace, In, Met
<1>6. InModel(m)'
  BY <1>1 DEF InModel, In, Met
<1>7. ASSUME NEW c \in Clients
      PROVE  OnPage(m, c)'
  BY <1>3, <1>4 DEF OnPage, Met, In, Fresh
<1> QED
  BY <1>5, <1>6, <1>7 DEF Met

LEMMA ReadModelMet ==
  ASSUME Shape, NEW b \in Producers, ReadModel(b), NEW m \in Msgs, Met(m)
  PROVE  Met(m)'
<1>1. UNCHANGED <<log, model, queue, applied, work, bcount, cpc, snap, lastSeq, inbox, page, dropped, overrun>>
  BY DEF ReadModel, modelVars, client, history
<1>2. /\ bpc[b] = "read" /\ bpc' = [bpc EXCEPT ![b] = IF model = NoModel THEN "idle" ELSE "enqueue"]
      /\ bmodel' = [bmodel EXCEPT ![b] = model]
  BY DEF ReadModel
<1>3. m[1] \in Producers
  BY MsgParts
<1>4. InWork(m)' <=> InWork(m)
  BY <1>1 DEF InWork
<1>5. \A c \in Clients : InInbox(c, m)' <=> InInbox(c, m)
  BY <1>1 DEF InInbox, Fresh
<1>6. ByProducer(m)' => ByProducer(m)
  BY <1>1, <1>2, <1>3 DEF ByProducer, Shape, TypeOK
<1>7. ByProducer(m)' /\ bpc'[m[1]] = "enqueue" => bmodel'[m[1]] = model
  BY <1>1, <1>2, <1>3, <1>6 DEF ByProducer, Met, OnePlace, Shape, TypeOK
<1>8. model # NoModel => (ByProducer(m) => ByProducer(m)')
  BY <1>1, <1>2, <1>3 DEF ByProducer, Shape, TypeOK
<1>9. OnItsWay(m)' => OnItsWay(m)
  BY <1>1, <1>4, <1>6 DEF OnItsWay, In
<1>10. model # NoModel => (OnItsWay(m) => OnItsWay(m)')
  BY <1>1, <1>4, <1>8 DEF OnItsWay, In
<1>11. OnePlace(m)'
  BY <1>1, <1>4, <1>6, <1>7, <1>9 DEF OnePlace, Loading, In, Met
<1>12. InModel(m)'
  BY <1>1, <1>6, <1>8 DEF InModel, In, Met
<1>13. ASSUME NEW c \in Clients
       PROVE  OnPage(m, c)'
  <2>1. cpc[c] = "loop" => model # NoModel
    BY DEF Shape, LoadsRight, ModelsRight, NoModel
  <2> QED
    BY <1>1, <1>5, <1>9, <1>10, <2>1 DEF OnPage, Met, In, Fresh
<1> QED
  BY <1>11, <1>12, <1>13 DEF Met

LEMMA EnqueueMet ==
  ASSUME Shape, NEW b \in Producers, Enqueue(b), NEW m \in Msgs, Met(m)
  PROVE  Met(m)'
<1> DEFINE g == bmodel[b]
<1>1. UNCHANGED <<log, model, applied, work, bcount, cpc, snap, lastSeq, inbox, page, overrun>>
  BY DEF Enqueue, client
<1>2. /\ bpc[b] = "enqueue" /\ bpc' = [bpc EXCEPT ![b] = "idle"] /\ bmodel' = [bmodel EXCEPT ![b] = NoModel]
      /\ g \in Models /\ queue[g] \in Seq(Msgs) /\ Len(queue[g]) \in Nat
  BY LenProperties DEF Enqueue, Shape, ModelsRight, TypeOK, Models, NoModel
<1>3. m[1] \in Producers /\ m = <<m[1], m[2]>> /\ Current(b)[1] = b /\ Current(b)[2] = bcount[b] /\ Current(b) \in Msgs
  <2>1. bcount[b] \in 1 .. MaxMsgs
    BY LogHas, ConstantsAssumption DEF LogRight, Enqueue, Shape
  <2> QED
    BY <2>1, MsgParts DEF Current
<1>4. InWork(m)' <=> InWork(m)
  BY <1>1 DEF InWork
<1>5. \A c \in Clients : InInbox(c, m)' <=> InInbox(c, m)
  BY <1>1 DEF InInbox, Fresh
<1>6. /\ dropped \subseteq dropped'
      /\ \A h \in Models \ {g} : queue'[h] = queue[h]
      /\ \/ queue'[g] = Append(queue[g], Current(b))
         \/ queue'[g] = queue[g] /\ Current(b) \in dropped'
  <2>1. CASE Len(queue[g]) < ModelCap
    <3>1. queue' = [queue EXCEPT ![g] = Append(@, Current(b))] /\ UNCHANGED dropped
      BY <2>1 DEF Enqueue
    <3> QED
      BY <1>2, <3>1 DEF Shape, TypeOK
  <2>2. CASE ~ (Len(queue[g]) < ModelCap)
    <3>1. dropped' = dropped \cup {Current(b)} /\ UNCHANGED queue
      BY <2>2 DEF Enqueue
    <3> QED
      BY <3>1
  <2> QED
    BY <2>1, <2>2
<1>7. /\ Len(Append(queue[g], Current(b))) = Len(queue[g]) + 1
      /\ \A i \in 1 .. Len(queue[g]) + 1 : Append(queue[g], Current(b))[i] = IF i = Len(queue[g]) + 1 THEN Current(b) ELSE queue[g][i]
      /\ \A y : In(y, Append(queue[g], Current(b))) <=> In(y, queue[g]) \/ y = Current(b)
  BY <1>2, <1>3, OneMore
<1>8. CASE m = Current(b)
  <2>1. ByProducer(m) /\ m[1] = b
    BY <1>2, <1>3, <1>8 DEF ByProducer
  <2>2. /\ ~ ByProducer(m)' /\ ~ InWork(m) /\ g = model
        /\ \A h \in Models : ~ In(m, queue[h])
        /\ OnItsWay(m) /\ \A c \in Clients : ~ Loading(c)
    BY <1>1, <1>2, <2>1 DEF ByProducer, OnItsWay, Met, OnePlace, Shape, TypeOK
  <2>3. \A i, j \in 1 .. Len(queue'[g]) : queue'[g][i] = m /\ queue'[g][j] = m => i = j
    <3>1. \A i \in 1 .. Len(queue[g]) : queue[g][i] # m
      BY <1>2, <2>2 DEF In
    <3>2. CASE queue'[g] = Append(queue[g], Current(b))
      <4>1. \A i \in 1 .. Len(queue'[g]) : queue'[g][i] = m => i = Len(queue[g]) + 1
        BY <1>2, <1>7, <3>1, <3>2
      <4> QED
        BY <4>1
    <3>3. CASE queue'[g] = queue[g]
      BY <3>1, <3>3
    <3> QED
      BY <1>6, <3>2, <3>3
  <2>4. \A h \in Models : In(m, queue'[h]) => h = g
    BY <1>6, <2>2
  <2>5. In(m, queue'[g]) \/ m \in dropped'
    BY <1>6, <1>7, <1>8
  <2>6. \A h \in Models : h # g => \A i \in 1 .. Len(queue'[h]) : queue'[h][i] # m
    BY <2>4 DEF In
  <2>7. OnePlace(m)'
    BY <1>1, <1>4, <2>2, <2>3, <2>4, <2>6 DEF OnePlace, Loading, Met
  <2>8. InModel(m)'
    BY <1>1, <1>6, <2>1, <2>2, <2>5 DEF InModel, Met, Loading, In
  <2>9. In(m, queue'[g]) => OnItsWay(m)'
    BY <1>2 DEF OnItsWay
  <2>10. ASSUME NEW c \in Clients
         PROVE  OnPage(m, c)'
    BY <1>1, <1>5, <2>2, <2>5, <2>9 DEF OnPage, Met, In, Fresh, Loading
  <2> QED
    BY <2>7, <2>8, <2>10 DEF Met
<1>9. CASE m # Current(b)
  <2>1. ByProducer(m)' <=> ByProducer(m)
    <3>1. CASE m[1] = b
      <4>1. m[2] # bcount[b]
        BY <1>3, <1>9, <3>1 DEF Current
      <4> QED
        BY <1>1, <3>1, <4>1 DEF ByProducer
    <3>2. CASE m[1] # b
      BY <1>1, <1>2, <1>3, <3>2 DEF ByProducer, Shape, TypeOK
    <3> QED
      BY <3>1, <3>2
  <2>2. ByProducer(m)' => bpc'[m[1]] = bpc[m[1]] /\ bmodel'[m[1]] = bmodel[m[1]]
    BY <1>2, <1>3 DEF ByProducer, Shape, TypeOK
  <2>3. \A h \in Models : In(m, queue'[h]) <=> In(m, queue[h])
    BY <1>6, <1>7, <1>9
  <2>4. \A h \in Models : \A i, j \in 1 .. Len(queue'[h]) : queue'[h][i] = m /\ queue'[h][j] = m => i = j
    <3>1. \A i, j \in 1 .. Len(queue[g]) : queue[g][i] = m /\ queue[g][j] = m => i = j
      BY <1>2 DEF Met, OnePlace
    <3>2. CASE queue'[g] = Append(queue[g], Current(b))
      <4>1. \A i \in 1 .. Len(queue'[g]) : queue'[g][i] = m => i \in 1 .. Len(queue[g]) /\ queue[g][i] = m
        BY <1>2, <1>7, <1>9, <3>2
      <4> QED
        BY <1>6, <3>1, <4>1 DEF Met, OnePlace
    <3>3. CASE queue'[g] = queue[g]
      BY <1>6, <3>3 DEF Met, OnePlace
    <3> QED
      BY <1>6, <3>2, <3>3
  <2>5. OnItsWay(m)' <=> OnItsWay(m)
    BY <1>4, <2>1, <2>3 DEF OnItsWay
  <2>6. OnePlace(m)'
    BY <1>1, <1>4, <2>1, <2>2, <2>3, <2>4, <2>5 DEF OnePlace, Loading, Met
  <2>7. InModel(m)'
    <3>1. model # NoModel => model \in Models
      BY DEF Shape, TypeOK
    <3> QED
      BY <1>1, <1>6, <2>1, <2>3, <3>1 DEF InModel, In, Met
  <2>8. ASSUME NEW c \in Clients
        PROVE  OnPage(m, c)'
    BY <1>1, <1>5, <1>6, <2>5 DEF OnPage, Met, In, Fresh
  <2> QED
    BY <2>6, <2>7, <2>8 DEF Met
<1> QED
  BY <1>8, <1>9

LEMMA ApplyMet ==
  ASSUME Shape, NEW g \in Models, Apply(g), NEW m \in Msgs, Met(m)
  PROVE  Met(m)'
<1> DEFINE x == Head(queue[g])
<1>1. UNCHANGED <<log, model, bpc, bmodel, bcount, cpc, snap, lastSeq, inbox, page, dropped, overrun>>
  BY DEF Apply, producer, client, history
<1>2. /\ x \in Msgs /\ x = queue[g][1] /\ 1 \in 1 .. Len(queue[g]) /\ Len(queue[g]) \in Nat
      /\ \A y : In(y, queue[g]) <=> In(y, queue'[g]) \/ y = x
      /\ \A y : In(y, applied'[g]) <=> In(y, applied[g]) \/ y = x
      /\ Len(queue'[g]) = Len(queue[g]) - 1
      /\ \A i \in 1 .. Len(queue'[g]) : queue'[g][i] = queue[g][i + 1] /\ i + 1 \in 1 .. Len(queue[g])
      /\ Len(applied[g]) \in Nat /\ Len(applied'[g]) = Len(applied[g]) + 1
      /\ \A i \in 1 .. Len(applied'[g]) : applied'[g][i] = IF i = Len(applied[g]) + 1 THEN x ELSE applied[g][i]
      /\ work'[g] # <<>> /\ work'[g][1] = x /\ Len(work'[g]) = 1
      /\ \A h \in Models \ {g} : queue'[h] = queue[h] /\ applied'[h] = applied[h] /\ work'[h] = work[h]
  BY Taken DEF Shape
<1>3. work[g] = <<>>
  BY DEF Apply
<1> HIDE DEF x
<1>4. ByProducer(m)' <=> ByProducer(m)
  BY <1>1 DEF ByProducer
<1>5. \A c \in Clients : InInbox(c, m)' <=> InInbox(c, m)
  BY <1>1 DEF InInbox, Fresh
<1>6. \A i, j \in 1 .. Len(queue[g]) : queue[g][i] = m /\ queue[g][j] = m => i = j
  BY DEF Met, OnePlace
<1>7. \A i, j \in 1 .. Len(queue'[g]) : queue'[g][i] = m /\ queue'[g][j] = m => i = j
  <2> SUFFICES ASSUME NEW i \in 1 .. Len(queue'[g]), NEW j \in 1 .. Len(queue'[g]),
                      queue'[g][i] = m, queue'[g][j] = m
               PROVE  i = j
    OBVIOUS
  <2>1. queue[g][i + 1] = m /\ queue[g][j + 1] = m /\ i + 1 \in 1 .. Len(queue[g]) /\ j + 1 \in 1 .. Len(queue[g])
    BY <1>2
  <2>2. i + 1 = j + 1
    BY <1>6, <2>1
  <2> QED
    BY <2>2
<1>8. InWork(m)' <=> InWork(m) \/ m = x
  BY <1>2, <1>3 DEF InWork
<1>9. OnItsWay(m)' <=> OnItsWay(m)
  <2>1. (\E h \in Models : In(m, queue[h])) <=> m = x \/ \E h \in Models : In(m, queue'[h])
    BY <1>2
  <2> QED
    BY <1>4, <1>8, <2>1 DEF OnItsWay
<1>10. m = x => In(m, queue[g]) /\ g = model /\ ~ InWork(m) /\ ~ ByProducer(m)
  BY <1>2 DEF Met, OnePlace
<1>11. m = x => \A h \in Models : ~ In(m, queue'[h])
  <2> SUFFICES ASSUME m = x, NEW h \in Models
               PROVE  ~ In(m, queue'[h])
    OBVIOUS
  <2>1. CASE h = g
    <3>1. \A i \in 1 .. Len(queue'[g]) : queue'[g][i] # m
      BY <1>2, <1>6
    <3> QED
      BY <2>1, <3>1 DEF In
  <2>2. CASE h # g
    BY <1>2, <1>10, <2>2 DEF Met, OnePlace
  <2> QED
    BY <2>1, <2>2
<1>12. OnePlace(m)'
  <2>1. \A h \in Models : In(m, queue'[h]) => In(m, queue[h])
    BY <1>2
  <2>2. \A h \in Models : work'[h] # <<>> /\ work'[h][1] = m => h = model
    BY <1>2, <1>10 DEF Met, OnePlace
  <2>3. \A h \in Models : \A i, j \in 1 .. Len(queue'[h]) : queue'[h][i] = m /\ queue'[h][j] = m => i = j
    <3>1. \A h \in Models \ {g} : queue'[h] = queue[h]
      BY <1>2
    <3>2. \A h \in Models : \A i, j \in 1 .. Len(queue[h]) : queue[h][i] = m /\ queue[h][j] = m => i = j
      BY DEF Met, OnePlace
    <3> QED
      BY <1>7, <3>1, <3>2
  <2>4. ByProducer(m) => m # x
    BY <1>10
  <2>5. \A h \in Models : In(m, queue'[h]) => h = model /\ ~ InWork(m)'
    BY <1>8, <1>11, <2>1 DEF Met, OnePlace
  <2>6. ByProducer(m)' => ~ InWork(m)' /\ \A h \in Models : ~ In(m, queue'[h])
    BY <1>4, <1>8, <2>1, <2>4 DEF Met, OnePlace
  <2>7. ByProducer(m)' => (bpc'[m[1]] = "enqueue" => bmodel'[m[1]] = model')
    BY <1>1, <1>4 DEF Met, OnePlace
  <2>8. OnItsWay(m)' => \A c \in Clients : ~ Loading(c)'
    BY <1>1, <1>9 DEF Met, OnePlace, Loading
  <2> QED
    BY <1>1, <2>2, <2>3, <2>5, <2>6, <2>7, <2>8 DEF OnePlace
<1>13. InModel(m)'
  <2>1. \A c \in Clients : cpc'[c] \in {"close", "wait", "build"} /\ In(m, log') => In(m, snap'[c])
    BY <1>1 DEF Met, InModel, In
  <2>2. ASSUME model # NoModel
        PROVE  /\ In(m, log) => In(m, applied'[model]) \/ m \in dropped \/ In(m, queue'[model]) \/ ByProducer(m)
               /\ \A i, j \in 1 .. Len(applied'[model]) : applied'[model][i] = m /\ applied'[model][j] = m => i = j
               /\ In(m, queue'[model]) \/ ByProducer(m) => ~ In(m, applied'[model])
    <3>1. /\ model \in Models
          /\ In(m, log) => In(m, applied[model]) \/ m \in dropped \/ In(m, queue[model]) \/ ByProducer(m)
          /\ \A i, j \in 1 .. Len(applied[model]) : applied[model][i] = m /\ applied[model][j] = m => i = j
          /\ In(m, queue[model]) \/ ByProducer(m) => ~ In(m, applied[model])
      BY <2>2 DEF Met, InModel, Shape, TypeOK
    <3>2. CASE model = g
      <4>1. \A i, j \in 1 .. Len(applied'[g]) : applied'[g][i] = m /\ applied'[g][j] = m => i = j
        <5>1. m = x => \A i \in 1 .. Len(applied[g]) : applied[g][i] # m
          BY <1>10, <3>1, <3>2 DEF In
        <5>2. \A i \in 1 .. Len(applied'[g]) : i = Len(applied[g]) + 1 \/ i \in 1 .. Len(applied[g])
          BY <1>2
        <5>3. \A i, j \in 1 .. Len(applied[g]) : applied[g][i] = m /\ applied[g][j] = m => i = j
          BY <3>1, <3>2
        <5>4. \A i \in 1 .. Len(applied[g]) : applied'[g][i] = applied[g][i]
          BY <1>2
        <5>5. applied'[g][Len(applied[g]) + 1] = x
          BY <1>2
        <5> QED
          BY <5>1, <5>2, <5>3, <5>4, <5>5
      <4> QED
        BY <1>2, <1>10, <1>11, <3>1, <3>2, <4>1
    <3>3. CASE model # g
      BY <1>2, <3>1, <3>3
    <3> QED
      BY <3>2, <3>3
  <2>3. In(m, log') <=> In(m, log)
    BY <1>1 DEF In
  <2> QED
    BY <1>1, <1>4, <2>1, <2>2, <2>3 DEF InModel
<1>14. ASSUME NEW c \in Clients
       PROVE  OnPage(m, c)'
  <2>1. \A h \in Models : Len(work'[h]) = 2 => work'[h] = work[h]
    <3>1. Len(work'[g]) # 2
      BY <1>2
    <3>2. \A h \in Models \ {g} : work'[h] = work[h]
      BY <1>2
    <3> QED
      BY <3>1, <3>2
  <2> QED
    BY <1>1, <1>5, <1>9, <2>1 DEF OnPage, Met, In, Fresh
<1> QED
  BY <1>12, <1>13, <1>14 DEF Met

LEMMA NumberMet ==
  ASSUME Shape, NEW g \in Models, Number(g), NEW m \in Msgs, Met(m)
  PROVE  Met(m)'
<1>1. UNCHANGED <<log, model, queue, applied, bpc, bmodel, bcount, cpc, snap, lastSeq, inbox, page, dropped, overrun>>
  BY DEF Number, producer, client, history
<1>2. /\ work[g] # <<>> /\ work'[g] # <<>> /\ work'[g][1] = work[g][1] /\ work'[g][2] = seq + 1
      /\ \A h \in Models \ {g} : work'[h] = work[h]
  BY Numbered DEF Shape
<1>3. InWork(m)' <=> InWork(m)
  BY <1>2 DEF InWork
<1>4. ByProducer(m)' <=> ByProducer(m)
  BY <1>1 DEF ByProducer
<1>5. \A c \in Clients : InInbox(c, m)' <=> InInbox(c, m)
  BY <1>1 DEF InInbox, Fresh
<1>6. OnItsWay(m)' <=> OnItsWay(m)
  BY <1>1, <1>3, <1>4 DEF OnItsWay, In
<1>7. OnePlace(m)'
  BY <1>1, <1>2, <1>3, <1>4, <1>6 DEF OnePlace, Loading, In, Met
<1>8. InModel(m)'
  BY <1>1, <1>4 DEF InModel, In, Met
<1>9. ASSUME NEW c \in Clients
      PROVE  OnPage(m, c)'
  <2>1. seq + 1 > lastSeq[c]
    BY DEF Shape, TypeOK
  <2>2. cpc[c] = "loop" => \A h \in Models : Len(work'[h]) = 2 /\ work'[h][1] = m => work'[h][2] > lastSeq[c]
    BY <1>2, <2>1 DEF OnPage, Met
  <2> QED
    BY <1>1, <1>5, <1>6, <2>2 DEF OnPage, Met, In, Fresh
<1> QED
  BY <1>7, <1>8, <1>9 DEF Met

LEMMA SendMet ==
  ASSUME Shape, NEW g \in Models, Send(g), NEW m \in Msgs, Met(m)
  PROVE  Met(m)'
<1>1. UNCHANGED <<log, model, queue, applied, bpc, bmodel, bcount, cpc, snap, lastSeq, page, dropped>>
      /\ overrun \subseteq overrun'
  BY DEF Send, producer
<1>2. /\ work[g] # <<>> /\ Len(work[g]) = 2 /\ work[g][1] \in Msgs /\ work[g][2] \in Nat
      /\ work'[g] = <<>> /\ Len(work'[g]) = 0 /\ \A h \in Models \ {g} : work'[h] = work[h]
  BY Sent DEF Shape
<1>3. ByProducer(m)' <=> ByProducer(m)
  BY <1>1 DEF ByProducer
<1>4. InWork(m) <=> InWork(m)' \/ work[g][1] = m
  BY <1>2 DEF InWork
<1>5. work[g][1] = m =>
        /\ InWork(m) /\ g = model /\ ~ InWork(m)' /\ ~ ByProducer(m) /\ \A h \in Models : ~ In(m, queue[h])
  <2> SUFFICES ASSUME work[g][1] = m
               PROVE  /\ InWork(m) /\ g = model /\ ~ InWork(m)' /\ ~ ByProducer(m)
                      /\ \A h \in Models : ~ In(m, queue[h])
    OBVIOUS
  <2>1. InWork(m) /\ g = model /\ \A h \in Models : work[h] # <<>> /\ work[h][1] = m => h = model
    BY <1>2 DEF InWork, Met, OnePlace
  <2>2. ~ InWork(m)'
    BY <1>2, <2>1 DEF InWork
  <2> QED
    BY <2>1, <2>2 DEF Met, OnePlace
<1>6. work[g][1] = m => OnItsWay(m) /\ ~ OnItsWay(m)' /\ \A c \in Clients : ~ Loading(c)
  BY <1>1, <1>3, <1>5 DEF OnItsWay, In, Met, OnePlace
<1>7. work[g][1] # m => (OnItsWay(m)' <=> OnItsWay(m))
  BY <1>1, <1>3, <1>4 DEF OnItsWay, In
<1>8. OnePlace(m)'
  BY <1>1, <1>2, <1>3, <1>4, <1>6, <1>7 DEF OnePlace, Loading, In, Met
<1>9. InModel(m)'
  BY <1>1, <1>3 DEF InModel, In, Met
<1>10. ASSUME NEW c \in Clients
       PROVE  OnPage(m, c)'
  <2> DEFINE n == Len(inbox[c]) + 1
             Taken1 == /\ Len(inbox'[c]) = n /\ Len(inbox[c]) \in Nat /\ inbox'[c][n] = work[g]
                       /\ \A i \in 1 .. Len(inbox[c]) : inbox'[c][i] = inbox[c][i]
                       /\ \A i \in 1 .. Len(inbox'[c]) : i = n \/ i \in 1 .. Len(inbox[c])
  <2>1. \/ inbox'[c] = inbox[c] /\ (cpc[c] = "idle" \/ <<c, work[g][1]>> \in overrun')
        \/ Taken1
    BY Sent DEF Shape
  <2>2. \A h \in Models : Len(work'[h]) = 2 => h # g /\ work'[h] = work[h]
    BY <1>2
  <2>3. CASE work[g][1] # m
    <3>1. /\ InInbox(c, m)' <=> InInbox(c, m)
          /\ cpc[c] = "loop" =>
               \A i, j \in 1 .. Len(inbox'[c]) :
                 inbox'[c][i][1] = m /\ inbox'[c][j][1] = m /\ Fresh(c, i)' /\ Fresh(c, j)' => i = j
      <4>1. CASE inbox'[c] = inbox[c]
        BY <1>1, <4>1 DEF InInbox, Fresh, Met, OnPage
      <4>2. CASE Taken1
        <5>1. \A i \in 1 .. Len(inbox[c]) : i \in 1 .. Len(inbox'[c])
          BY <4>2
        <5>2. \A i \in 1 .. Len(inbox'[c]) : inbox'[c][i][1] = m =>
                i \in 1 .. Len(inbox[c]) /\ inbox'[c][i] = inbox[c][i]
          BY <2>3, <4>2
        <5>3. \A i \in 1 .. Len(inbox[c]) : inbox'[c][i] = inbox[c][i]
          BY <4>2
        <5>4. InInbox(c, m)' <=> InInbox(c, m)
          BY <1>1, <5>1, <5>2, <5>3 DEF InInbox, Fresh
        <5>5. cpc[c] = "loop" => \A i, j \in 1 .. Len(inbox[c]) :
                 inbox[c][i][1] = m /\ inbox[c][j][1] = m /\ Fresh(c, i) /\ Fresh(c, j) => i = j
          BY DEF Met, OnPage
        <5>6. \A i \in 1 .. Len(inbox'[c]) : inbox'[c][i][1] = m /\ Fresh(c, i)' =>
                i \in 1 .. Len(inbox[c]) /\ inbox[c][i][1] = m /\ Fresh(c, i)
          BY <1>1, <5>2 DEF Fresh
        <5> QED
          BY <5>4, <5>5, <5>6
      <4> QED
        BY <2>1, <4>1, <4>2
    <3> QED
      BY <1>1, <1>7, <2>2, <2>3, <3>1 DEF OnPage, Met, In
  <2>4. CASE work[g][1] = m
    <3>1. OnItsWay(m) /\ ~ OnItsWay(m)' /\ cpc[c] # "render" /\ InWork(m) /\ ~ InWork(m)'
      BY <1>5, <1>6, <2>4 DEF Loading
    <3>2. \A h \in Models : ~ (Len(work'[h]) = 2 /\ work'[h][1] = m)
      BY <3>1, EmptyHas DEF InWork
    <3>3. cpc[c] = "loop" => ~ In(m, page[c]) /\ ~ InInbox(c, m) /\ work[g][2] > lastSeq[c]
      BY <1>2, <2>4, <3>1 DEF Met, OnPage
    <3>4. cpc[c] = "loop" =>
            /\ InInbox(c, m)' \/ <<c, m>> \in overrun'
            /\ \A i, j \in 1 .. Len(inbox'[c]) :
                 inbox'[c][i][1] = m /\ inbox'[c][j][1] = m /\ Fresh(c, i)' /\ Fresh(c, j)' => i = j
      <4>1. CASE inbox'[c] = inbox[c] /\ (cpc[c] = "idle" \/ <<c, work[g][1]>> \in overrun')
        BY <1>1, <2>4, <3>3, <4>1 DEF InInbox, Fresh
      <4>2. CASE Taken1
        <5>1. n \in 1 .. Len(inbox'[c])
          BY <4>2
        <5>2. cpc[c] = "loop" => InInbox(c, m)'
          BY <1>1, <2>4, <3>3, <4>2, <5>1 DEF InInbox, Fresh
        <5>3. cpc[c] = "loop" => \A i \in 1 .. Len(inbox'[c]) : inbox'[c][i][1] = m /\ Fresh(c, i)' => i = n
          BY <1>1, <3>3, <4>2 DEF InInbox, Fresh
        <5> QED
          BY <5>2, <5>3
      <4> QED
        BY <2>1, <4>1, <4>2
    <3> QED
      BY <1>1, <3>1, <3>2, <3>3, <3>4 DEF OnPage, Met, In
  <2> QED
    BY <2>3, <2>4
<1> QED
  BY <1>8, <1>9, <1>10 DEF Met

LEMMA InFlightIs ==
  ASSUME Shape, NEW m \in Msgs, m \notin InFlight
  PROVE  ~ OnItsWay(m)
<1>1. ~ ByProducer(m)
  <2> SUFFICES ASSUME ByProducer(m)
               PROVE  FALSE
    OBVIOUS
  <2>1. m[1] \in {x \in Producers : bpc[x] # "idle"} /\ m = <<m[1], m[2]>> /\ bcount[m[1]] = m[2]
    BY MsgParts DEF ByProducer
  <2>2. m = Current(m[1])
    BY <2>1 DEF Current
  <2> QED
    BY <2>1, <2>2 DEF InFlight
<1>2. ~ InWork(m)
  <2> SUFFICES ASSUME NEW g \in Models, work[g] # <<>>, work[g][1] = m
               PROVE  FALSE
    BY DEF InWork
  <2>1. g \in {x \in Models : work[x] # <<>>}
    OBVIOUS
  <2>2. m \in {work[h][1] : h \in {x \in Models : work[x] # <<>>}}
    BY <2>1
  <2> QED
    BY <2>2 DEF InFlight
<1>3. \A g \in Models : ~ In(m, queue[g])
  <2> SUFFICES ASSUME NEW g \in Models, NEW i \in 1 .. Len(queue[g]), queue[g][i] = m
               PROVE  FALSE
    BY DEF In
  <2>1. DOMAIN queue[g] = 1 .. Len(queue[g])
    <3>1. queue[g] \in Seq(Msgs)
      BY DEF Shape, TypeOK
    <3> QED
      BY <3>1, LenProperties
  <2>2. m \in ToSet(queue[g])
    BY <2>1 DEF ToSet
  <2> QED
    BY <2>2 DEF InFlight
<1> QED
  BY <1>1, <1>2, <1>3 DEF OnItsWay

\* Loading a page does not move messages that are not on their way.
LEMMA LoadMet ==
  ASSUME Shape, NEW c \in Clients, Connect(c) \/ ReadLog(c) \/ CloseModel(c) \/ Closed(c),
         NEW m \in Msgs, m \notin exposed', Met(m)
  PROVE  Met(m)'
<1> USE DEF Goto
<1>1. UNCHANGED <<log, model, queue, applied, work, lastSeq, inbox, page, bpc, bmodel, bcount, dropped, overrun>>
  BY DEF Connect, ReadLog, CloseModel, CloseModelGoing, Closed, modelVars, producer, history
<1>2. \A d \in Clients : d # c => cpc'[d] = cpc[d] /\ snap'[d] = snap[d]
  BY DEF Connect, ReadLog, CloseModel, CloseModelGoing, Closed, Shape, TypeOK
<1>3. CASE Connect(c)
  <2>1. cpc'[c] = "read" /\ snap' = snap
    BY <1>3 DEF Connect, Shape, TypeOK
  <2> QED
    BY <1>1, <1>2, <2>1, StaysMet DEF Loading
<1>4. CASE ReadLog(c)
  <2>1. ~ OnItsWay(m)
    BY <1>4, InFlightIs DEF ReadLog
  <2>2. cpc'[c] = "close" /\ snap'[c] = log
    BY <1>4 DEF ReadLog, Shape, TypeOK
  <2> QED
    BY <1>1, <1>2, <2>1, <2>2, StaysMet DEF Loading
<1>5. CASE CloseModel(c) \/ Closed(c)
  <2>1. cpc[c] \in {"close", "wait"} /\ cpc'[c] \in {"wait", "build", "panicked"} /\ snap' = snap
    BY <1>5 DEF CloseModel, CloseModelGoing, Closed, Shape, TypeOK
  <2> QED
    BY <1>1, <1>2, <2>1, StaysMet DEF Loading
<1> QED
  BY <1>3, <1>4, <1>5

LEMMA StopMet ==
  ASSUME Shape, NEW g \in Models, Stop(g), NEW m \in Msgs, Met(m)
  PROVE  Met(m)'
<1>1. UNCHANGED <<log, model, queue, applied, work, lastSeq, inbox, page, bpc, bmodel, bcount, dropped, overrun,
                  cpc, snap>>
  BY DEF Stop, producer, client, history
<1> QED
  BY <1>1, StaysMet DEF Loading

LEMMA BuildMet ==
  ASSUME Shape, NEW c \in Clients, Build(c), NEW m \in Msgs, Met(m)
  PROVE  Met(m)'
<1>1. /\ UNCHANGED <<log, queue, work, bpc, bmodel, bcount, lastSeq, inbox, page, dropped, overrun>>
      /\ model' = built + 1 /\ built + 1 \in Models /\ built \in Nat /\ applied'[built + 1] = snap[c]
      /\ cpc[c] = "build" /\ cpc'[c] = "number"
      /\ \A d \in Clients : d # c => cpc'[d] = cpc[d] /\ snap'[d] = snap[d]
  <2>1. built + 1 \in Models /\ built \in Nat
    BY BuildTypes, CountOfModels DEF Shape
  <2>2. /\ UNCHANGED <<log, queue, work, bpc, bmodel, bcount, lastSeq, inbox, page, dropped, overrun>>
        /\ model' = built + 1 /\ cpc[c] = "build"
    BY DEF Build, BuildFrom, Goto, producer, history
  <2>3. applied'[built + 1] = snap[c]
    BY <2>1 DEF Build, BuildFrom, Shape, TypeOK
  <2>4. cpc'[c] = "number" /\ \A d \in Clients : d # c => cpc'[d] = cpc[d] /\ snap'[d] = snap[d]
    BY DEF Build, BuildFrom, Goto, Shape, TypeOK
  <2> QED
    BY <2>1, <2>2, <2>3, <2>4
<1>2. ~ OnItsWay(m)
  BY <1>1 DEF Met, OnePlace, Loading
<1>3. (ByProducer(m)' <=> ByProducer(m)) /\ (InWork(m)' <=> InWork(m))
  BY <1>1 DEF ByProducer, InWork
<1>4. \A d \in Clients : InInbox(d, m)' <=> InInbox(d, m)
  BY <1>1 DEF InInbox, Fresh
<1>5. ~ OnItsWay(m)' /\ ~ ByProducer(m)' /\ ~ InWork(m)' /\ \A g \in Models : ~ In(m, queue'[g])
  BY <1>1, <1>2, <1>3 DEF OnItsWay, In
<1>6. OnePlace(m)'
  <2>1. \A g \in Models : ~ (work'[g] # <<>> /\ work'[g][1] = m)
    BY <1>5 DEF InWork
  <2>2. \A g \in Models : \A i \in 1 .. Len(queue'[g]) : queue'[g][i] # m
    BY <1>5 DEF In
  <2> QED
    BY <1>5, <2>1, <2>2 DEF OnePlace
<1>7. InModel(m)'
  <2>1. In(m, log) => In(m, snap[c])
    BY <1>1 DEF Met, InModel
  <2>2. \A i, j \in 1 .. Len(snap[c]) : snap[c][i] = m /\ snap[c][j] = m => i = j
    <3>1. Len(snap[c]) \in Nat /\ Len(log) \in Nat
      BY LenProperties DEF Shape, TypeOK
    <3>2. Len(snap[c]) <= Len(log) /\ \A i \in 1 .. Len(snap[c]) : snap[c][i] = log[i]
      BY <1>1 DEF Shape, LoadsRight
    <3>3. \A i \in 1 .. Len(snap[c]) : i \in 1 .. Len(log)
      BY <3>1, <3>2
    <3> QED
      BY <3>2, <3>3 DEF Shape, LogRight
  <2>3. \A d \in Clients : cpc'[d] \in {"close", "wait", "build"} /\ In(m, log') => In(m, snap'[d])
    BY <1>1 DEF Met, InModel, In
  <2> QED
    BY <1>1, <1>5, <2>1, <2>2, <2>3 DEF InModel, In
<1>8. ASSUME NEW d \in Clients
      PROVE  OnPage(m, d)'
  <2>1. (cpc'[d] = "loop" => cpc[d] = "loop") /\ (cpc'[d] = "render" => cpc[d] = "render")
    BY <1>1
  <2>2. OnPage(m, d) /\ UNCHANGED <<log, work, inbox, lastSeq, page, dropped, overrun>>
    BY <1>1 DEF Met
  <2>3. /\ InInbox(d, m)' <=> InInbox(d, m)
        /\ In(m, page[d])' <=> In(m, page[d])
        /\ In(m, log)' <=> In(m, log)
        /\ \A i \in 1 .. Len(inbox[d]) : Fresh(d, i)' <=> Fresh(d, i)
    BY <1>4, <2>2 DEF In, Fresh
  <2> QED
    BY <1>2, <1>5, <2>1, <2>2, <2>3 DEF OnPage
<1> QED
  BY <1>6, <1>7, <1>8 DEF Met

LEMMA ReadNumberMet ==
  ASSUME Shape, NEW c \in Clients, ReadNumber(c), NEW m \in Msgs, Met(m)
  PROVE  Met(m)'
<1>1. /\ UNCHANGED <<log, model, queue, applied, work, bpc, bmodel, bcount, inbox, page, snap, dropped, overrun>>
      /\ cpc[c] = "number" /\ cpc'[c] = "render" /\ lastSeq'[c] = seq
      /\ \A d \in Clients : d # c => cpc'[d] = cpc[d] /\ lastSeq'[d] = lastSeq[d]
  BY DEF ReadNumber, Goto, modelVars, producer, history, Shape, TypeOK
<1>2. (ByProducer(m)' <=> ByProducer(m)) /\ (InWork(m)' <=> InWork(m))
  BY <1>1 DEF ByProducer, InWork
<1>3. OnItsWay(m)' <=> OnItsWay(m)
  BY <1>1, <1>2 DEF OnItsWay, In
<1>4. \A d \in Clients : Loading(d)' <=> Loading(d)
  BY <1>1 DEF Loading
<1>5. OnePlace(m)'
  BY <1>1, <1>2, <1>3, <1>4 DEF OnePlace, In, Met
<1>6. InModel(m)'
  BY <1>1, <1>2 DEF InModel, In, Met
<1>7. \A i \in 1 .. Len(inbox[c]) : ~ (inbox[c][i][2] > seq)
  <2> SUFFICES ASSUME NEW i \in 1 .. Len(inbox[c])
               PROVE  ~ (inbox[c][i][2] > seq)
    OBVIOUS
  <2>1. inbox[c] \in Seq(Msgs \X Nat) /\ seq \in Nat /\ inbox[c][i][2] <= seq
    BY DEF Shape, TypeOK, Logged
  <2>2. inbox[c][i] \in Msgs \X Nat
    BY <2>1, ElementOfSeq
  <2>3. inbox[c][i][2] \in Nat
    BY <2>2
  <2> QED
    BY <2>1, <2>3
<1>8. ~ InInbox(c, m)'
  BY <1>1, <1>7 DEF InInbox, Fresh
<1>9. ASSUME NEW d \in Clients
      PROVE  OnPage(m, d)'
  <2>1. CASE d = c
    BY <1>1, <1>8, <2>1 DEF OnPage, Met
  <2>2. CASE d # c
    <3>1. InInbox(d, m)' <=> InInbox(d, m)
      BY <1>1, <2>2 DEF InInbox, Fresh
    <3> QED
      BY <1>1, <1>3, <2>2, <3>1 DEF OnPage, Met, In, Fresh
  <2> QED
    BY <2>1, <2>2
<1> QED
  BY <1>5, <1>6, <1>9 DEF Met

LEMMA RenderMet ==
  ASSUME Shape, NEW c \in Clients, Render(c), NEW m \in Msgs, Met(m)
  PROVE  Met(m)'
<1>1. /\ UNCHANGED <<log, model, queue, applied, work, bpc, bmodel, bcount, inbox, lastSeq, snap, dropped, overrun>>
      /\ cpc[c] = "render" /\ cpc'[c] = "loop" /\ page'[c] = applied[model]
      /\ \A d \in Clients : d # c => cpc'[d] = cpc[d] /\ page'[d] = page[d]
  BY DEF Render, Goto, modelVars, producer, history, Shape, TypeOK
<1>2. (ByProducer(m)' <=> ByProducer(m)) /\ (InWork(m)' <=> InWork(m))
  BY <1>1 DEF ByProducer, InWork
<1>3. OnItsWay(m)' <=> OnItsWay(m)
  BY <1>1, <1>2 DEF OnItsWay, In
<1>4. \A d \in Clients : InInbox(d, m)' <=> InInbox(d, m)
  BY <1>1 DEF InInbox, Fresh
<1>5. \A d \in Clients : Loading(d)' => Loading(d)
  BY <1>1 DEF Loading
<1>6. OnePlace(m)'
  BY <1>1, <1>2, <1>3, <1>5 DEF OnePlace, In, Met
<1>7. InModel(m)'
  BY <1>1, <1>2 DEF InModel, In, Met
<1>8. ~ OnItsWay(m) /\ ~ InInbox(c, m) /\ model # NoModel /\ model \in Models
  BY <1>1 DEF Met, OnePlace, OnPage, Loading, Shape, LoadsRight, ModelsRight, TypeOK, NoModel
<1>9. ASSUME NEW d \in Clients
      PROVE  OnPage(m, d)'
  <2>1. CASE d = c
    <3>1. In(m, log) => In(m, page'[c]) \/ m \in dropped
      BY <1>1, <1>8 DEF Met, InModel, OnItsWay
    <3>2. \A i, j \in 1 .. Len(page'[c]) : page'[c][i] = m /\ page'[c][j] = m => i = j
      BY <1>1, <1>8 DEF Met, InModel
    <3>3. \A i \in 1 .. Len(inbox'[c]) : ~ (inbox'[c][i][1] = m /\ Fresh(c, i)')
      BY <1>4, <1>8 DEF InInbox
    <3>4. \A g \in Models : ~ (Len(work'[g]) = 2 /\ work'[g][1] = m)
      BY <1>1, <1>8, EmptyHas DEF OnItsWay, InWork
    <3> QED
      BY <1>1, <1>3, <1>4, <1>8, <2>1, <3>1, <3>2, <3>3, <3>4 DEF OnPage, In
  <2>2. CASE d # c
    <3>1. OnPage(m, d) /\ UNCHANGED <<log, work, inbox, lastSeq, dropped, overrun, cpc[d], page[d]>>
      BY <1>1, <2>2 DEF Met
    <3>2. /\ InInbox(d, m)' <=> InInbox(d, m)
          /\ In(m, page[d])' <=> In(m, page[d])
          /\ In(m, log)' <=> In(m, log)
          /\ \A i \in 1 .. Len(inbox[d]) : Fresh(d, i)' <=> Fresh(d, i)
      BY <1>4, <3>1 DEF In, Fresh
    <3> QED
      BY <1>3, <3>1, <3>2 DEF OnPage
  <2> QED
    BY <2>1, <2>2
<1> QED
  BY <1>6, <1>7, <1>9 DEF Met

LEMMA ForwardMet ==
  ASSUME Shape, NEW c \in Clients, Forward(c), NEW m \in Msgs, Met(m)
  PROVE  Met(m)'
<1> DEFINE e == inbox[c][1]
<1>1. UNCHANGED <<log, model, queue, applied, work, bpc, bmodel, bcount, cpc, snap, lastSeq, dropped, overrun>>
  BY DEF Forward, modelVars, producer, history
<1>2. /\ cpc[c] = "loop" /\ e[2] \in Nat /\ 1 \in 1 .. Len(inbox[c]) /\ Len(inbox'[c]) = Len(inbox[c]) - 1
      /\ \A i \in 1 .. Len(inbox'[c]) : inbox'[c][i] = inbox[c][i + 1] /\ i + 1 \in 1 .. Len(inbox[c])
      /\ \A i \in 1 .. Len(inbox[c]) : i = 1 \/ (i - 1 \in 1 .. Len(inbox'[c]) /\ inbox[c][i] = inbox'[c][i - 1])
      /\ \A d \in Clients \ {c} : inbox'[d] = inbox[d] /\ page'[d] = page[d]
      /\ e[2] <= lastSeq[c] => page'[c] = page[c]
  BY Forwarded DEF Shape
<1>3. e[2] > lastSeq[c] =>
        /\ Len(page[c]) \in Nat /\ Len(page'[c]) = Len(page[c]) + 1
        /\ \A x : In(x, page'[c]) <=> In(x, page[c]) \/ x = e[1]
        /\ \A i \in 1 .. Len(page'[c]) : page'[c][i] = IF i = Len(page[c]) + 1 THEN e[1] ELSE page[c][i]
  BY Forwarded DEF Shape
<1>4. e[2] <= lastSeq[c] \/ e[2] > lastSeq[c]
  BY <1>2 DEF Shape, TypeOK
<1>5. e = inbox[c][1] /\ (Fresh(c, 1) <=> e[2] > lastSeq[c])
  BY DEF Fresh
<1> HIDE DEF e
<1>6. (ByProducer(m)' <=> ByProducer(m)) /\ (InWork(m)' <=> InWork(m))
  BY <1>1 DEF ByProducer, InWork
<1>7. OnItsWay(m)' <=> OnItsWay(m)
  BY <1>1, <1>6 DEF OnItsWay, In
<1>8. OnePlace(m)'
  BY <1>1, <1>6, <1>7 DEF OnePlace, Loading, In, Met
<1>9. InModel(m)'
  BY <1>1, <1>6 DEF InModel, In, Met
<1>10. \A i \in 1 .. Len(inbox'[c]) : Fresh(c, i)' <=> Fresh(c, i + 1)
  BY <1>1, <1>2 DEF Fresh
<1>11. \A i \in 1 .. Len(inbox[c]) : i # 1 => (Fresh(c, i) <=> Fresh(c, i - 1)')
  BY <1>1, <1>2 DEF Fresh
<1>12. InInbox(c, m) <=> InInbox(c, m)' \/ (e[1] = m /\ e[2] > lastSeq[c])
  <2>1. ASSUME InInbox(c, m)
        PROVE  InInbox(c, m)' \/ (e[1] = m /\ e[2] > lastSeq[c])
    <3>1. PICK i \in 1 .. Len(inbox[c]) : inbox[c][i][1] = m /\ Fresh(c, i)
      BY <2>1 DEF InInbox
    <3>2. CASE i = 1
      BY <1>5, <3>1, <3>2
    <3>3. CASE i # 1
      <4>1. i - 1 \in 1 .. Len(inbox'[c]) /\ inbox'[c][i - 1][1] = m /\ Fresh(c, i - 1)'
        BY <1>2, <1>11, <3>1, <3>3
      <4> QED
        BY <4>1 DEF InInbox
    <3> QED
      BY <3>2, <3>3
  <2>2. ASSUME InInbox(c, m)'
        PROVE  InInbox(c, m)
    <3>1. PICK i \in 1 .. Len(inbox'[c]) : inbox'[c][i][1] = m /\ Fresh(c, i)'
      BY <2>2 DEF InInbox
    <3>2. i + 1 \in 1 .. Len(inbox[c]) /\ inbox[c][i + 1][1] = m /\ Fresh(c, i + 1)
      BY <1>2, <1>10, <3>1
    <3> QED
      BY <3>2 DEF InInbox
  <2>3. e[1] = m /\ e[2] > lastSeq[c] => InInbox(c, m)
    BY <1>2, <1>5 DEF InInbox
  <2> QED
    BY <2>1, <2>2, <2>3
<1>13. \A i, j \in 1 .. Len(inbox[c]) : inbox[c][i][1] = m /\ inbox[c][j][1] = m /\ Fresh(c, i) /\ Fresh(c, j) => i = j
  BY <1>2 DEF Met, OnPage
<1>14. \A i, j \in 1 .. Len(inbox'[c]) :
         inbox'[c][i][1] = m /\ inbox'[c][j][1] = m /\ Fresh(c, i)' /\ Fresh(c, j)' => i = j
  <2> SUFFICES ASSUME NEW i \in 1 .. Len(inbox'[c]), NEW j \in 1 .. Len(inbox'[c]),
                      inbox'[c][i][1] = m, inbox'[c][j][1] = m, Fresh(c, i)', Fresh(c, j)'
               PROVE  i = j
    OBVIOUS
  <2>1. /\ inbox[c][i + 1][1] = m /\ inbox[c][j + 1][1] = m /\ Fresh(c, i + 1) /\ Fresh(c, j + 1)
        /\ i + 1 \in 1 .. Len(inbox[c]) /\ j + 1 \in 1 .. Len(inbox[c])
    BY <1>2, <1>10
  <2>2. i + 1 = j + 1
    BY <1>13, <2>1
  <2> QED
    BY <2>2
<1>15. OnPage(m, c)'
  <2>1. /\ In(m, log) => In(m, page[c]) \/ <<c, m>> \in overrun \/ m \in dropped \/ OnItsWay(m) \/ InInbox(c, m)
        /\ \A i, j \in 1 .. Len(page[c]) : page[c][i] = m /\ page[c][j] = m => i = j
        /\ In(m, page[c]) => ~ OnItsWay(m) /\ ~ InInbox(c, m)
        /\ InInbox(c, m) => ~ OnItsWay(m)
        /\ \A g \in Models : Len(work[g]) = 2 /\ work[g][1] = m => work[g][2] > lastSeq[c]
    BY <1>2 DEF Met, OnPage
  <2>2. (In(m, log') <=> In(m, log)) /\ cpc'[c] # "render"
    BY <1>1, <1>2 DEF In
  <2>3. CASE e[2] > lastSeq[c] /\ e[1] = m
    <3>1. InInbox(c, m)
      BY <1>12, <2>3
    <3>2. ~ InInbox(c, m)'
      <4>1. \A i \in 1 .. Len(inbox'[c]) : ~ (inbox'[c][i][1] = m /\ Fresh(c, i)')
        <5> SUFFICES ASSUME NEW i \in 1 .. Len(inbox'[c]), inbox'[c][i][1] = m, Fresh(c, i)'
                     PROVE  FALSE
          OBVIOUS
        <5>1. inbox[c][i + 1][1] = m /\ Fresh(c, i + 1) /\ i + 1 \in 1 .. Len(inbox[c])
          BY <1>2, <1>10
        <5>2. i + 1 = 1
          BY <1>2, <1>5, <1>13, <2>3, <5>1
        <5> QED
          BY <5>2
      <4> QED
        BY <4>1 DEF InInbox
    <3>3. In(m, page'[c])
      BY <1>3, <2>3
    <3>4. \A i, j \in 1 .. Len(page'[c]) : page'[c][i] = m /\ page'[c][j] = m => i = j
      <4>1. \A i \in 1 .. Len(page[c]) : page[c][i] # m
        BY <2>1, <3>1 DEF In
      <4>2. \A i \in 1 .. Len(page'[c]) : page'[c][i] = m => i = Len(page[c]) + 1
        BY <1>3, <2>3, <4>1
      <4> QED
        BY <4>2
    <3> QED
      BY <1>1, <1>7, <1>14, <2>1, <2>2, <3>1, <3>2, <3>3, <3>4 DEF OnPage
  <2>4. CASE ~ (e[2] > lastSeq[c] /\ e[1] = m)
    <3>1. (InInbox(c, m)' <=> InInbox(c, m)) /\ (In(m, page'[c]) <=> In(m, page[c]))
      BY <1>2, <1>3, <1>4, <1>12, <2>4
    <3>2. \A i, j \in 1 .. Len(page'[c]) : page'[c][i] = m /\ page'[c][j] = m => i = j
      <4>1. CASE e[2] > lastSeq[c]
        <5>1. \A i \in 1 .. Len(page'[c]) : page'[c][i] = m => i \in 1 .. Len(page[c]) /\ page[c][i] = m
          BY <1>3, <2>4, <4>1
        <5> QED
          BY <2>1, <5>1
      <4>2. CASE e[2] <= lastSeq[c]
        BY <1>2, <2>1, <4>2
      <4> QED
        BY <1>4, <4>1, <4>2
    <3> QED
      BY <1>1, <1>7, <1>14, <2>1, <2>2, <3>1, <3>2 DEF OnPage
  <2> QED
    BY <2>3, <2>4
<1>16. ASSUME NEW d \in Clients
       PROVE  OnPage(m, d)'
  <2>1. CASE d = c
    BY <1>15, <2>1
  <2>2. CASE d # c
    <3>1. inbox'[d] = inbox[d] /\ page'[d] = page[d]
      BY <1>2, <2>2
    <3>2. InInbox(d, m)' <=> InInbox(d, m)
      BY <1>1, <3>1 DEF InInbox, Fresh
    <3> QED
      BY <1>1, <1>7, <3>1, <3>2 DEF OnPage, Met, In, Fresh
  <2> QED
    BY <2>1, <2>2
<1> QED
  BY <1>8, <1>9, <1>16 DEF Met

LEMMA UnexposedInit == Init => Unexposed
<1> SUFFICES ASSUME Init, NEW m \in Msgs
             PROVE  OnePlace(m) /\ InModel(m) /\ \A c \in Clients : OnPage(m, c)
  BY DEF Unexposed
<1>1. ~ ByProducer(m) /\ ~ InWork(m) /\ \A g \in Models : queue[g] = <<>> /\ applied[g] = <<>> /\ work[g] = <<>>
  BY MsgParts DEF Init, ByProducer, InWork
<1>2. OnePlace(m)
  BY <1>1, EmptyHas DEF OnePlace, Init, Loading
<1>3. InModel(m)
  BY DEF InModel, Init
<1>4. ASSUME NEW c \in Clients
      PROVE  OnPage(m, c)
  BY DEF OnPage, Init
<1> QED
  BY <1>2, <1>3, <1>4

LEMMA UnexposedStep ==
  ASSUME Shape, Unexposed, [Next]_vars
  PROVE  Unexposed'
<1> SUFFICES ASSUME NEW m \in Msgs, m \notin exposed'
             PROVE  Met(m)'
  BY DEF Unexposed, Met
<1>1. Met(m)
  BY HistoryGrows DEF Unexposed, Met, Shape
<1>2. ASSUME NEW b \in Producers, AppendToLog(b) \/ ReadModel(b) \/ Enqueue(b)
      PROVE  Met(m)'
  BY <1>1, <1>2, AppendToLogMet, ReadModelMet, EnqueueMet
<1>3. ASSUME NEW g \in Models, ModelStep(g)
      PROVE  Met(m)'
  BY <1>1, <1>3, ApplyMet, NumberMet, SendMet, StopMet DEF ModelStep
<1>4. ASSUME NEW c \in Clients, Connect(c) \/ LoadStep(c) \/ Forward(c)
      PROVE  Met(m)'
  BY <1>1, <1>4, LoadMet, BuildMet, ReadNumberMet, RenderMet, ForwardMet DEF LoadStep
<1>5. CASE UNCHANGED vars
  <2>1. UNCHANGED <<log, model, queue, applied, work, lastSeq, inbox, page, bpc, bmodel, bcount, dropped, overrun,
                    cpc, snap>>
    BY <1>5 DEF vars, modelVars, producer, client, history
  <2> QED
    BY <1>1, <2>1, StaysMet DEF Loading
<1> QED
  BY <1>2, <1>3, <1>4, <1>5 DEF Next

-----------------------------------------------------------------------------
(* Order.                                                                  *)

LEMMA InOrderAppend ==
  ASSUME NEW s, NEW t, NEW x, Len(s) \in Nat, Len(t) = Len(s) + 1,
         \A i \in 1 .. Len(t) : t[i] = IF i = Len(s) + 1 THEN x ELSE s[i],
         InOrder(s), ~ Before(x, x),
         \A i \in 1 .. Len(s) : Before(x, s[i]) => In(x, s)
  PROVE  InOrder(t)
<1>1. \A i \in 1 .. Len(s) : i \in 1 .. Len(t) /\ t[i] = s[i]
  OBVIOUS
<1>2. \A i \in 1 .. Len(t) : i \in 1 .. Len(s) \/ (i = Len(s) + 1 /\ t[i] = x)
  OBVIOUS
<1> SUFFICES ASSUME NEW i \in 1 .. Len(t), NEW j \in 1 .. Len(t), Before(t[i], t[j])
             PROVE  \E k \in 1 .. j : t[k] = t[i]
  BY DEF InOrder
<1>3. CASE j \in 1 .. Len(s)
  <2>1. \E k \in 1 .. Len(s) : s[k] = t[i]
    <3>1. CASE i \in 1 .. Len(s)
      BY <1>1, <3>1
    <3>2. CASE t[i] = x
      BY <1>1, <1>3, <3>2 DEF In
    <3> QED
      BY <1>2, <3>1, <3>2
  <2>2. PICK k \in 1 .. Len(s) : s[k] = t[i]
    BY <2>1
  <2>3. PICK l \in 1 .. j : s[l] = s[k]
    BY <1>1, <1>3, <2>2 DEF InOrder
  <2>4. l \in 1 .. Len(s)
    BY <1>3
  <2> QED
    BY <1>1, <2>2, <2>3, <2>4
<1>4. CASE j = Len(s) + 1 /\ t[j] = x
  <2>1. t[i] # x
    BY <1>4
  <2>2. i \in 1 .. Len(s)
    BY <1>2, <2>1
  <2>3. i \in 1 .. j
    BY <1>4, <2>2
  <2> QED
    BY <2>3
<1> QED
  BY <1>2, <1>3, <1>4

\* The message that a producer is broadcasting is its last.
LEMMA LastMessage ==
  ASSUME Shape, NEW b \in Producers, NEW x \in Msgs, In(x, log)
  PROVE  ~ Before(Current(b), x)
<1>1. x[2] <= bcount[x[1]] /\ x[2] \in Nat /\ bcount[b] \in Nat
  BY LogHas, MsgParts DEF Shape
<1>2. Current(b)[1] = b /\ Current(b)[2] = bcount[b]
  BY DEF Current
<1> QED
  BY <1>1, <1>2 DEF Before

\* Only the last model pushes.
LEMMA OnlyLast ==
  ASSUME Shape, OneLoad, NEW g \in Models, run[g] \in {"running", "stopping"} \/ work[g] # <<>>
  PROVE  g = built /\ built # 0
<1>1. g \in Nat /\ built \in Nat
  BY CountOfModels DEF Shape
<1>2. run[g] \in {"running", "stopping"}
  BY DEF Shape, ModelsRight
<1>3. ~ (g > built) /\ ~ (g < built)
  BY <1>2 DEF OneLoad, Shape, ModelsRight
<1>4. g # 0
  BY ConstantsAssumption DEF Models
<1> QED
  BY <1>1, <1>3, <1>4

\* Once two loads have overlapped, they have; and ReadLog finds nobody loading.
LEMMA OverlapStays ==
  ASSUME [Next]_vars, TypeOK
  PROVE  overlap => overlap'
<1>1. ASSUME NEW b \in Producers, AppendToLog(b) \/ ReadModel(b) \/ Enqueue(b)
      PROVE  overlap => overlap'
  BY <1>1 DEF AppendToLog, ReadModel, Enqueue, history
<1>2. ASSUME NEW g \in Models, ModelStep(g)
      PROVE  overlap => overlap'
  BY <1>2 DEF ModelStep, Apply, Number, Send, Stop, history
<1>3. ASSUME NEW c \in Clients, Connect(c) \/ LoadStep(c) \/ Forward(c)
      PROVE  overlap => overlap'
  BY <1>3 DEF LoadStep, Connect, ReadLog, CloseModel, CloseModelGoing, Closed, Build, BuildFrom, ReadNumber,
              Render, Forward, history
<1> QED
  BY <1>1, <1>2, <1>3 DEF Next, vars, history

LEMMA OneLoadStays ==
  ASSUME OneLoad, UNCHANGED <<cpc, closing, model, built, run>>
  PROVE  OneLoad'
BY DEF OneLoad, Loading

LEMMA OneLoadStop ==
  ASSUME Shape, OneLoad, NEW g \in Models, Stop(g)
  PROVE  OneLoad'
<1>1. UNCHANGED <<cpc, closing, model, built>>
  BY DEF Stop, client
<1>2. run[g] = "stopping" /\ \A h \in Models : run'[h] = IF h = g THEN "stopped" ELSE run[h]
  BY DEF Stop, Shape, TypeOK
<1>3. model # NoModel => model \in Models
  BY DEF Shape, TypeOK
<1>4. \A h \in Models : run[h] = "stopped" => run'[h] = "stopped"
  BY <1>2
<1> QED
  BY <1>1, <1>3, <1>4 DEF OneLoad, Loading

LEMMA OneLoadLoad ==
  ASSUME Shape, OneLoad, NEW c \in Clients, Connect(c) \/ ReadLog(c) \/ CloseModel(c) \/ Closed(c)
                                            \/ ReadNumber(c) \/ Render(c) \/ Forward(c),
         ~ overlap'
  PROVE  OneLoad'
<1> USE DEF Goto
<1>1. UNCHANGED <<model, built>> /\ \A d \in Clients : d # c => cpc'[d] = cpc[d] /\ closing'[d] = closing[d]
  BY DEF Connect, ReadLog, CloseModel, CloseModelGoing, Closed, ReadNumber, Render, Forward, modelVars, Shape, TypeOK
<1>2. CASE Connect(c)
  <2>1. cpc[c] = "idle" /\ cpc'[c] = "read" /\ UNCHANGED run
    BY <1>2 DEF Connect, modelVars, Shape, TypeOK
  <2> QED
    BY <1>1, <2>1 DEF OneLoad, Loading
<1>3. CASE ReadLog(c)
  <2>1. cpc[c] = "read" /\ cpc'[c] = "close" /\ UNCHANGED run /\ \A d \in Clients : ~ Loading(d)
    BY <1>3 DEF ReadLog, modelVars, Shape, TypeOK
  <2> QED
    BY <1>1, <2>1 DEF OneLoad, Loading
<1>4. CASE CloseModel(c)
  <2>1. CASE model = NoModel
    <3>1. cpc[c] = "close" /\ cpc'[c] = "build" /\ UNCHANGED run
      BY <1>4, <2>1 DEF CloseModel, CloseModelGoing, Shape, TypeOK
    <3> QED
      BY <1>1, <2>1, <3>1 DEF OneLoad, Loading
  <2>2. CASE model # NoModel /\ run[model] = "running"
    <3>1. cpc[c] = "close" /\ cpc'[c] = "wait" /\ run' = [run EXCEPT ![model] = "stopping"] /\ closing'[c] = model
      BY <1>4, <2>2 DEF CloseModel, CloseModelGoing, Shape, TypeOK
    <3>2. model = built /\ model \in Models
      BY <2>2 DEF Shape, TypeOK, ModelsRight
    <3>3. \A g \in Models : run'[g] = IF g = built THEN "stopping" ELSE run[g]
      BY <3>1, <3>2 DEF Shape, TypeOK
    <3>4. \A d \in Clients : Loading(d)' <=> Loading(d)
      BY <1>1, <3>1 DEF Loading
    <3>5. \A d \in Clients : cpc'[d] \notin {"build"}
      BY <1>1, <2>2, <3>1 DEF OneLoad
    <3>6. \A g \in Models : g < built => run'[g] = "stopped"
      <4>1. built \in Nat
        BY CountOfModels DEF Shape
      <4> QED
        BY <3>3, <4>1 DEF OneLoad
    <3> QED
      BY <1>1, <3>1, <3>4, <3>5, <3>6 DEF OneLoad
  <2>3. CASE model # NoModel /\ run[model] # "running"
    <3>1. cpc[c] = "close" /\ cpc'[c] = "panicked" /\ UNCHANGED run
      BY <1>4, <2>3 DEF CloseModel, CloseModelGoing, Shape, TypeOK
    <3> QED
      BY <1>1, <3>1 DEF OneLoad, Loading
  <2> QED
    BY <2>1, <2>2, <2>3
<1>5. CASE Closed(c)
  <2>1. cpc[c] = "wait" /\ cpc'[c] = "build" /\ UNCHANGED run /\ run[closing[c]] = "stopped"
    BY <1>5 DEF Closed, modelVars, Shape, TypeOK
  <2>2. run[model] = "stopped"
    BY <2>1 DEF OneLoad
  <2> QED
    BY <1>1, <2>1, <2>2 DEF OneLoad, Loading
<1>6. CASE ReadNumber(c) \/ Render(c)
  <2>1. cpc[c] \in {"number", "render"} /\ cpc'[c] \in {"render", "loop"} /\ UNCHANGED run
    BY <1>6 DEF ReadNumber, Render, modelVars, Shape, TypeOK
  <2> QED
    BY <1>1, <2>1 DEF OneLoad, Loading
<1>7. CASE Forward(c)
  <2>1. UNCHANGED <<cpc, closing, model, built, run>>
    BY <1>7 DEF Forward, modelVars
  <2> QED
    BY <2>1, OneLoadStays
<1> QED
  BY <1>2, <1>3, <1>4, <1>5, <1>6, <1>7

LEMMA OneLoadBuild ==
  ASSUME Shape, OneLoad, NEW c \in Clients, Build(c)
  PROVE  OneLoad' /\ \A d \in Clients : cpc[d] # "render"
<1>1. built + 1 \in Models /\ built \in Nat
  BY BuildTypes, CountOfModels DEF Shape
<1>2. /\ model' = built + 1 /\ built' = built + 1 /\ cpc[c] = "build"
      /\ cpc'[c] = "number" /\ \A d \in Clients : d # c => cpc'[d] = cpc[d]
  BY DEF Build, BuildFrom, Goto, Shape, TypeOK
<1>3. \A g \in Models : run'[g] = IF g = built + 1 THEN "running" ELSE run[g]
  BY <1>1 DEF Build, BuildFrom, Shape, TypeOK
<1>4. \A d \in Clients : d # c => ~ Loading(d)
  BY <1>2 DEF OneLoad, Loading
<1>5. \A d \in Clients : d # c => ~ Loading(d)' /\ cpc[d] # "render"
  BY <1>2, <1>4 DEF Loading
<1>6. \A g \in Models : g < built + 1 => run'[g] = "stopped"
  <2> SUFFICES ASSUME NEW g \in Models, g < built + 1
               PROVE  run[g] = "stopped"
    BY <1>1, <1>3, CountOfModels DEF Shape
  <2>1. g \in Nat /\ g # 0
    BY CountOfModels, ConstantsAssumption DEF Shape, Models
  <2>2. CASE g = built
    BY <1>2, <2>1, <2>2 DEF OneLoad, Shape, ModelsRight, NoModel
  <2>3. CASE g < built
    BY <2>3 DEF OneLoad
  <2> QED
    BY <1>1, <2>1, <2>2, <2>3
<1>7. \A d \in Clients : cpc'[d] \notin {"wait", "build"}
  BY <1>2, <1>5 DEF Loading
<1>8. \A d, e \in Clients : Loading(d)' /\ Loading(e)' => d = e
  BY <1>5
<1>9. OneLoad'
  BY <1>2, <1>6, <1>7, <1>8 DEF OneLoad
<1> QED
  BY <1>2, <1>5, <1>9

\* Everything on the way, or shown, is a message of the log.
LEMMA WhatIsHeld ==
  ASSUME Shape
  PROVE  /\ \A g \in Models : \A i \in 1 .. Len(queue[g]) : queue[g][i] \in Msgs /\ In(queue[g][i], log) /\ In(queue[g][i], queue[g])
         /\ \A g \in Models : \A i \in 1 .. Len(applied[g]) : applied[g][i] \in Msgs /\ In(applied[g][i], log) /\ In(applied[g][i], applied[g])
         /\ \A g \in Models : work[g] # <<>> => work[g][1] \in Msgs /\ In(work[g][1], log)
         /\ \A c \in Clients : \A i \in 1 .. Len(inbox[c]) : inbox[c][i][1] \in Msgs /\ In(inbox[c][i][1], log)
         /\ \A c \in Clients : \A i \in 1 .. Len(page[c]) : page[c][i] \in Msgs /\ In(page[c][i], log) /\ In(page[c][i], page[c])
<1>1. \A g \in Models : \A i \in 1 .. Len(queue[g]) : queue[g][i] \in Msgs /\ In(queue[g][i], queue[g])
  BY ElementOfSeq DEF Shape, TypeOK, In
<1>2. \A g \in Models : \A i \in 1 .. Len(applied[g]) : applied[g][i] \in Msgs /\ In(applied[g][i], applied[g])
  BY ElementOfSeq DEF Shape, TypeOK, In
<1>3. \A g \in Models : work[g] # <<>> => work[g][1] \in Msgs
  BY WorkShape DEF Shape
<1>4. \A c \in Clients : \A i \in 1 .. Len(inbox[c]) : inbox[c][i][1] \in Msgs
  <2> SUFFICES ASSUME NEW c \in Clients, NEW i \in 1 .. Len(inbox[c])
               PROVE  inbox[c][i][1] \in Msgs
    OBVIOUS
  <2>1. inbox[c][i] \in Msgs \X Nat
    BY ElementOfSeq DEF Shape, TypeOK
  <2> QED
    BY <2>1
<1>5. \A c \in Clients : \A i \in 1 .. Len(page[c]) : page[c][i] \in Msgs /\ In(page[c][i], page[c])
  BY ElementOfSeq DEF Shape, TypeOK, In
<1> QED
  BY <1>1, <1>2, <1>3, <1>4, <1>5 DEF Shape, Logged, ModelsRight

\* What queueing does.
LEMMA Enqueued ==
  ASSUME Shape, NEW b \in Producers, Enqueue(b)
  PROVE  LET g == bmodel[b] IN
         /\ UNCHANGED <<log, model, built, applied, work, run, cpc, closing, inbox, lastSeq, page>>
         /\ g \in Models /\ Current(b) \in Msgs /\ Len(queue[g]) \in Nat
         /\ \A h \in Models \ {g} : queue'[h] = queue[h]
         /\ \/ /\ Len(queue'[g]) = Len(queue[g]) + 1
               /\ \A i \in 1 .. Len(queue'[g]) :
                    queue'[g][i] = IF i = Len(queue[g]) + 1 THEN Current(b) ELSE queue[g][i]
            \/ queue'[g] = queue[g]
<1> DEFINE g == bmodel[b]
<1>1. UNCHANGED <<log, model, built, applied, work, run, cpc, closing, inbox, lastSeq, page>>
  BY DEF Enqueue, client
<1>2. g \in Models /\ queue[g] \in Seq(Msgs) /\ Len(queue[g]) \in Nat
  BY LenProperties DEF Enqueue, Shape, ModelsRight, TypeOK, Models, NoModel
<1>3. Current(b) \in Msgs
  <2>1. bcount[b] \in 1 .. MaxMsgs
    BY LogHas, ConstantsAssumption DEF LogRight, Enqueue, Shape
  <2> QED
    BY <2>1, MsgParts DEF Current
<1>4. /\ \A h \in Models \ {g} : queue'[h] = queue[h]
      /\ queue'[g] = Append(queue[g], Current(b)) \/ queue'[g] = queue[g]
  <2>1. queue' = [queue EXCEPT ![g] = Append(@, Current(b))] \/ queue' = queue
    BY DEF Enqueue
  <2> QED
    BY <1>2, <2>1 DEF Shape, TypeOK
<1>5. /\ Len(Append(queue[g], Current(b))) = Len(queue[g]) + 1
      /\ \A i \in 1 .. Len(queue[g]) + 1 :
           Append(queue[g], Current(b))[i] = IF i = Len(queue[g]) + 1 THEN Current(b) ELSE queue[g][i]
  BY <1>2, <1>3, OneMore
<1> QED
  BY <1>1, <1>2, <1>3, <1>4, <1>5

LEMMA ToComeStays ==
  ASSUME ToCome, UNCHANGED <<queue, work, inbox, built>>
  PROVE  ToCome'
BY DEF ToCome

LEMMA ToComeEnqueue ==
  ASSUME Shape, ToCome, NEW b \in Producers, Enqueue(b)
  PROVE  ToCome'
<1> DEFINE g == bmodel[b]
           x == Current(b)
<1>1. /\ UNCHANGED <<work, inbox, built>>
      /\ g \in Models /\ x \in Msgs /\ Len(queue[g]) \in Nat
      /\ \A h \in Models \ {g} : queue'[h] = queue[h]
      /\ \/ /\ Len(queue'[g]) = Len(queue[g]) + 1
            /\ \A i \in 1 .. Len(queue'[g]) : queue'[g][i] = IF i = Len(queue[g]) + 1 THEN x ELSE queue[g][i]
         \/ queue'[g] = queue[g]
  BY Enqueued
<1>2. \A y \in Msgs : In(y, log) => ~ Before(x, y)
  BY LastMessage
<1> HIDE DEF x, g
<1>3. \A i \in 1 .. Len(queue'[g]) :
        \/ i \in 1 .. Len(queue[g]) /\ queue'[g][i] = queue[g][i]
        \/ queue'[g][i] = x /\ i = Len(queue[g]) + 1
  BY <1>1
<1>4. \A i, j \in 1 .. Len(queue'[g]) : i < j => ~ Before(queue'[g][j], queue'[g][i])
  <2> SUFFICES ASSUME NEW i \in 1 .. Len(queue'[g]), NEW j \in 1 .. Len(queue'[g]), i < j
               PROVE  ~ Before(queue'[g][j], queue'[g][i])
    OBVIOUS
  <2>1. i \in 1 .. Len(queue[g]) /\ queue'[g][i] = queue[g][i]
    BY <1>1, <1>3
  <2>2. CASE queue'[g][j] = x
    BY <1>1, <1>2, <2>1, <2>2, WhatIsHeld
  <2>3. CASE j \in 1 .. Len(queue[g]) /\ queue'[g][j] = queue[g][j]
    BY <1>1, <2>1, <2>3 DEF ToCome
  <2> QED
    BY <1>3, <2>2, <2>3
<1>5. \A i \in 1 .. Len(queue'[g]) : work[g] # <<>> => ~ Before(queue'[g][i], work[g][1])
  BY <1>1, <1>2, <1>3, WhatIsHeld DEF ToCome
<1>6. ASSUME NEW c \in Clients, NEW i \in 1 .. Len(inbox[c]), built # 0, NEW j \in 1 .. Len(queue'[built])
      PROVE  ~ Before(queue'[built][j], inbox[c][i][1])
  <2>1. built \in Models
    BY <1>6 DEF Shape, TypeOK
  <2>2. CASE built = g
    BY <1>2, <1>3, <1>6, <2>2, WhatIsHeld DEF ToCome
  <2>3. CASE built # g
    BY <1>1, <1>6, <2>1, <2>3 DEF ToCome
  <2> QED
    BY <2>2, <2>3
<1>7. \A h \in Models :
        /\ \A i, j \in 1 .. Len(queue'[h]) : i < j => ~ Before(queue'[h][j], queue'[h][i])
        /\ \A i \in 1 .. Len(queue'[h]) : work[h] # <<>> => ~ Before(queue'[h][i], work[h][1])
  <2> SUFFICES ASSUME NEW h \in Models
               PROVE  /\ \A i, j \in 1 .. Len(queue'[h]) : i < j => ~ Before(queue'[h][j], queue'[h][i])
                      /\ \A i \in 1 .. Len(queue'[h]) : work[h] # <<>> => ~ Before(queue'[h][i], work[h][1])
    OBVIOUS
  <2>1. CASE h = g
    BY <1>4, <1>5, <2>1
  <2>2. CASE h # g
    BY <1>1, <2>2 DEF ToCome
  <2> QED
    BY <2>1, <2>2
<1> QED
  BY <1>1, <1>6, <1>7 DEF ToCome

LEMMA ToComeApply ==
  ASSUME Shape, OneLoad, ToCome, NEW g \in Models, Apply(g)
  PROVE  ToCome'
<1> DEFINE x == Head(queue[g])
<1>1. /\ x = queue[g][1] /\ 1 \in 1 .. Len(queue[g]) /\ Len(queue[g]) \in Nat
      /\ Len(queue'[g]) = Len(queue[g]) - 1
      /\ \A i \in 1 .. Len(queue'[g]) : queue'[g][i] = queue[g][i + 1] /\ i + 1 \in 1 .. Len(queue[g])
      /\ work'[g] # <<>> /\ work'[g][1] = x
      /\ \A h \in Models \ {g} : queue'[h] = queue[h] /\ work'[h] = work[h]
  BY Taken DEF Shape
<1>2. UNCHANGED <<inbox, built>>
  BY DEF Apply, client
<1>3. g = built /\ built # 0
  BY OnlyLast DEF Apply
<1> HIDE DEF x
<1>4. \A i, j \in 1 .. Len(queue[g]) : i < j => ~ Before(queue[g][j], queue[g][i])
  BY DEF ToCome
<1>5. \A i, j \in 1 .. Len(queue'[g]) : i < j => ~ Before(queue'[g][j], queue'[g][i])
  <2> SUFFICES ASSUME NEW i \in 1 .. Len(queue'[g]), NEW j \in 1 .. Len(queue'[g]), i < j
               PROVE  ~ Before(queue'[g][j], queue'[g][i])
    OBVIOUS
  <2>1. /\ queue'[g][i] = queue[g][i + 1] /\ i + 1 \in 1 .. Len(queue[g])
        /\ queue'[g][j] = queue[g][j + 1] /\ j + 1 \in 1 .. Len(queue[g]) /\ i + 1 < j + 1
    <3>1. i + 1 < j + 1
      OBVIOUS
    <3>2. \A k \in 1 .. Len(queue'[g]) : queue'[g][k] = queue[g][k + 1] /\ k + 1 \in 1 .. Len(queue[g])
      BY <1>1
    <3> QED
      BY <3>1, <3>2
  <2>2. ~ Before(queue[g][j + 1], queue[g][i + 1])
    BY <1>4, <2>1
  <2> QED
    BY <2>1, <2>2
<1>6. \A i \in 1 .. Len(queue'[g]) : ~ Before(queue'[g][i], x)
  <2> SUFFICES ASSUME NEW i \in 1 .. Len(queue'[g])
               PROVE  ~ Before(queue'[g][i], x)
    OBVIOUS
  <2>1. queue'[g][i] = queue[g][i + 1] /\ i + 1 \in 1 .. Len(queue[g]) /\ 1 < i + 1
    BY <1>1
  <2>2. ~ Before(queue[g][i + 1], queue[g][1])
    BY <1>1, <1>4, <2>1
  <2> QED
    BY <1>1, <2>1, <2>2
<1>7. ASSUME NEW c \in Clients, NEW i \in 1 .. Len(inbox[c])
      PROVE  ~ Before(x, inbox[c][i][1]) /\ \A j \in 1 .. Len(queue'[g]) : ~ Before(queue'[g][j], inbox[c][i][1])
  <2>1. \A j \in 1 .. Len(queue[g]) : ~ Before(queue[g][j], inbox[c][i][1])
    BY <1>3 DEF ToCome
  <2> QED
    BY <1>1, <2>1
<1>8. \A c \in Clients : \A i, j \in 1 .. Len(inbox[c]) : i < j => ~ Before(inbox[c][j][1], inbox[c][i][1])
  BY DEF ToCome
<1>9. \A h \in Models :
        /\ \A i, j \in 1 .. Len(queue'[h]) : i < j => ~ Before(queue'[h][j], queue'[h][i])
        /\ \A i \in 1 .. Len(queue'[h]) : work'[h] # <<>> => ~ Before(queue'[h][i], work'[h][1])
  <2> SUFFICES ASSUME NEW h \in Models
               PROVE  /\ \A i, j \in 1 .. Len(queue'[h]) : i < j => ~ Before(queue'[h][j], queue'[h][i])
                      /\ \A i \in 1 .. Len(queue'[h]) : work'[h] # <<>> => ~ Before(queue'[h][i], work'[h][1])
    OBVIOUS
  <2>1. CASE h = g
    BY <1>1, <1>5, <1>6, <2>1
  <2>2. CASE h # g
    BY <1>1, <2>2 DEF ToCome
  <2> QED
    BY <2>1, <2>2
<1> QED
  BY <1>1, <1>2, <1>3, <1>7, <1>8, <1>9 DEF ToCome

LEMMA ToComeNumber ==
  ASSUME Shape, ToCome, NEW g \in Models, Number(g)
  PROVE  ToCome'
<1>1. \A h \in Models : work'[h] # <<>> => work[h] # <<>> /\ work'[h][1] = work[h][1]
  BY Numbered DEF Shape
<1>2. UNCHANGED <<queue, inbox, built>>
  BY DEF Number, client
<1>3. built # 0 => built \in Models
  BY DEF Shape, TypeOK
<1> QED
  BY <1>1, <1>2, <1>3 DEF ToCome

LEMMA ToComeSend ==
  ASSUME Shape, OneLoad, ToCome, NEW g \in Models, Send(g)
  PROVE  ToCome'
<1>1. UNCHANGED <<queue, built>>
  BY DEF Send
<1>2. /\ work[g] # <<>> /\ work'[g] = <<>> /\ \A h \in Models \ {g} : work'[h] = work[h]
  BY Sent DEF Shape
<1>3. g = built /\ built # 0
  BY <1>2, OnlyLast
<1>4. ASSUME NEW c \in Clients, NEW i \in 1 .. Len(inbox'[c])
      PROVE  /\ \A j \in 1 .. Len(inbox'[c]) : i < j => ~ Before(inbox'[c][j][1], inbox'[c][i][1])
             /\ \A j \in 1 .. Len(queue[built]) : ~ Before(queue[built][j], inbox'[c][i][1])
  <2> DEFINE n == Len(inbox[c]) + 1
  <2>1. \/ inbox'[c] = inbox[c]
        \/ /\ Len(inbox'[c]) = n /\ Len(inbox[c]) \in Nat /\ inbox'[c][n] = work[g]
           /\ \A k \in 1 .. Len(inbox[c]) : inbox'[c][k] = inbox[c][k]
           /\ \A k \in 1 .. Len(inbox'[c]) : k = n \/ k \in 1 .. Len(inbox[c])
    BY Sent DEF Shape
  <2>2. /\ \A k, j \in 1 .. Len(inbox[c]) : k < j => ~ Before(inbox[c][j][1], inbox[c][k][1])
        /\ \A k \in 1 .. Len(inbox[c]) :
             /\ ~ Before(work[g][1], inbox[c][k][1])
             /\ \A j \in 1 .. Len(queue[built]) : ~ Before(queue[built][j], inbox[c][k][1])
        /\ \A j \in 1 .. Len(queue[g]) : ~ Before(queue[g][j], work[g][1])
    BY <1>2, <1>3 DEF ToCome
  <2>3. CASE inbox'[c] = inbox[c]
    BY <1>4, <2>2, <2>3
  <2>4. CASE /\ Len(inbox'[c]) = n /\ Len(inbox[c]) \in Nat /\ inbox'[c][n] = work[g]
             /\ \A k \in 1 .. Len(inbox[c]) : inbox'[c][k] = inbox[c][k]
             /\ \A k \in 1 .. Len(inbox'[c]) : k = n \/ k \in 1 .. Len(inbox[c])
    <3>1. CASE i \in 1 .. Len(inbox[c])
      BY <2>2, <2>4, <3>1
    <3>2. CASE i = n
      <4>1. \A j \in 1 .. Len(inbox'[c]) : ~ (i < j)
        BY <2>4, <3>2
      <4> QED
        BY <1>3, <2>2, <2>4, <3>2, <4>1
    <3> QED
      BY <1>4, <2>4, <3>1, <3>2
  <2> QED
    BY <2>1, <2>3, <2>4
<1>5. \A h \in Models :
        /\ \A i, j \in 1 .. Len(queue[h]) : i < j => ~ Before(queue[h][j], queue[h][i])
        /\ \A i \in 1 .. Len(queue[h]) : work'[h] # <<>> => ~ Before(queue[h][i], work'[h][1])
  BY <1>2 DEF ToCome
<1>6. work'[built] = <<>>
  BY <1>2, <1>3
<1> QED
  BY <1>1, <1>4, <1>5, <1>6 DEF ToCome

LEMMA ToComeBuild ==
  ASSUME Shape, ToCome, NEW c \in Clients, Build(c)
  PROVE  ToCome'
<1>1. UNCHANGED <<queue, work, inbox>> /\ built' = built + 1
  BY DEF Build, BuildFrom
<1>2. built' \in Models /\ queue[built'] = <<>> /\ work[built'] = <<>>
  <2>1. built + 1 \in Models /\ built + 1 > built
    BY BuildTypes, CountOfModels DEF Shape
  <2> QED
    BY <1>1, <2>1 DEF Shape, ModelsRight
<1>3. Len(queue[built']) = 0
  BY <1>2
<1> QED
  BY <1>1, <1>2, <1>3 DEF ToCome

LEMMA ToComeForward ==
  ASSUME Shape, ToCome, NEW c \in Clients, Forward(c)
  PROVE  ToCome'
<1>1. UNCHANGED <<queue, work, built>>
  BY DEF Forward, modelVars
<1>2. /\ \A i \in 1 .. Len(inbox'[c]) : inbox'[c][i] = inbox[c][i + 1] /\ i + 1 \in 1 .. Len(inbox[c])
      /\ \A d \in Clients \ {c} : inbox'[d] = inbox[d]
  BY Forwarded DEF Shape
<1>3. ASSUME NEW d \in Clients, NEW i \in 1 .. Len(inbox'[d])
      PROVE  /\ \A j \in 1 .. Len(inbox'[d]) : i < j => ~ Before(inbox'[d][j][1], inbox'[d][i][1])
             /\ built # 0 => /\ work[built] # <<>> => ~ Before(work[built][1], inbox'[d][i][1])
                             /\ \A j \in 1 .. Len(queue[built]) : ~ Before(queue[built][j], inbox'[d][i][1])
  <2>1. CASE d = c
    <3>1. inbox'[c][i] = inbox[c][i + 1] /\ i + 1 \in 1 .. Len(inbox[c])
      BY <1>2, <1>3, <2>1
    <3>2. ASSUME NEW j \in 1 .. Len(inbox'[c]), i < j
          PROVE  ~ Before(inbox'[c][j][1], inbox'[c][i][1])
      <4>1. inbox'[c][j] = inbox[c][j + 1] /\ j + 1 \in 1 .. Len(inbox[c]) /\ i + 1 < j + 1
        BY <1>2, <1>3, <3>2
      <4>2. ~ Before(inbox[c][j + 1][1], inbox[c][i + 1][1])
        BY <3>1, <4>1 DEF ToCome
      <4> QED
        BY <3>1, <4>1, <4>2
    <3>3. built # 0 => /\ work[built] # <<>> => ~ Before(work[built][1], inbox[c][i + 1][1])
                       /\ \A j \in 1 .. Len(queue[built]) : ~ Before(queue[built][j], inbox[c][i + 1][1])
      BY <3>1 DEF ToCome
    <3> QED
      BY <2>1, <3>1, <3>2, <3>3
  <2>2. CASE d # c
    BY <1>2, <1>3, <2>2 DEF ToCome
  <2> QED
    BY <2>1, <2>2
<1>4. \A h \in Models :
        /\ \A i, j \in 1 .. Len(queue[h]) : i < j => ~ Before(queue[h][j], queue[h][i])
        /\ \A i \in 1 .. Len(queue[h]) : work[h] # <<>> => ~ Before(queue[h][i], work[h][1])
  BY DEF ToCome
<1> QED
  BY <1>1, <1>3, <1>4 DEF ToCome

LEMMA ModelInOrderStays ==
  ASSUME ModelInOrder, UNCHANGED <<queue, applied, built, inbox, lastSeq>>,
         \A c \in Clients : cpc'[c] = "render" => cpc[c] = "render"
  PROVE  ModelInOrder'
BY DEF ModelInOrder, In, InOrder, Fresh

LEMMA ModelInOrderEnqueue ==
  ASSUME Shape, ModelInOrder, NEW b \in Producers, Enqueue(b)
  PROVE  ModelInOrder'
<1> DEFINE g == bmodel[b]
           x == Current(b)
<1>1. /\ UNCHANGED <<applied, inbox, built, cpc, lastSeq>>
      /\ g \in Models /\ Len(queue[g]) \in Nat
      /\ \A h \in Models \ {g} : queue'[h] = queue[h]
      /\ \/ /\ Len(queue'[g]) = Len(queue[g]) + 1
            /\ \A i \in 1 .. Len(queue'[g]) : queue'[g][i] = IF i = Len(queue[g]) + 1 THEN x ELSE queue[g][i]
         \/ queue'[g] = queue[g]
  BY Enqueued
<1>2. \A y \in Msgs : In(y, log) => ~ Before(x, y)
  BY LastMessage
<1> HIDE DEF x, g
<1> SUFFICES ASSUME built # 0
             PROVE  ModelInOrder'
  BY <1>1 DEF ModelInOrder
<1>3. built \in Models
  BY DEF Shape, TypeOK
<1>4. \A j \in 1 .. Len(queue'[built]) :
        \/ j \in 1 .. Len(queue[built]) /\ queue'[built][j] = queue[built][j]
        \/ queue'[built][j] = x
  <2>1. CASE built = g
    BY <1>1, <2>1
  <2>2. CASE built # g
    BY <1>1, <1>3, <2>2
  <2> QED
    BY <2>1, <2>2
<1>5. \A i \in 1 .. Len(applied[built]) : ~ Before(x, applied[built][i])
  BY <1>2, <1>3, WhatIsHeld
<1>6. \A i \in 1 .. Len(applied[built]), j \in 1 .. Len(queue'[built]) :
        Before(queue'[built][j], applied[built][i]) => In(queue'[built][j], applied[built])
  BY <1>4, <1>5 DEF ModelInOrder
<1>7. /\ InOrder(applied[built])
      /\ \A c \in Clients : cpc[c] = "render" =>
           \A i \in 1 .. Len(inbox[c]) : Fresh(c, i) => In(inbox[c][i][1], applied[built])
  BY DEF ModelInOrder
<1>8. /\ applied'[built'] = applied[built] /\ queue'[built'] = queue'[built]
      /\ InOrder(applied[built])' <=> InOrder(applied[built])
      /\ \A x1 : In(x1, applied[built])' <=> In(x1, applied[built])
      /\ UNCHANGED <<inbox, cpc>> /\ \A c \in Clients, i \in Nat : Fresh(c, i)' <=> Fresh(c, i)
  BY <1>1 DEF In, InOrder, Fresh
<1> QED
  BY <1>6, <1>7, <1>8 DEF ModelInOrder

LEMMA ModelInOrderApply ==
  ASSUME Shape, OneLoad, ToCome, ModelInOrder, NEW g \in Models, Apply(g)
  PROVE  ModelInOrder'
<1> DEFINE x == Head(queue[g])
           s == applied[g]
           t == applied'[g]
<1>1. /\ x \in Msgs /\ x = queue[g][1] /\ 1 \in 1 .. Len(queue[g])
      /\ \A y : In(y, t) <=> In(y, s) \/ y = x
      /\ \A i \in 1 .. Len(queue'[g]) : queue'[g][i] = queue[g][i + 1] /\ i + 1 \in 1 .. Len(queue[g])
      /\ Len(s) \in Nat /\ Len(t) = Len(s) + 1
      /\ \A i \in 1 .. Len(t) : t[i] = IF i = Len(s) + 1 THEN x ELSE s[i]
  BY Taken DEF Shape
<1>2. UNCHANGED <<inbox, built, cpc, lastSeq>>
  BY DEF Apply, client
<1>3. g = built /\ built # 0
  BY OnlyLast DEF Apply
<1>4. /\ InOrder(s)
      /\ \A i \in 1 .. Len(s), j \in 1 .. Len(queue[g]) : Before(queue[g][j], s[i]) => In(queue[g][j], s)
      /\ \A c \in Clients : cpc[c] = "render" => \A i \in 1 .. Len(inbox[c]) : Fresh(c, i) => In(inbox[c][i][1], s)
  BY <1>3 DEF ModelInOrder
<1> HIDE DEF x, s, t
<1>5. ~ Before(x, x)
  BY <1>1, MsgParts DEF Before
<1>6. InOrder(t)
  <2>1. \A i \in 1 .. Len(s) : Before(x, s[i]) => In(x, s)
    BY <1>1, <1>4
  <2> QED
    <3>1. Len(s) \in Nat /\ Len(t) = Len(s) + 1 /\ InOrder(s)
      BY <1>1, <1>4
    <3>2. \A i \in 1 .. Len(t) : t[i] = IF i = Len(s) + 1 THEN x ELSE s[i]
      BY <1>1
    <3> QED
      BY <1>5, <2>1, <3>1, <3>2, InOrderAppend
<1>7. \A i \in 1 .. Len(t), j \in 1 .. Len(queue'[g]) : Before(queue'[g][j], t[i]) => In(queue'[g][j], t)
  <2> SUFFICES ASSUME NEW i \in 1 .. Len(t), NEW j \in 1 .. Len(queue'[g]), Before(queue'[g][j], t[i])
               PROVE  In(queue'[g][j], t)
    OBVIOUS
  <2>1. queue'[g][j] = queue[g][j + 1] /\ j + 1 \in 1 .. Len(queue[g]) /\ 1 < j + 1
    BY <1>1
  <2>2. CASE t[i] = x
    <3>1. ~ Before(queue[g][j + 1], queue[g][1])
      BY <1>1, <2>1 DEF ToCome
    <3> QED
      BY <1>1, <2>1, <2>2, <3>1
  <2>3. CASE i \in 1 .. Len(s) /\ t[i] = s[i]
    BY <1>1, <1>4, <2>1, <2>3
  <2>4. t[i] = x \/ (i \in 1 .. Len(s) /\ t[i] = s[i])
    BY <1>1
  <2> QED
    BY <2>2, <2>3, <2>4
<1>8. \A c \in Clients : cpc[c] = "render" => \A i \in 1 .. Len(inbox[c]) : Fresh(c, i) => In(inbox[c][i][1], t)
  BY <1>1, <1>4
<1>9. t = applied'[g]
  BY DEF t
<1> QED
  BY <1>2, <1>3, <1>6, <1>7, <1>8, <1>9 DEF ModelInOrder, Fresh

LEMMA ModelInOrderSend ==
  ASSUME Shape, OneLoad, ModelInOrder, NEW g \in Models, Send(g)
  PROVE  ModelInOrder'
<1>1. UNCHANGED <<queue, applied, built, cpc, lastSeq>>
  BY DEF Send
<1>2. g = built /\ built # 0 /\ In(work[g][1], applied[g])
  BY Sent, OnlyLast DEF Shape, ModelsRight
<1>3. ASSUME NEW c \in Clients, cpc[c] = "render", NEW i \in 1 .. Len(inbox'[c]), Fresh(c, i)'
      PROVE  In(inbox'[c][i][1], applied[built])
  <2>1. \/ i \in 1 .. Len(inbox[c]) /\ inbox'[c][i] = inbox[c][i]
        \/ inbox'[c][i] = work[g]
    <3>1. \/ inbox'[c] = inbox[c]
          \/ /\ inbox'[c][Len(inbox[c]) + 1] = work[g]
             /\ \A j \in 1 .. Len(inbox[c]) : inbox'[c][j] = inbox[c][j]
             /\ \A j \in 1 .. Len(inbox'[c]) : j = Len(inbox[c]) + 1 \/ j \in 1 .. Len(inbox[c])
      BY Sent DEF Shape
    <3> QED
      BY <1>3, <3>1
  <2>2. CASE inbox'[c][i] = work[g]
    BY <1>2, <2>2
  <2>3. CASE i \in 1 .. Len(inbox[c]) /\ inbox'[c][i] = inbox[c][i]
    BY <1>1, <1>2, <1>3, <2>3 DEF ModelInOrder, Fresh
  <2> QED
    BY <2>1, <2>2, <2>3
<1> QED
  BY <1>1, <1>2, <1>3 DEF ModelInOrder, In, InOrder

LEMMA ModelInOrderBuild ==
  ASSUME Shape, OneLoad, NEW c \in Clients, Build(c)
  PROVE  ModelInOrder'
<1>1. /\ built' = built + 1 /\ built + 1 \in Models /\ built \in Nat
      /\ UNCHANGED queue /\ applied'[built + 1] = snap[c]
      /\ cpc[c] = "build" /\ cpc'[c] = "number" /\ \A d \in Clients : d # c => cpc'[d] = cpc[d]
  <2>1. built + 1 \in Models /\ built \in Nat
    BY BuildTypes, CountOfModels DEF Shape
  <2> QED
    BY <2>1 DEF Build, BuildFrom, Goto, Shape, TypeOK
<1>2. queue[built + 1] = <<>>
  <2>1. built + 1 > built
    BY <1>1
  <2> QED
    BY <1>1, <2>1 DEF Shape, ModelsRight
<1>3. Len(queue'[built']) = 0
  BY <1>1, <1>2
<1>4. \A d \in Clients : cpc'[d] # "render"
  BY <1>1, OneLoadBuild
<1>5. InOrder(snap[c])
  <2>1. Len(snap[c]) \in Nat /\ Len(log) \in Nat
    BY LenProperties DEF Shape, TypeOK
  <2>2. Len(snap[c]) <= Len(log) /\ \A i \in 1 .. Len(snap[c]) : snap[c][i] = log[i]
    BY <1>1 DEF Shape, LoadsRight
  <2>3. \A i \in 1 .. Len(snap[c]) : i \in 1 .. Len(log)
    BY <2>1, <2>2
  <2>4. \A i, j \in 1 .. Len(snap[c]) : Before(snap[c][i], snap[c][j]) => i < j
    BY <2>2, <2>3 DEF Shape, LogRight
  <2>5. \A i, j \in 1 .. Len(snap[c]) : i < j => i \in 1 .. j
    BY <2>1
  <2> QED
    BY <2>4, <2>5 DEF InOrder
<1> QED
  BY <1>1, <1>3, <1>4, <1>5 DEF ModelInOrder, InOrder, In

LEMMA ModelInOrderReadNumber ==
  ASSUME Shape, ModelInOrder, NEW c \in Clients, ReadNumber(c)
  PROVE  ModelInOrder'
<1>1. /\ UNCHANGED <<queue, applied, built, inbox>> /\ lastSeq'[c] = seq
      /\ \A d \in Clients : d # c => cpc'[d] = cpc[d] /\ lastSeq'[d] = lastSeq[d]
  BY DEF ReadNumber, Goto, modelVars, Shape, TypeOK
<1>2. \A i \in 1 .. Len(inbox[c]) : ~ (inbox[c][i][2] > seq)
  <2> SUFFICES ASSUME NEW i \in 1 .. Len(inbox[c])
               PROVE  ~ (inbox[c][i][2] > seq)
    OBVIOUS
  <2>1. inbox[c][i] \in Msgs \X Nat /\ seq \in Nat /\ inbox[c][i][2] <= seq
    BY ElementOfSeq DEF Shape, TypeOK, Logged
  <2>2. inbox[c][i][2] \in Nat
    BY <2>1
  <2> QED
    BY <2>1, <2>2
<1>3. ASSUME NEW d \in Clients, cpc'[d] = "render", NEW i \in 1 .. Len(inbox[d]), Fresh(d, i)', built # 0
      PROVE  In(inbox[d][i][1], applied[built])
  <2>1. d # c
    BY <1>1, <1>2, <1>3 DEF Fresh
  <2> QED
    BY <1>1, <1>3, <2>1 DEF ModelInOrder, Fresh
<1> QED
  BY <1>1, <1>3 DEF ModelInOrder, In, InOrder

LEMMA ModelInOrderForward ==
  ASSUME Shape, ModelInOrder, NEW c \in Clients, Forward(c)
  PROVE  ModelInOrder'
<1>1. UNCHANGED <<queue, applied, built, cpc, lastSeq>>
  BY DEF Forward, modelVars
<1>2. cpc[c] = "loop" /\ \A d \in Clients \ {c} : inbox'[d] = inbox[d]
  BY Forwarded DEF Shape
<1> QED
  BY <1>1, <1>2 DEF ModelInOrder, In, InOrder, Fresh

-----------------------------------------------------------------------------
(* What pages show is in order.                                            *)

LEMMA PagesStay ==
  ASSUME PagesInOrder, UNCHANGED <<queue, work, built, inbox, lastSeq, page>>,
         \A c \in Clients : cpc'[c] = "loop" => cpc[c] = "loop"
  PROVE  PagesInOrder'
BY DEF PagesInOrder, In, InOrder, Fresh

LEMMA PagesEnqueue ==
  ASSUME Shape, PagesInOrder, NEW b \in Producers, Enqueue(b)
  PROVE  PagesInOrder'
<1> DEFINE g == bmodel[b]
           x == Current(b)
<1>1. /\ UNCHANGED <<work, inbox, built, cpc, lastSeq, page>>
      /\ g \in Models /\ Len(queue[g]) \in Nat
      /\ \A h \in Models \ {g} : queue'[h] = queue[h]
      /\ \/ /\ Len(queue'[g]) = Len(queue[g]) + 1
            /\ \A i \in 1 .. Len(queue'[g]) : queue'[g][i] = IF i = Len(queue[g]) + 1 THEN x ELSE queue[g][i]
         \/ queue'[g] = queue[g]
  BY Enqueued
<1>2. \A y \in Msgs : In(y, log) => ~ Before(x, y)
  BY LastMessage
<1> HIDE DEF x, g
<1>3. ASSUME NEW c \in Clients, cpc[c] = "loop", NEW i \in 1 .. Len(page[c]), NEW j \in 1 .. Len(queue'[built]),
             Before(queue'[built][j], page[c][i])
      PROVE  In(queue'[built][j], page[c])
  <2>1. built \in Models
    BY <1>3 DEF Shape, TypeOK, LoadsRight
  <2>2. \/ j \in 1 .. Len(queue[built]) /\ queue'[built][j] = queue[built][j]
        \/ queue'[built][j] = x
    <3>1. CASE built = g
      BY <1>1, <1>3, <3>1
    <3>2. CASE built # g
      BY <1>1, <1>3, <2>1, <3>2
    <3> QED
      BY <3>1, <3>2
  <2>3. ~ Before(x, page[c][i])
    BY <1>2, <1>3, WhatIsHeld
  <2> QED
    BY <1>3, <2>2, <2>3 DEF PagesInOrder
<1> QED
  BY <1>1, <1>3 DEF PagesInOrder, In, InOrder, Fresh

LEMMA PagesApply ==
  ASSUME Shape, OneLoad, PagesInOrder, NEW g \in Models, Apply(g)
  PROVE  PagesInOrder'
<1>1. /\ Head(queue[g]) = queue[g][1] /\ 1 \in 1 .. Len(queue[g])
      /\ \A i \in 1 .. Len(queue'[g]) : queue'[g][i] = queue[g][i + 1] /\ i + 1 \in 1 .. Len(queue[g])
      /\ work'[g][1] = Head(queue[g])
  BY Taken DEF Shape
<1>2. UNCHANGED <<inbox, built, cpc, lastSeq, page>>
  BY DEF Apply, client
<1>3. g = built
  BY OnlyLast DEF Apply
<1>4. ASSUME NEW c \in Clients, cpc[c] = "loop", NEW i \in 1 .. Len(page[c])
      PROVE  /\ Before(work'[built][1], page[c][i]) => In(work'[built][1], page[c])
             /\ \A j \in 1 .. Len(queue'[built]) :
                  Before(queue'[built][j], page[c][i]) => In(queue'[built][j], page[c])
  <2>1. \A j \in 1 .. Len(queue[g]) : Before(queue[g][j], page[c][i]) => In(queue[g][j], page[c])
    BY <1>3, <1>4 DEF PagesInOrder
  <2> QED
    BY <1>1, <1>3, <2>1
<1> QED
  BY <1>2, <1>4 DEF PagesInOrder, In, InOrder, Fresh

LEMMA PagesNumber ==
  ASSUME Shape, PagesInOrder, NEW g \in Models, Number(g)
  PROVE  PagesInOrder'
<1>1. \A h \in Models : work'[h] # <<>> => work[h] # <<>> /\ work'[h][1] = work[h][1]
  BY Numbered DEF Shape
<1>2. UNCHANGED <<queue, built, inbox, lastSeq, page, cpc>>
  BY DEF Number, client
<1>3. \A c \in Clients : cpc[c] = "loop" => built \in Models
  BY DEF Shape, TypeOK, LoadsRight
<1>4. ASSUME NEW c \in Clients, cpc[c] = "loop", NEW i \in 1 .. Len(page[c]),
             work'[built] # <<>>, Before(work'[built][1], page[c][i])
      PROVE  In(work'[built][1], page[c])
  <2>1. work[built] # <<>> /\ work'[built][1] = work[built][1]
    BY <1>1, <1>3, <1>4
  <2> QED
    BY <1>4, <2>1 DEF PagesInOrder
<1>5. /\ \A c \in Clients, i \in Nat : Fresh(c, i)' <=> Fresh(c, i)
      /\ \A c \in Clients : InOrder(page[c])' <=> InOrder(page[c])
  BY <1>2 DEF Fresh, InOrder
<1>6. \A c \in Clients : \A x : In(x, page[c])' <=> In(x, page[c])
  BY <1>2 DEF In
<1> QED
  BY <1>2, <1>4, <1>5, <1>6 DEF PagesInOrder

LEMMA PagesSend ==
  ASSUME Shape, OneLoad, PagesInOrder, NEW g \in Models, Send(g)
  PROVE  PagesInOrder'
<1>1. UNCHANGED <<queue, built, cpc, lastSeq, page>>
  BY DEF Send
<1>2. g = built /\ work[g] # <<>> /\ work'[g] = <<>>
  BY Sent, OnlyLast DEF Shape
<1>3. ASSUME NEW c \in Clients, cpc[c] = "loop", NEW i \in 1 .. Len(page[c]), NEW j \in 1 .. Len(inbox'[c]),
             Fresh(c, j)', Before(inbox'[c][j][1], page[c][i])
      PROVE  In(inbox'[c][j][1], page[c])
  <2>1. \/ j \in 1 .. Len(inbox[c]) /\ inbox'[c][j] = inbox[c][j]
        \/ inbox'[c][j] = work[g]
    <3>1. \/ inbox'[c] = inbox[c]
          \/ /\ inbox'[c][Len(inbox[c]) + 1] = work[g]
             /\ \A k \in 1 .. Len(inbox[c]) : inbox'[c][k] = inbox[c][k]
             /\ \A k \in 1 .. Len(inbox'[c]) : k = Len(inbox[c]) + 1 \/ k \in 1 .. Len(inbox[c])
      BY Sent DEF Shape
    <3> QED
      BY <1>3, <3>1
  <2>2. CASE inbox'[c][j] = work[g]
    BY <1>2, <1>3, <2>2 DEF PagesInOrder
  <2>3. CASE j \in 1 .. Len(inbox[c]) /\ inbox'[c][j] = inbox[c][j]
    BY <1>1, <1>3, <2>3 DEF PagesInOrder, Fresh
  <2> QED
    BY <2>1, <2>2, <2>3
<1> QED
  BY <1>1, <1>2, <1>3 DEF PagesInOrder, In, InOrder

LEMMA PagesBuild ==
  ASSUME Shape, PagesInOrder, NEW c \in Clients, Build(c)
  PROVE  PagesInOrder'
<1>1. UNCHANGED <<queue, work, inbox, lastSeq, page>> /\ built' = built + 1
  BY DEF Build, BuildFrom
<1>2. \A d \in Clients : cpc'[d] = "loop" => cpc[d] = "loop"
  BY DEF Build, BuildFrom, Goto, Shape, TypeOK
<1>3. queue[built'] = <<>> /\ work[built'] = <<>>
  <2>1. built + 1 \in Models /\ built + 1 > built
    BY BuildTypes, CountOfModels DEF Shape
  <2> QED
    BY <1>1, <2>1 DEF Shape, ModelsRight
<1>4. Len(queue[built']) = 0
  BY <1>3
<1>5. work'[built'] = <<>> /\ Len(queue'[built']) = 0
  BY <1>1, <1>3, <1>4
<1>6. ASSUME NEW d \in Clients, cpc'[d] = "loop"
      PROVE  /\ InOrder(page[d])
             /\ \A i \in 1 .. Len(page[d]) : \A j \in 1 .. Len(inbox[d]) :
                  Fresh(d, j) /\ Before(inbox[d][j][1], page[d][i]) => In(inbox[d][j][1], page[d])
  BY <1>2, <1>6 DEF PagesInOrder
<1>7. \A d \in Clients : \A j : Fresh(d, j)' <=> Fresh(d, j)
  BY <1>1 DEF Fresh
<1> QED
  BY <1>1, <1>5, <1>6, <1>7 DEF PagesInOrder, In, InOrder

LEMMA PagesRender ==
  ASSUME Shape, ModelInOrder, PagesInOrder, NEW c \in Clients, Render(c)
  PROVE  PagesInOrder'
<1>1. /\ UNCHANGED <<queue, work, built, inbox, lastSeq, applied>>
      /\ cpc[c] = "render" /\ page'[c] = applied[model]
      /\ \A d \in Clients : d # c => cpc'[d] = cpc[d] /\ page'[d] = page[d]
  BY DEF Render, Goto, modelVars, Shape, TypeOK
<1>2. model = built /\ built # 0 /\ built \in Models
  BY <1>1 DEF Shape, LoadsRight, ModelsRight, TypeOK
<1>3. /\ InOrder(applied[built])
      /\ \A i \in 1 .. Len(applied[built]), j \in 1 .. Len(queue[built]) :
           Before(queue[built][j], applied[built][i]) => In(queue[built][j], applied[built])
      /\ \A i \in 1 .. Len(inbox[c]) : Fresh(c, i) => In(inbox[c][i][1], applied[built])
  BY <1>1, <1>2 DEF ModelInOrder
<1>4. work[built] # <<>> => In(work[built][1], applied[built])
  BY <1>2 DEF Shape, ModelsRight
<1>5. ASSUME NEW d \in Clients, cpc'[d] = "loop"
      PROVE  /\ InOrder(page'[d])
             /\ \A i \in 1 .. Len(page'[d]) :
                  /\ \A j \in 1 .. Len(inbox[d]) :
                       Fresh(d, j) /\ Before(inbox[d][j][1], page'[d][i]) => In(inbox[d][j][1], page'[d])
                  /\ work[built] # <<>> /\ Before(work[built][1], page'[d][i]) => In(work[built][1], page'[d])
                  /\ \A j \in 1 .. Len(queue[built]) :
                       Before(queue[built][j], page'[d][i]) => In(queue[built][j], page'[d])
  <2>1. CASE d = c
    <3>1. page'[d] = applied[built]
      BY <1>1, <1>2, <2>1
    <3> QED
      BY <1>3, <1>4, <2>1, <3>1
  <2>2. CASE d # c
    BY <1>1, <1>5, <2>2 DEF PagesInOrder
  <2> QED
    BY <2>1, <2>2
<1> QED
  BY <1>1, <1>5 DEF PagesInOrder, Fresh

LEMMA PagesForward ==
  ASSUME Shape, ToCome, PagesInOrder, NEW c \in Clients, Forward(c)
  PROVE  PagesInOrder'
<1> DEFINE e == inbox[c][1]
           s == page[c]
           t == page'[c]
<1>1. UNCHANGED <<queue, work, built, cpc, lastSeq>>
  BY DEF Forward, modelVars
<1>2. /\ cpc[c] = "loop" /\ e[1] \in Msgs /\ e[2] \in Nat /\ 1 \in 1 .. Len(inbox[c])
      /\ \A i \in 1 .. Len(inbox'[c]) : inbox'[c][i] = inbox[c][i + 1] /\ i + 1 \in 1 .. Len(inbox[c])
      /\ \A d \in Clients \ {c} : inbox'[d] = inbox[d] /\ page'[d] = page[d]
      /\ e[2] <= lastSeq[c] => t = s
  BY Forwarded DEF Shape
<1>3. e[2] > lastSeq[c] =>
        /\ Len(s) \in Nat /\ Len(t) = Len(s) + 1
        /\ \A x : In(x, t) <=> In(x, s) \/ x = e[1]
        /\ \A i \in 1 .. Len(t) : t[i] = IF i = Len(s) + 1 THEN e[1] ELSE s[i]
  BY Forwarded DEF Shape
<1>4. built # 0
  BY <1>2 DEF Shape, LoadsRight
<1>5. /\ InOrder(s)
      /\ \A i \in 1 .. Len(s) :
           /\ \A j \in 1 .. Len(inbox[c]) :
                Fresh(c, j) /\ Before(inbox[c][j][1], s[i]) => In(inbox[c][j][1], s)
           /\ work[built] # <<>> /\ Before(work[built][1], s[i]) => In(work[built][1], s)
           /\ \A j \in 1 .. Len(queue[built]) : Before(queue[built][j], s[i]) => In(queue[built][j], s)
  BY <1>2 DEF PagesInOrder
<1>6. /\ work[built] # <<>> => ~ Before(work[built][1], e[1])
      /\ \A j \in 1 .. Len(queue[built]) : ~ Before(queue[built][j], e[1])
      /\ \A j \in 1 .. Len(inbox[c]) : 1 < j => ~ Before(inbox[c][j][1], e[1])
  BY <1>2, <1>4 DEF ToCome
<1>7. \A j \in 1 .. Len(inbox'[c]) :
        /\ ~ Before(inbox'[c][j][1], e[1])
        /\ Fresh(c, j)' => \A i \in 1 .. Len(s) : Before(inbox'[c][j][1], s[i]) => In(inbox'[c][j][1], s)
  <2> SUFFICES ASSUME NEW j \in 1 .. Len(inbox'[c])
               PROVE  /\ ~ Before(inbox'[c][j][1], e[1])
                      /\ Fresh(c, j)' => \A i \in 1 .. Len(s) :
                                           Before(inbox'[c][j][1], s[i]) => In(inbox'[c][j][1], s)
    OBVIOUS
  <2>1. inbox'[c][j] = inbox[c][j + 1] /\ j + 1 \in 1 .. Len(inbox[c]) /\ 1 < j + 1
    BY <1>2
  <2>2. Fresh(c, j)' <=> Fresh(c, j + 1)
    BY <1>1, <2>1 DEF Fresh
  <2> QED
    BY <1>5, <1>6, <2>1, <2>2
<1>8. (Fresh(c, 1) <=> e[2] > lastSeq[c]) /\ (e[2] > lastSeq[c] \/ e[2] <= lastSeq[c]) /\ e = inbox[c][1]
  <2>1. lastSeq[c] \in Nat
    BY DEF Shape, TypeOK
  <2> QED
    BY <1>2, <2>1 DEF Fresh
<1>9. s = page[c] /\ t = page'[c] /\ ~ Before(e[1], e[1])
  BY <1>2, MsgParts DEF Before
<1> HIDE DEF e, s, t
<1>10. /\ InOrder(t)
       /\ \A i \in 1 .. Len(t) :
            /\ \A j \in 1 .. Len(inbox'[c]) :
                 Fresh(c, j)' /\ Before(inbox'[c][j][1], t[i]) => In(inbox'[c][j][1], t)
            /\ work[built] # <<>> /\ Before(work[built][1], t[i]) => In(work[built][1], t)
            /\ \A j \in 1 .. Len(queue[built]) : Before(queue[built][j], t[i]) => In(queue[built][j], t)
  <2>1. CASE e[2] <= lastSeq[c]
    BY <1>2, <1>5, <1>7, <2>1
  <2>2. CASE e[2] > lastSeq[c]
    <3>1. \A i \in 1 .. Len(s) : Before(e[1], s[i]) => In(e[1], s)
      BY <1>2, <1>5, <1>8, <2>2
    <3>2. InOrder(t)
      BY <1>3, <1>5, <1>9, <2>2, <3>1, InOrderAppend
    <3>3. \A i \in 1 .. Len(t) : t[i] = e[1] \/ (i \in 1 .. Len(s) /\ t[i] = s[i])
      BY <1>3, <2>2
    <3>4. \A x : In(x, s) => In(x, t)
      BY <1>3, <2>2
    <3> QED
      BY <1>5, <1>6, <1>7, <3>2, <3>3, <3>4
  <2> QED
    BY <1>8, <2>1, <2>2
<1>11. ASSUME NEW d \in Clients, cpc'[d] = "loop"
       PROVE  /\ InOrder(page'[d])
              /\ \A i \in 1 .. Len(page'[d]) :
                   /\ \A j \in 1 .. Len(inbox'[d]) :
                        Fresh(d, j)' /\ Before(inbox'[d][j][1], page'[d][i]) => In(inbox'[d][j][1], page'[d])
                   /\ work[built] # <<>> /\ Before(work[built][1], page'[d][i]) => In(work[built][1], page'[d])
                   /\ \A j \in 1 .. Len(queue[built]) :
                        Before(queue[built][j], page'[d][i]) => In(queue[built][j], page'[d])
  <2>1. CASE d = c
    BY <1>9, <1>10, <2>1
  <2>2. CASE d # c
    BY <1>1, <1>2, <1>11, <2>2 DEF PagesInOrder, Fresh
  <2> QED
    BY <2>1, <2>2
<1> QED
  BY <1>1, <1>11 DEF PagesInOrder

LEMMA OrderedInit == Init => Ordered
<1> SUFFICES ASSUME Init
             PROVE  OneLoad /\ ToCome /\ ModelInOrder /\ PagesInOrder
  BY DEF Ordered
<1>1. built = 0 /\ \A c \in Clients : cpc[c] = "idle" /\ Len(inbox[c]) = 0
  BY EmptyHas DEF Init
<1>2. \A g \in Models : Len(queue[g]) = 0 /\ ~ (g < built)
  BY EmptyHas, ConstantsAssumption DEF Init, Models
<1>3. OneLoad
  BY <1>1, <1>2 DEF OneLoad, Loading
<1>4. ToCome
  BY <1>1, <1>2 DEF ToCome
<1>5. ModelInOrder /\ PagesInOrder
  BY <1>1 DEF ModelInOrder, PagesInOrder
<1> QED
  BY <1>3, <1>4, <1>5

LEMMA OrderedStep ==
  ASSUME Shape, Ordered, [Next]_vars
  PROVE  Ordered'
<1> SUFFICES ASSUME ~ overlap'
             PROVE  OneLoad' /\ ToCome' /\ ModelInOrder' /\ PagesInOrder'
  BY DEF Ordered
<1>1. OneLoad /\ ToCome /\ ModelInOrder /\ PagesInOrder
  BY OverlapStays DEF Ordered, Shape
<1>2. ASSUME NEW b \in Producers, AppendToLog(b) \/ ReadModel(b)
      PROVE  OneLoad' /\ ToCome' /\ ModelInOrder' /\ PagesInOrder'
  <2>1. UNCHANGED <<cpc, closing, model, built, run, queue, work, inbox, applied, lastSeq, page>>
    BY <1>2 DEF AppendToLog, ReadModel, modelVars, client
  <2> QED
    BY <1>1, <2>1, OneLoadStays, ToComeStays, ModelInOrderStays, PagesStay
<1>3. ASSUME NEW b \in Producers, Enqueue(b)
      PROVE  OneLoad' /\ ToCome' /\ ModelInOrder' /\ PagesInOrder'
  <2>1. UNCHANGED <<cpc, closing, model, built, run>>
    BY <1>3 DEF Enqueue, client
  <2> QED
    BY <1>1, <1>3, <2>1, OneLoadStays, ToComeEnqueue, ModelInOrderEnqueue, PagesEnqueue
<1>4. ASSUME NEW g \in Models, Apply(g) \/ Number(g) \/ Send(g)
      PROVE  OneLoad' /\ ToCome' /\ ModelInOrder' /\ PagesInOrder'
  <2>1. UNCHANGED <<cpc, closing, model, built, run>>
    BY <1>4 DEF Apply, Number, Send, client
  <2>2. OneLoad'
    BY <1>1, <2>1, OneLoadStays
  <2>3. CASE Apply(g)
    BY <1>1, <2>2, <2>3, ToComeApply, ModelInOrderApply, PagesApply
  <2>4. CASE Number(g)
    <3>1. UNCHANGED <<queue, applied, built, inbox, lastSeq, cpc>>
      BY <2>4 DEF Number, client
    <3> QED
      BY <1>1, <2>2, <2>4, <3>1, ToComeNumber, ModelInOrderStays, PagesNumber
  <2>5. CASE Send(g)
    BY <1>1, <2>2, <2>5, ToComeSend, ModelInOrderSend, PagesSend
  <2> QED
    BY <1>4, <2>3, <2>4, <2>5
<1>5. ASSUME NEW g \in Models, Stop(g)
      PROVE  OneLoad' /\ ToCome' /\ ModelInOrder' /\ PagesInOrder'
  <2>1. UNCHANGED <<cpc, built, queue, work, inbox, applied, lastSeq, page>>
    BY <1>5 DEF Stop, client
  <2> QED
    BY <1>1, <1>5, <2>1, OneLoadStop, ToComeStays, ModelInOrderStays, PagesStay
<1>6. ASSUME NEW c \in Clients, Connect(c) \/ ReadLog(c) \/ CloseModel(c) \/ Closed(c)
      PROVE  OneLoad' /\ ToCome' /\ ModelInOrder' /\ PagesInOrder'
  <2>1. UNCHANGED <<built, queue, work, inbox, applied, lastSeq, page>>
    BY <1>6 DEF Connect, ReadLog, CloseModel, CloseModelGoing, Closed, modelVars
  <2>2. \A d \in Clients : (cpc'[d] = "render" => cpc[d] = "render") /\ (cpc'[d] = "loop" => cpc[d] = "loop")
    BY <1>6 DEF Connect, ReadLog, CloseModel, CloseModelGoing, Closed, Goto, Shape, TypeOK
  <2> QED
    BY <1>1, <1>6, <2>1, <2>2, OneLoadLoad, ToComeStays, ModelInOrderStays, PagesStay
<1>7. ASSUME NEW c \in Clients, Build(c)
      PROVE  OneLoad' /\ ToCome' /\ ModelInOrder' /\ PagesInOrder'
  BY <1>1, <1>7, OneLoadBuild, ToComeBuild, ModelInOrderBuild, PagesBuild
<1>8. ASSUME NEW c \in Clients, ReadNumber(c)
      PROVE  OneLoad' /\ ToCome' /\ ModelInOrder' /\ PagesInOrder'
  <2>1. UNCHANGED <<built, queue, work, inbox, page>>
    BY <1>8 DEF ReadNumber, modelVars
  <2>2. PagesInOrder'
    <3>1. \A d \in Clients : cpc'[d] = "loop" => d # c /\ cpc[d] = "loop" /\ lastSeq'[d] = lastSeq[d]
      BY <1>8 DEF ReadNumber, Goto, Shape, TypeOK
    <3>2. \A d \in Clients : cpc'[d] = "loop" => \A j : Fresh(d, j)' <=> Fresh(d, j)
      BY <2>1, <3>1 DEF Fresh
    <3> QED
      BY <1>1, <2>1, <3>1, <3>2 DEF PagesInOrder, In, InOrder
  <2> QED
    BY <1>1, <1>8, <2>1, <2>2, OneLoadLoad, ToComeStays, ModelInOrderReadNumber
<1>9. ASSUME NEW c \in Clients, Render(c)
      PROVE  OneLoad' /\ ToCome' /\ ModelInOrder' /\ PagesInOrder'
  <2>1. UNCHANGED <<built, queue, work, inbox, applied, lastSeq>>
    BY <1>9 DEF Render, modelVars
  <2>2. \A d \in Clients : cpc'[d] = "render" => cpc[d] = "render"
    BY <1>9 DEF Render, Goto, Shape, TypeOK
  <2> QED
    BY <1>1, <1>9, <2>1, <2>2, OneLoadLoad, ToComeStays, ModelInOrderStays, PagesRender
<1>10. ASSUME NEW c \in Clients, Forward(c)
       PROVE  OneLoad' /\ ToCome' /\ ModelInOrder' /\ PagesInOrder'
  BY <1>1, <1>10, OneLoadLoad, ToComeForward, ModelInOrderForward, PagesForward
<1>11. CASE UNCHANGED vars
  <2>1. UNCHANGED <<cpc, closing, model, built, run, queue, work, inbox, applied, lastSeq, page>>
    BY <1>11 DEF vars, modelVars, client
  <2> QED
    BY <1>1, <2>1, OneLoadStays, ToComeStays, ModelInOrderStays, PagesStay
<1> QED
  BY <1>2, <1>3, <1>4, <1>5, <1>6, <1>7, <1>8, <1>9, <1>10, <1>11 DEF Next, ModelStep, LoadStep

-----------------------------------------------------------------------------

LEMMA LastGoesStep ==
  ASSUME Shape, LastGoes, [Next]_vars
  PROVE  LastGoes'
<1>1. ASSUME UNCHANGED <<built, run>>, \A c \in Clients : cpc[c] \in {"wait", "build"} => cpc'[c] \in {"wait", "build"}
      PROVE  LastGoes'
  BY <1>1 DEF LastGoes
<1>2. ASSUME NEW b \in Producers, AppendToLog(b) \/ ReadModel(b) \/ Enqueue(b)
      PROVE  LastGoes'
  BY <1>1, <1>2 DEF AppendToLog, ReadModel, Enqueue, modelVars, client
<1>3. ASSUME NEW g \in Models, Apply(g) \/ Number(g) \/ Send(g)
      PROVE  LastGoes'
  BY <1>1, <1>3 DEF Apply, Number, Send, client
<1>4. ASSUME NEW g \in Models, Stop(g)
      PROVE  LastGoes'
  <2>1. UNCHANGED <<built, cpc>> /\ run[g] = "stopping" /\ run' = [run EXCEPT ![g] = "stopped"]
    BY <1>4 DEF Stop, client
  <2>2. built # 0 /\ run'[built] # "running" => run[built] # "running"
    BY <2>1 DEF Shape, TypeOK
  <2> QED
    BY <2>1, <2>2 DEF LastGoes
<1>5. ASSUME NEW c \in Clients, Connect(c) \/ ReadLog(c) \/ Closed(c) \/ ReadNumber(c) \/ Render(c) \/ Forward(c)
      PROVE  LastGoes'
  <2>1. UNCHANGED <<built, run>>
    BY <1>5 DEF Connect, ReadLog, Closed, ReadNumber, Render, Forward, modelVars
  <2>2. \A d \in Clients : cpc[d] \in {"wait", "build"} => cpc'[d] \in {"wait", "build"}
    BY <1>5 DEF Connect, ReadLog, Closed, ReadNumber, Render, Forward, Goto, Shape, TypeOK
  <2> QED
    BY <1>1, <2>1, <2>2
<1>6. ASSUME NEW c \in Clients, CloseModel(c)
      PROVE  LastGoes'
  <2>1. built' = built /\ \A d \in Clients : cpc[d] \in {"wait", "build"} => cpc'[d] \in {"wait", "build"}
    BY <1>6 DEF CloseModel, CloseModelGoing, Shape, TypeOK
  <2>2. run' = run \/ cpc'[c] = "wait"
    BY <1>6 DEF CloseModel, CloseModelGoing, Shape, TypeOK
  <2> QED
    BY <2>1, <2>2 DEF LastGoes
<1>7. ASSUME NEW c \in Clients, Build(c)
      PROVE  LastGoes'
  <2>1. built + 1 \in Models
    BY <1>7, BuildTypes DEF Shape
  <2>2. run'[built'] = "running"
    BY <1>7, <2>1 DEF Build, BuildFrom, Shape, TypeOK
  <2> QED
    BY <2>2 DEF LastGoes
<1>8. CASE UNCHANGED vars
  BY <1>1, <1>8 DEF vars, modelVars, client
<1> QED
  BY <1>2, <1>3, <1>4, <1>5, <1>6, <1>7, <1>8 DEF Next, ModelStep, LoadStep

\* The inductive invariant holds.
THEOREM PageInvariant == Spec => []PageInv
<1>1. Init => PageInv
  BY ShapeInit, UnexposedInit, OrderedInit DEF PageInv, LastGoes, Init
<1>2. PageInv /\ [Next]_vars => PageInv'
  BY ShapeStep, LastGoesStep, UnexposedStep, OrderedStep DEF PageInv
<1> QED
  BY <1>1, <1>2, PTL DEF Spec

\* Sets of positions.
LEMMA Positions ==
  ASSUME NEW s \in Seq(Msgs), NEW m
  PROVE  /\ DOMAIN s = 1 .. Len(s) /\ (m \in ToSet(s) <=> In(m, s))
         /\ IsFiniteSet({i \in DOMAIN s : s[i] = m})
         /\ Times(m, s) \in Nat
         /\ (\A i, j \in 1 .. Len(s) : s[i] = m /\ s[j] = m => i = j) => Times(m, s) <= 1
         /\ In(m, s) => Times(m, s) >= 1
<1> DEFINE P == {i \in DOMAIN s : s[i] = m}
<1>1. DOMAIN s = 1 .. Len(s) /\ Len(s) \in Nat
  BY LenProperties
<1>2. m \in ToSet(s) <=> In(m, s)
  BY <1>1 DEF ToSet, In
<1>3. IsFiniteSet(P)
  <2>1. IsFiniteSet(1 .. Len(s)) /\ P \subseteq 1 .. Len(s)
    BY <1>1, FS_Interval
  <2> QED
    BY <2>1, FS_Subset
<1>4. Cardinality(P) \in Nat
  BY <1>3, FS_CardinalityType
<1>5. ASSUME \A i, j \in 1 .. Len(s) : s[i] = m /\ s[j] = m => i = j
      PROVE  Cardinality(P) <= 1
  <2>1. CASE P = {}
    <3>1. Cardinality({}) = 0
      BY FS_EmptySet
    <3>2. Cardinality(P) = 0
      BY <2>1, <3>1, Zenon
    <3> QED
      BY <3>2
  <2>2. CASE P # {}
    <3>1. PICK i \in P : TRUE
      BY <2>2
    <3>2. P = {i}
      BY <1>1, <1>5, <3>1
    <3>3. Cardinality({i}) = 1
      BY FS_Singleton
    <3>4. Cardinality(P) = 1
      BY <3>2, <3>3, Zenon
    <3> QED
      BY <3>4
  <2> QED
    BY <2>1, <2>2
<1>6. ASSUME In(m, s)
      PROVE  Cardinality(P) >= 1
  <2>1. P # {}
    BY <1>1, <1>6 DEF In
  <2>2. Cardinality(P) # 0
    BY <1>3, <2>1, FS_EmptySet
  <2> QED
    BY <1>4, <2>2
<1> QED
  BY <1>1, <1>2, <1>3, <1>4, <1>5, <1>6 DEF Times

\* When everybody is idle, no message that a load has not met is on its way.
LEMMA NoneOnItsWay ==
  ASSUME PageInv, Settled, model # NoModel, NEW m \in Msgs \ exposed
  PROVE  ~ OnItsWay(m) /\ ~ ByProducer(m) /\ ~ In(m, queue[model])
<1>1. ~ ByProducer(m) /\ ~ InWork(m)
  BY MsgParts DEF Settled, ByProducer, InWork
<1>2. model \in Models /\ model = built
  BY DEF PageInv, Shape, TypeOK, ModelsRight
<1>3. ~ In(m, queue[model])
  <2>1. \A c \in Clients : cpc[c] \notin {"wait", "build"}
    BY DEF Settled, Loading
  <2>2. run[model] = "running"
    BY <1>2, <2>1 DEF PageInv, LastGoes, NoModel
  <2>3. queue[model] = <<>>
    BY <1>2, <2>2 DEF Settled
  <2> QED
    BY <2>3, EmptyHas
<1>4. \A g \in Models : ~ In(m, queue[g])
  BY <1>3 DEF PageInv, Unexposed, OnePlace
<1> QED
  BY <1>1, <1>3, <1>4 DEF OnItsWay

LEMMA PageInvShows == PageInv => PageShowsLog
<1> SUFFICES ASSUME PageInv
             PROVE  PageShowsLog
  OBVIOUS
<1>1. TypeOK /\ log \in Seq(Msgs) /\ \A c \in Clients : page[c] \in Seq(Msgs)
  BY DEF PageInv, Shape, TypeOK
<1>2. MissingOnlyIfExposed
  <2> SUFFICES ASSUME Settled, NEW c \in Clients, cpc[c] = "loop",
                      NEW m \in ToSet(log) \ (exposed \cup dropped)
               PROVE  m \in ToSet(page[c]) \/ <<c, m>> \in overrun
    BY DEF MissingOnlyIfExposed
  <2>1. In(m, log)
    BY <1>1, Positions
  <2>2. m \in Msgs \ exposed
    BY <2>1, LogHas DEF In, PageInv, Shape
  <2>3. model # NoModel
    BY DEF PageInv, Shape, LoadsRight, ModelsRight, NoModel
  <2>4. ~ OnItsWay(m)
    BY <2>2, <2>3, NoneOnItsWay
  <2>5. ~ InInbox(c, m)
    BY EmptyHas DEF Settled, InInbox
  <2>6. In(m, page[c]) \/ <<c, m>> \in overrun
    BY <2>1, <2>2, <2>4, <2>5 DEF PageInv, Unexposed, OnPage
  <2> QED
    BY <1>1, <2>6, Positions
<1>3. ShownTwiceOnlyIfExposed
  <2> SUFFICES ASSUME NEW c \in Clients, NEW m \in Msgs \ exposed
               PROVE  Times(m, page[c]) <= 1
    BY DEF ShownTwiceOnlyIfExposed
  <2>1. \A i, j \in 1 .. Len(page[c]) : page[c][i] = m /\ page[c][j] = m => i = j
    BY DEF PageInv, Unexposed, OnPage
  <2> QED
    BY <1>1, <2>1, Positions
<1>4. PageInOrder
  <2> SUFFICES ASSUME ~ overlap, NEW c \in Clients, NEW i \in DOMAIN page[c], NEW j \in DOMAIN page[c],
                      Before(page[c][i], page[c][j])
               PROVE  \E k \in 1 .. j : page[c][k] = page[c][i]
    BY DEF PageInOrder, Before
  <2>1. DOMAIN page[c] = 1 .. Len(page[c])
    BY <1>1, Positions
  <2>2. page[c] # <<>>
    BY <2>1, EmptyHas
  <2>3. InOrder(page[c])
    BY <2>2 DEF PageInv, Shape, LoadsRight, Ordered, PagesInOrder
  <2> QED
    BY <2>1, <2>3 DEF InOrder
<1> QED
  BY <1>1, <1>2, <1>3, <1>4 DEF PageShowsLog

LEMMA PageInvFolds == PageInv => ModelFoldsLog
<1> SUFFICES ASSUME PageInv, Settled, model # NoModel, NEW m \in ToSet(log) \ (exposed \cup dropped)
             PROVE  Times(m, applied[model]) = 1
  BY DEF ModelFoldsLog
<1>1. log \in Seq(Msgs) /\ applied[model] \in Seq(Msgs)
  BY DEF PageInv, Shape, TypeOK
<1>2. In(m, log)
  BY <1>1, Positions
<1>3. m \in Msgs \ exposed
  BY <1>2, LogHas DEF In, PageInv, Shape
<1>4. In(m, applied[model])
  BY <1>2, <1>3, NoneOnItsWay DEF PageInv, Unexposed, InModel
<1>5. \A i, j \in 1 .. Len(applied[model]) : applied[model][i] = m /\ applied[model][j] = m => i = j
  BY <1>3 DEF PageInv, Unexposed, InModel
<1>6. Times(m, applied[model]) \in Nat /\ Times(m, applied[model]) <= 1 /\ Times(m, applied[model]) >= 1
  BY <1>1, <1>4, <1>5, Positions
<1> QED
  BY <1>6

\* handleEvents and BroadcastToSession: when everybody is idle a page shows
\* every message of the log, at no time does it show one twice, and it shows
\* each producer's messages in order, with the exceptions PageShowsLog names.
THEOREM PageIsTheLog == Spec => []PageShowsLog
BY PageInvariant, PageInvShows, PTL

\* When everybody is idle, the model of the session has folded every message of
\* the log once, with the exceptions ModelFoldsLog names.
THEOREM ModelIsTheLog == Spec => []ModelFoldsLog
BY PageInvariant, PageInvFolds, PTL
=============================================================================
