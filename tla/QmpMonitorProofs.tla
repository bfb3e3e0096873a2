-------------------------- MODULE QmpMonitorProofs --------------------------
(***************************************************************************)
(* Proofs about QmpMonitor, for any callers, handlers and bounds.  Replies  *)
(* carry no tag; the invariant says that the replies on the wire, followed  *)
(* by the commands that QEMU has not read, are the queue of the callbacks,  *)
(* stated without counting: what is ahead of a command in the one is ahead  *)
(* of it in the other.                                                     *)
(***************************************************************************)
EXTENDS QmpMonitor, SequenceTheorems, TLAPS

Messages == [kind : {"reply", "event"},
             cmd : Commands \cup ({None} \X (1..MaxEvents))]

-----------------------------------------------------------------------------
(* Streams: q is a queue of callbacks, w a wire, b an inbox.               *)

Streams(q, w, b) == q \in Seq(Commands) /\ w \in Seq(Messages) /\ b \in Seq(Commands)

Queued(q, x) == \E i \in 1..Len(q) : q[i] = x
Answers(w, i, x) == w[i].kind = "reply" /\ w[i].cmd = x
Answered(w, x) == \E i \in 1..Len(w) : Answers(w, i, x)

\* Nothing is queued, answered or sent twice.
Apart(q, w, b) ==
  /\ \A i, j \in 1..Len(q) : q[i] = q[j] => i = j
  /\ \A i, j \in 1..Len(b) : b[i] = b[j] => i = j
  /\ \A i, j \in 1..Len(w) : Answers(w, i, w[j].cmd) /\ w[j].kind = "reply" => i = j
  /\ \A i \in 1..Len(w), j \in 1..Len(b) : ~Answers(w, i, b[j])

\* What is answered is queued, and what is queued ahead of it was answered ahead
\* of it.
WireOrder(q, w) ==
  \A i \in 1..Len(w) : w[i].kind = "reply" =>
    /\ Queued(q, w[i].cmd)
    /\ \A j, k \in 1..Len(q) : k < j /\ q[j] = w[i].cmd =>
         \E m \in 1..(i - 1) : Answers(w, m, q[k])

\* What is sent is queued, and what is queued ahead of it was answered, or sent
\* ahead of it.
InboxOrder(q, w, b) ==
  \A i \in 1..Len(b) :
    /\ Queued(q, b[i])
    /\ \A j, k \in 1..Len(q) : k < j /\ q[j] = b[i] =>
         \/ \E m \in 1..Len(w) : Answers(w, m, q[k])
         \/ \E m \in 1..(i - 1) : b[m] = q[k]

\* What is queued was answered or sent, but for what is in e.
AllSent(q, w, b, e) ==
  \A j \in 1..Len(q) : \/ \E m \in 1..Len(w) : Answers(w, m, q[j])
                       \/ Queued(b, q[j]) \/ q[j] \in e

\* The events on the wire are those after d up to n, in order.
EventOrder(w, d, n) ==
  /\ \A i \in 1..Len(w) : w[i].kind = "event" => w[i].cmd[2] \in (d + 1)..n
  /\ \A i, j \in 1..Len(w) :
       i < j /\ w[i].kind = "event" /\ w[j].kind = "event" => w[i].cmd[2] < w[j].cmd[2]
  /\ \A x \in (d + 1)..n : \E i \in 1..Len(w) : w[i].kind = "event" /\ w[i].cmd[2] = x

-----------------------------------------------------------------------------
(* The inductive invariant.                                                *)

Command(c) == <<c, number[c]>>

\* The lock is held from the test of _closed to the end of the send.
Locked ==
  \A c \in Callers : /\ pc[c] \in {"locked", "open", "queued"} <=> wlock = c
                     /\ pc[c] # "rest" => number[c] >= 1

\* x was issued, and if its caller is still busy with it, then not at a station
\* of at.
Issued(x, at) == x[2] <= number[x[1]] /\ (x[2] = number[x[1]] => pc[x[1]] \notin at)

\* Nothing is queued or sent before its time ...
InTime ==
  \A x \in Commands :
    /\ Queued(syncCb, x) => Issued(x, {"locked", "open"})
    /\ Queued(inbox, x) \/ Answered(wire, x) => Issued(x, {"locked", "open", "queued"})

\* ... or twice, and the three streams agree; the command of the holder of the
\* lock may be queued and not yet sent.
Sending == {Command(c) : c \in {d \in Callers : pc[d] = "queued"}}
Paired ==
  /\ Apart(syncCb, wire, inbox)
  /\ ~closed => WireOrder(syncCb, wire) /\ InboxOrder(syncCb, wire, inbox)
  /\ ~closed /\ peer = "up" => AllSent(syncCb, wire, inbox, Sending)
  /\ ~closed => \A c \in Callers : pc[c] = "queued" => Queued(syncCb, Command(c))

\* Once the monitor is closed, a reader that goes on finds no callback; a reader
\* that has ended has closed it, and then who is past the test cannot send.
Ended ==
  /\ closed /\ reader # "off" =>
       syncCb = <<>> /\ \A c \in Callers : pc[c] \notin {"open", "queued"}
  /\ reader = "off" => closed
  /\ reader = "off" /\ peer = "up" => \A c \in Callers : pc[c] \notin {"open", "queued"}

\* Whoever has no answer is in the queue.
Waiting ==
  \A c \in Callers :
    pc[c] \in {"queued", "wait"} /\ answer[c] = None => Queued(syncCb, Command(c))

\* The events on the wire are those not yet dispatched.
Pending == dispatched <= events /\ EventOrder(wire, dispatched, events)

\* Who was never registered was never called; who was, is on the list until the
\* monitor is closed, also on the one about to be stored, unless it came late.
Registered ==
  /\ \A h \in Handlers : since[h] = None => heard[h] = <<>> /\ h \notin asyncCb \cup kept
  /\ \A h \in Handlers : since[h] # None => since[h] <= dispatched
  /\ ~closed => \A h \in Handlers \ late : since[h] # None =>
       h \in asyncCb /\ (reader = "store" => h \in kept)
  /\ HandlersHearEverything

\* The inductive invariant.
IInv == /\ TypeOK /\ Locked /\ InTime /\ Paired /\ Ended /\ Waiting /\ Pending
        /\ Registered /\ AnswersOwnCommand /\ NoWaiterLeftBehind

-----------------------------------------------------------------------------

LEMMA InitIInv == Init => IInv
<1> SUFFICES ASSUME Init PROVE IInv
  OBVIOUS
<1>1. TypeOK
  <2>1. /\ syncCb \in Seq(Commands) /\ inbox \in Seq(Commands)
        /\ heard \in [Handlers -> Seq(1..MaxEvents)]
    BY EmptySeq DEF Init
  <2>2. wire \in Seq([kind : {"reply", "event"},
                      cmd : Commands \cup ({None} \X (1..MaxEvents))])
    BY EmptySeq DEF Init
  <2>3. MaxEvents \in Nat /\ MaxCommands \in Nat
    BY MonitorAssumption
  <2>4. /\ pc \in [Callers -> {"rest", "locked", "open", "queued", "wait"}]
        /\ number \in [Callers -> 0..MaxCommands]
        /\ since \in [Handlers -> 0..MaxEvents \cup {None}]
        /\ answer \in [Callers -> Commands \cup {Lost, None}]
    BY <2>3 DEF Init
  <2>5. /\ wlock \in Callers \cup {None} /\ asyncCb \subseteq Handlers /\ kept \subseteq Handlers
        /\ late \subseteq Handlers
        /\ reader \in {"on", "store", "off"} /\ peer \in {"up", "down"}
        /\ dispatched \in 0..MaxEvents /\ events \in 0..MaxEvents
    BY <2>3 DEF Init
  <2>6. closed \in BOOLEAN
    BY DEF Init
  <2> QED
    BY <2>1, <2>2, <2>4, <2>5, <2>6 DEF TypeOK
<1>2. Len(syncCb) = 0 /\ Len(inbox) = 0 /\ Len(wire) = 0
  BY DEF Init
<1>3. Locked /\ InTime /\ Paired /\ Ended /\ Waiting /\ Pending
  BY <1>2, MonitorAssumption DEF Init, Locked, InTime, Queued, Answered, Paired, Apart,
     WireOrder, InboxOrder, AllSent, Ended, Waiting, Pending, EventOrder
<1>4. Registered /\ AnswersOwnCommand /\ NoWaiterLeftBehind
  BY DEF Init, Registered, HandlersHearEverything, HearsEverything, AnswersOwnCommand, NoWaiterLeftBehind
<1> QED
  BY <1>1, <1>3, <1>4 DEF IInv

\* The answer None of a lost connection, and a command, differ from no answer.
LEMMA NotNone ==
  /\ Lost # None /\ None \notin Commands /\ None \notin Callers
  /\ \A c \in Callers, n \in Nat : <<c, n>> # None
<1>1. \A x \in (Callers \cup {None}) \X Nat : x # None
  BY MonitorAssumption
<1>2. Commands \subseteq (Callers \cup {None}) \X Nat
  BY MonitorAssumption DEF Commands
<1> QED
  BY <1>1, <1>2, MonitorAssumption DEF Lost

\* DrainCallbacks answers every waiter and leaves an empty queue.
LEMMA Drained ==
  ASSUME IInv, DrainCallbacks
  PROVE  /\ syncCb' = <<>> /\ Len(syncCb') = 0 /\ asyncCb' = {}
         /\ answer' \in [Callers -> Commands \cup {Lost, None}]
         /\ \A c \in Callers : answer'[c] \in {answer[c], Lost}
         /\ \A c \in Callers : pc[c] # "rest" /\ Queued(syncCb, Command(c)) => answer'[c] # None
<1>1. DOMAIN syncCb = 1..Len(syncCb)
  BY DEF IInv, TypeOK
<1> QED
  BY <1>1, NotNone DEF DrainCallbacks, Deliver, Queued, Command, IInv, TypeOK

\* What the steps below use of the types.
CallerTypes ==
  /\ pc \in [Callers -> {"rest", "locked", "open", "queued", "wait"}]
  /\ number \in [Callers -> 0..MaxCommands] /\ MaxCommands \in Nat
  /\ answer \in [Callers -> Commands \cup {Lost, None}]
  /\ wlock \in Callers \cup {None} /\ None \notin Callers

LEMMA Typing ==
  TypeOK => CallerTypes /\ Streams(syncCb, wire, inbox)
<1> SUFFICES ASSUME TypeOK PROVE CallerTypes /\ Streams(syncCb, wire, inbox)
  OBVIOUS
<1>1. CallerTypes
  BY MonitorAssumption DEF TypeOK, CallerTypes
<1>2. Streams(syncCb, wire, inbox)
  BY DEF TypeOK, Messages, Streams
<1> QED
  BY <1>1, <1>2

-----------------------------------------------------------------------------
(* What the operations do to the streams.                                  *)

\* _exec_async queues a new command.
LEMMA QueueStreams ==
  ASSUME NEW q, NEW w, NEW b, Streams(q, w, b), NEW x \in Commands,
         ~Queued(q, x), ~Queued(b, x), ~Answered(w, x),
         NEW r, r = Append(q, x)
  PROVE  /\ r \in Seq(Commands)
         /\ Queued(r, x) /\ \A y : Queued(q, y) => Queued(r, y)
         /\ \A y : Queued(r, y) => y = x \/ Queued(q, y)
         /\ Apart(q, w, b) => Apart(r, w, b)
         /\ WireOrder(q, w) => WireOrder(r, w)
         /\ InboxOrder(q, w, b) => InboxOrder(r, w, b)
         /\ AllSent(q, w, b, {}) => AllSent(r, w, b, {x})
<1>1. /\ r \in Seq(Commands) /\ Len(q) \in Nat /\ Len(r) = Len(q) + 1
      /\ \A i \in 1..Len(q) : r[i] = q[i]
      /\ r[Len(q) + 1] = x
  BY DEF Streams
<1>2. Queued(r, x) /\ \A y : Queued(q, y) => Queued(r, y)
  BY <1>1 DEF Queued
<1>3. \A y : Queued(r, y) => y = x \/ Queued(q, y)
  BY <1>1 DEF Queued
<1>4. ASSUME Apart(q, w, b) PROVE Apart(r, w, b)
  BY <1>1, <1>4 DEF Apart, Answered, Queued
<1>5. ASSUME WireOrder(q, w) PROVE WireOrder(r, w)
  BY <1>1, <1>2, <1>5 DEF WireOrder, Answered, Answers
<1>6. ASSUME InboxOrder(q, w, b) PROVE InboxOrder(r, w, b)
  <2>1. \A i \in 1..Len(b) : b[i] # x
    BY DEF Queued
  <2>2. \A i \in 1..Len(b), j \in 1..Len(r) : r[j] = b[i] => j \in 1..Len(q)
    BY <1>1, <2>1
  <2>3. \A j \in 1..Len(q), k \in 1..Len(r) : k < j => k \in 1..Len(q)
    BY <1>1
  <2>4. SUFFICES ASSUME NEW i \in 1..Len(b)
        PROVE  /\ Queued(r, b[i])
               /\ \A j, k \in 1..Len(r) : k < j /\ r[j] = b[i] =>
                    \/ \E m \in 1..Len(w) : Answers(w, m, r[k])
                    \/ \E m \in 1..(i - 1) : b[m] = r[k]
    BY DEF InboxOrder
  <2>5. Queued(r, b[i])
    BY <1>2, <1>6 DEF InboxOrder
  <2>6. ASSUME NEW j \in 1..Len(r), NEW k \in 1..Len(r), k < j, r[j] = b[i]
        PROVE  \/ \E m \in 1..Len(w) : Answers(w, m, r[k])
               \/ \E m \in 1..(i - 1) : b[m] = r[k]
    <3>1. j \in 1..Len(q) /\ k \in 1..Len(q)
      BY <2>2, <2>3, <2>6
    <3>2. r[j] = q[j] /\ r[k] = q[k]
      BY <1>1, <3>1
    <3>3. q[j] = b[i]
      BY <2>6, <3>2
    <3> QED
      BY <1>6, <2>6, <3>1, <3>2, <3>3 DEF InboxOrder
  <2> QED
    BY <2>5, <2>6
<1>7. ASSUME AllSent(q, w, b, {}) PROVE AllSent(r, w, b, {x})
  BY <1>1, <1>7 DEF AllSent
<1> QED
  BY <1>1, <1>2, <1>3, <1>4, <1>5, <1>6, <1>7

\* It is sent.
LEMMA SendStreams ==
  ASSUME NEW q, NEW w, NEW b, Streams(q, w, b), NEW x \in Commands,
         ~Queued(b, x), ~Answered(w, x), NEW a, a = Append(b, x)
  PROVE  /\ a \in Seq(Commands)
         /\ \A y : Queued(a, y) => y = x \/ Queued(b, y)
         /\ Apart(q, w, b) => Apart(q, w, a)
         /\ /\ Apart(q, w, b) /\ Queued(q, x) /\ AllSent(q, w, b, {x}) /\ InboxOrder(q, w, b)
            => InboxOrder(q, w, a)
         /\ AllSent(q, w, b, {x}) => AllSent(q, w, a, {})
<1>1. /\ a \in Seq(Commands) /\ Len(b) \in Nat /\ Len(a) = Len(b) + 1
      /\ \A i \in 1..Len(b) : a[i] = b[i]
      /\ a[Len(b) + 1] = x
  BY DEF Streams
<1>2. \A y : Queued(a, y) => y = x \/ Queued(b, y)
  BY <1>1 DEF Queued
<1>3. ASSUME Apart(q, w, b) PROVE Apart(q, w, a)
  BY <1>1, <1>3 DEF Apart, Answered, Queued
<1>4. ASSUME Apart(q, w, b), Queued(q, x), AllSent(q, w, b, {x}), InboxOrder(q, w, b)
      PROVE  InboxOrder(q, w, a)
  <2>1. SUFFICES ASSUME NEW i \in 1..Len(a)
        PROVE  /\ Queued(q, a[i])
               /\ \A j, k \in 1..Len(q) : k < j /\ q[j] = a[i] =>
                    \/ \E m \in 1..Len(w) : Answers(w, m, q[k])
                    \/ \E m \in 1..(i - 1) : a[m] = q[k]
    BY DEF InboxOrder
  <2>2. CASE i \in 1..Len(b)
    BY <1>1, <1>4, <2>2 DEF InboxOrder
  <2>3. CASE i = Len(b) + 1
    <3>1. a[i] = x /\ i - 1 = Len(b) /\ \A m \in 1..Len(b) : a[m] = b[m]
      BY <1>1, <2>3
    <3>2. ASSUME NEW j \in 1..Len(q), NEW k \in 1..Len(q), k < j, q[j] = a[i]
          PROVE  \/ \E m \in 1..Len(w) : Answers(w, m, q[k])
                 \/ \E m \in 1..(i - 1) : a[m] = q[k]
      <4>1. q[k] # x
        BY <1>4, <3>1, <3>2 DEF Apart, Streams
      <4>2. (\E m \in 1..Len(w) : Answers(w, m, q[k])) \/ Queued(b, q[k])
        BY <1>4, <4>1 DEF AllSent
      <4> QED
        BY <3>1, <4>2 DEF Queued
    <3> QED
      BY <1>4, <3>1, <3>2
  <2> QED
    BY <1>1, <2>2, <2>3
<1>5. ASSUME AllSent(q, w, b, {x}) PROVE AllSent(q, w, a, {})
  BY <1>1, <1>5 DEF AllSent, Queued
<1> QED
  BY <1>1, <1>2, <1>3, <1>4, <1>5

\* QEMU answers the oldest command it has not read.
LEMMA ReplyStreams ==
  ASSUME NEW q, NEW w, NEW b, Streams(q, w, b), b # <<>>,
         NEW v \in Seq(Messages), Len(v) = Len(w) + 1, \A i \in 1..Len(w) : v[i] = w[i],
         v[Len(w) + 1] = Reply(b[1]),
         NEW a \in Seq(Commands), Len(a) = Len(b) - 1, \A i \in 1..Len(a) : a[i] = b[i + 1]
  PROVE  /\ b[1] \in Commands
         /\ Queued(b, b[1]) /\ \A y : Queued(a, y) => Queued(b, y)
         /\ \A y : Answered(v, y) => Answered(w, y) \/ y = b[1]
         /\ Apart(q, w, b) => Apart(q, v, a)
         /\ WireOrder(q, w) /\ InboxOrder(q, w, b) => WireOrder(q, v) /\ InboxOrder(q, v, a)
         /\ \A e : AllSent(q, w, b, e) => AllSent(q, v, a, e)
<1>1. /\ Len(b) \in Nat /\ Len(b) >= 1 /\ Len(a) = Len(b) - 1
      /\ \A i \in 1..Len(a) : a[i] = b[i + 1]
      /\ b[1] \in Commands
  BY DEF Streams
<1>2. Reply(b[1]).kind = "reply" /\ Reply(b[1]).cmd = b[1]
  BY DEF Reply
<1>3. /\ Len(w) \in Nat /\ Len(v) = Len(w) + 1
      /\ \A i \in 1..Len(w) : v[i] = w[i]
      /\ v[Len(w) + 1] = Reply(b[1])
  BY DEF Streams
<1>4. Queued(b, b[1]) /\ \A y : Queued(a, y) => Queued(b, y)
  BY <1>1 DEF Queued
<1>5. ASSUME Apart(q, w, b) PROVE Apart(q, v, a)
  <2>1. \A i \in 1..Len(v) : \/ i \in 1..Len(w) /\ v[i] = w[i]
                             \/ i = Len(w) + 1 /\ v[i] = Reply(b[1])
    <3>1. SUFFICES ASSUME NEW i \in 1..Len(v)
          PROVE  \/ i \in 1..Len(w) /\ v[i] = w[i]
                 \/ i = Len(w) + 1 /\ v[i] = Reply(b[1])
      OBVIOUS
    <3>2. i \in 1..Len(w) \/ i = Len(w) + 1
      BY <1>3
    <3>3. CASE i = Len(w) + 1
      BY <1>3, <3>3
    <3>4. CASE i \in 1..Len(w)
      BY <1>3, <3>4
    <3> QED
      BY <3>2, <3>3, <3>4
  <2>2. /\ \A i \in 1..Len(a) : i + 1 \in 1..Len(b) /\ a[i] = b[i + 1] /\ i + 1 # 1
        /\ 1 \in 1..Len(b)
    BY <1>1
  <2>3. \A i, j \in 1..Len(v) : Answers(v, i, v[j].cmd) /\ v[j].kind = "reply" => i = j
    BY <1>2, <1>5, <2>1, <2>2 DEF Apart, Answers
  <2>4. ASSUME NEW i \in 1..Len(v), NEW j \in 1..Len(a) PROVE ~Answers(v, i, a[j])
    <3>1. j + 1 \in 1..Len(b) /\ a[j] = b[j + 1] /\ j + 1 # 1 /\ 1 \in 1..Len(b)
      BY <2>2
    <3>2. CASE i \in 1..Len(w) /\ v[i] = w[i]
      <4>1. ~Answers(w, i, b[j + 1])
        BY <1>5, <3>1, <3>2 DEF Apart
      <4> QED
        BY <3>1, <3>2, <4>1 DEF Answers
    <3>3. CASE v[i] = Reply(b[1])
      <4>1. b[1] # b[j + 1]
        BY <1>5, <3>1 DEF Apart
      <4> QED
        BY <1>2, <3>1, <3>3, <4>1 DEF Answers
    <3> QED
      BY <2>1, <3>2, <3>3
  <2>5. ASSUME NEW i \in 1..Len(a), NEW j \in 1..Len(a), a[i] = a[j] PROVE i = j
    <3>1. i + 1 = j + 1
      BY <1>5, <2>2, <2>5 DEF Apart
    <3> QED
      BY <1>1, <3>1
  <2> QED
    BY <1>5, <2>3, <2>4, <2>5 DEF Apart
<1>6. /\ \A y : \A m \in 1..Len(w) : Answers(w, m, y) <=> Answers(v, m, y)
      /\ \A i \in 1..Len(w) : i \in 1..Len(v) /\ 1..(i - 1) \subseteq 1..Len(w)
  BY <1>3 DEF Answers
<1>7. ASSUME WireOrder(q, w), InboxOrder(q, w, b) PROVE WireOrder(q, v)
  <2>1. SUFFICES ASSUME NEW i \in 1..Len(v), v[i].kind = "reply"
        PROVE  /\ Queued(q, v[i].cmd)
               /\ \A j, k \in 1..Len(q) : k < j /\ q[j] = v[i].cmd =>
                    \E m \in 1..(i - 1) : Answers(v, m, q[k])
    BY DEF WireOrder
  <2>2. CASE i \in 1..Len(w)
    <3>1. /\ v[i] = w[i] /\ w[i].kind = "reply"
      BY <1>3, <2>1, <2>2
    <3>2. /\ Queued(q, w[i].cmd)
          /\ \A j, k \in 1..Len(q) : k < j /\ q[j] = w[i].cmd =>
               \E m \in 1..(i - 1) : Answers(w, m, q[k])
      BY <1>7, <2>2, <3>1 DEF WireOrder
    <3>3. \A y : \A m \in 1..(i - 1) : Answers(w, m, y) => Answers(v, m, y)
      BY <1>6, <2>2
    <3> QED
      BY <3>1, <3>2, <3>3
  <2>3. CASE i = Len(w) + 1
    <3>1. v[i].cmd = b[1] /\ i - 1 = Len(w) /\ \A m \in 1..Len(w) : v[m] = w[m]
      BY <1>2, <1>3, <2>3
    <3>2. 1 \in 1..Len(b) /\ 1 - 1 = 0
      BY <1>1
    <3>3. ~\E m \in 1..0 : TRUE
      OBVIOUS
    <3>4. /\ Queued(q, b[1])
          /\ \A j, k \in 1..Len(q) : k < j /\ q[j] = b[1] =>
               \E m \in 1..Len(w) : Answers(w, m, q[k])
      BY <1>7, <3>2, <3>3 DEF InboxOrder
    <3> QED
      BY <1>6, <3>1, <3>4
  <2>4. i \in 1..Len(w) \/ i = Len(w) + 1
    BY <1>3
  <2> QED
    BY <2>2, <2>3, <2>4
<1>8. ASSUME InboxOrder(q, w, b) PROVE InboxOrder(q, v, a)
  <2>1. SUFFICES ASSUME NEW i \in 1..Len(a)
        PROVE  /\ Queued(q, a[i])
               /\ \A j, k \in 1..Len(q) : k < j /\ q[j] = a[i] =>
                    \/ \E m \in 1..Len(v) : Answers(v, m, q[k])
                    \/ \E m \in 1..(i - 1) : a[m] = q[k]
    BY DEF InboxOrder
  <2>2. i + 1 \in 1..Len(b) /\ a[i] = b[i + 1]
    BY <1>1
  <2>3. Queued(q, a[i])
    BY <1>8, <2>2 DEF InboxOrder
  <2>4. ASSUME NEW j \in 1..Len(q), NEW k \in 1..Len(q), k < j, q[j] = a[i]
        PROVE  \/ \E m \in 1..Len(v) : Answers(v, m, q[k])
               \/ \E m \in 1..(i - 1) : a[m] = q[k]
    <3>1. CASE \E m \in 1..Len(w) : Answers(w, m, q[k])
      BY <1>3, <3>1 DEF Answers
    <3>2. ASSUME NEW m \in 1..i, b[m] = q[k]
          PROVE  \/ \E n \in 1..Len(v) : Answers(v, n, q[k])
                 \/ \E n \in 1..(i - 1) : a[n] = q[k]
      <4>1. CASE m = 1
        BY <1>2, <1>3, <3>2, <4>1 DEF Answers
      <4>2. CASE m # 1
        <5>1. m - 1 \in 1..(i - 1) /\ (m - 1) + 1 = m
          BY <3>2, <4>2
        <5>2. m - 1 \in 1..Len(a)
          BY <1>1, <5>1
        <5>3. a[m - 1] = b[m]
          BY <1>1, <5>1, <5>2
        <5> QED
          BY <3>2, <5>1, <5>3
      <4> QED
        BY <4>1, <4>2
    <3>3. (i + 1) - 1 = i /\ q[j] = b[i + 1]
      BY <2>2, <2>4
    <3>4. \/ \E m \in 1..Len(w) : Answers(w, m, q[k])
          \/ \E m \in 1..((i + 1) - 1) : b[m] = q[k]
      BY <1>8, <2>2, <2>4, <3>3 DEF InboxOrder
    <3> QED
      BY <3>1, <3>2, <3>3, <3>4
  <2> QED
    BY <2>3, <2>4
<1>9. ASSUME NEW e, AllSent(q, w, b, e) PROVE AllSent(q, v, a, e)
  <2>1. SUFFICES ASSUME NEW j \in 1..Len(q)
        PROVE  \/ \E m \in 1..Len(v) : Answers(v, m, q[j])
               \/ Queued(a, q[j]) \/ q[j] \in e
    BY DEF AllSent
  <2>2. CASE \E m \in 1..Len(w) : Answers(w, m, q[j])
    BY <1>3, <2>2 DEF Answers
  <2>3. ASSUME NEW m \in 1..Len(b), b[m] = q[j]
        PROVE  \/ \E n \in 1..Len(v) : Answers(v, n, q[j])
               \/ Queued(a, q[j])
    <3>1. CASE m = 1
      BY <1>2, <1>3, <2>3, <3>1 DEF Answers
    <3>2. CASE m # 1
      <4>1. m - 1 \in 1..Len(a) /\ a[m - 1] = q[j]
        BY <1>1, <2>3, <3>2
      <4> QED
        BY <4>1 DEF Queued
    <3> QED
      BY <3>1, <3>2
  <2> QED
    BY <1>9, <2>2, <2>3 DEF AllSent, Queued
<1>10. \A y : Answered(v, y) => Answered(w, y) \/ y = b[1]
  BY <1>1, <1>2, <1>3 DEF Answered, Answers
<1> QED
  BY <1>1, <1>4, <1>5, <1>7, <1>8, <1>9, <1>10

\* The oldest reply goes to the oldest callback, which is its own.
LEMMA DispatchStreams ==
  ASSUME NEW q, NEW w, NEW b, Streams(q, w, b), Apart(q, w, b), WireOrder(q, w),
         InboxOrder(q, w, b), w # <<>>, w[1].kind = "reply"
  PROVE  /\ q # <<>> /\ q[1] = w[1].cmd
         /\ Tail(q) \in Seq(Commands)
         /\ \A y : Queued(q, y) => y = q[1] \/ Queued(Tail(q), y)
         /\ \A y : Queued(Tail(q), y) => Queued(q, y)
         /\ WireOrder(Tail(q), Tail(w)) /\ InboxOrder(Tail(q), Tail(w), b)
         /\ \A e : AllSent(q, w, b, e) => AllSent(Tail(q), Tail(w), b, e)
<1> DEFINE r == Tail(q)
           v == Tail(w)
<1>1. /\ Len(w) \in Nat /\ Len(w) >= 1 /\ Len(v) = Len(w) - 1
      /\ \A i \in 1..Len(v) : v[i] = w[i + 1]
  BY DEF Streams
<1>2. q # <<>> /\ q[1] = w[1].cmd
  <2>1. PICK j \in 1..Len(q) : q[j] = w[1].cmd
    BY <1>1 DEF WireOrder, Queued
  <2>2. Len(q) \in Nat
    BY DEF Streams
  <2>3. 1 \in 1..Len(w) /\ ~\E m \in 1..(1 - 1) : TRUE
    BY <1>1
  <2>4. ~(1 < j)
    BY <2>1, <2>2, <2>3 DEF WireOrder
  <2>5. j = 1
    BY <2>1, <2>2, <2>4
  <2> QED
    BY <2>1, <2>2, <2>5
<1>3. /\ r \in Seq(Commands) /\ Len(q) \in Nat /\ Len(q) >= 1 /\ Len(r) = Len(q) - 1
      /\ \A i \in 1..Len(r) : r[i] = q[i + 1]
  BY <1>2 DEF Streams
<1> HIDE DEF r, v
<1>4. \A y : Queued(q, y) => y = q[1] \/ Queued(r, y)
  <2>1. SUFFICES ASSUME NEW i \in 1..Len(q), i # 1 PROVE Queued(r, q[i])
    BY DEF Queued
  <2>2. i - 1 \in 1..Len(r) /\ r[i - 1] = q[i]
    BY <1>3, <2>1
  <2> QED
    BY <2>2 DEF Queued
<1>5. \A y : Queued(r, y) => Queued(q, y)
  BY <1>3 DEF Queued
<1>6. \A k \in 1..Len(r) : k + 1 \in 1..Len(q) /\ r[k] = q[k + 1] /\ r[k] # q[1]
  BY <1>3 DEF Apart
\* The reply that is taken off answered none of the others.
<1>7. ASSUME NEW k \in 1..Len(r), NEW n \in 0..Len(w),
             \E m \in 1..n : Answers(w, m, r[k])
      PROVE  \E m \in 1..(n - 1) : Answers(v, m, r[k])
  <2>1. PICK m \in 1..n : Answers(w, m, r[k])
    BY <1>7
  <2>2. m # 1
    BY <1>2, <1>6, <2>1 DEF Answers
  <2>3. m - 1 \in 1..(n - 1) /\ v[m - 1] = w[m]
    BY <1>1, <2>1, <2>2
  <2> QED
    BY <2>1, <2>3 DEF Answers
<1>8. WireOrder(r, v)
  <2>1. SUFFICES ASSUME NEW i \in 1..Len(v), v[i].kind = "reply"
        PROVE  /\ Queued(r, v[i].cmd)
               /\ \A j, k \in 1..Len(r) : k < j /\ r[j] = v[i].cmd =>
                    \E m \in 1..(i - 1) : Answers(v, m, r[k])
    BY DEF WireOrder
  <2>2. i + 1 \in 1..Len(w) /\ v[i] = w[i + 1] /\ i \in 0..Len(w) /\ (i + 1) - 1 = i
    BY <1>1
  <2>3. w[i + 1].cmd # q[1]
    <3>1. 1 \in 1..Len(w) /\ i + 1 # 1
      BY <1>1
    <3> QED
      BY <1>2, <2>1, <2>2, <3>1 DEF Apart, Answers
  <2>4. Queued(r, v[i].cmd)
    BY <1>4, <2>1, <2>2, <2>3 DEF WireOrder
  <2>5. ASSUME NEW j \in 1..Len(r), NEW k \in 1..Len(r), k < j, r[j] = v[i].cmd
        PROVE  \E m \in 1..(i - 1) : Answers(v, m, r[k])
    <3>1. k + 1 < j + 1
      BY <1>3, <2>5
    <3>2. \E m \in 1..((i + 1) - 1) : Answers(w, m, q[k + 1])
      BY <1>6, <2>1, <2>2, <2>5, <3>1 DEF WireOrder
    <3> QED
      BY <1>6, <1>7, <2>2, <3>2
  <2> QED
    BY <2>4, <2>5
<1>9. InboxOrder(r, v, b)
  <2>1. SUFFICES ASSUME NEW i \in 1..Len(b)
        PROVE  /\ Queued(r, b[i])
               /\ \A j, k \in 1..Len(r) : k < j /\ r[j] = b[i] =>
                    \/ \E m \in 1..Len(v) : Answers(v, m, r[k])
                    \/ \E m \in 1..(i - 1) : b[m] = r[k]
    BY DEF InboxOrder
  <2>2. b[i] # q[1]
    <3>1. 1 \in 1..Len(w)
      BY <1>1
    <3> QED
      BY <1>2, <3>1 DEF Apart, Answers
  <2>3. Queued(r, b[i])
    BY <1>4, <2>2 DEF InboxOrder
  <2>4. ASSUME NEW j \in 1..Len(r), NEW k \in 1..Len(r), k < j, r[j] = b[i]
        PROVE  \/ \E m \in 1..Len(v) : Answers(v, m, r[k])
               \/ \E m \in 1..(i - 1) : b[m] = r[k]
    <3>1. k + 1 < j + 1
      BY <1>3, <2>4
    <3>2. \/ \E m \in 1..Len(w) : Answers(w, m, q[k + 1])
          \/ \E m \in 1..(i - 1) : b[m] = q[k + 1]
      <4>1. j + 1 \in 1..Len(q) /\ k + 1 \in 1..Len(q) /\ q[j + 1] = b[i]
        BY <1>6, <2>4
      <4> QED
        BY <3>1, <4>1 DEF InboxOrder
    <3>3. Len(w) \in 0..Len(w)
      BY <1>1
    <3> QED
      BY <1>1, <1>6, <1>7, <3>2, <3>3
  <2> QED
    BY <2>3, <2>4
<1>10. ASSUME NEW e, AllSent(q, w, b, e) PROVE AllSent(r, v, b, e)
  <2>1. SUFFICES ASSUME NEW j \in 1..Len(r)
        PROVE  \/ \E m \in 1..Len(v) : Answers(v, m, r[j])
               \/ Queued(b, r[j]) \/ r[j] \in e
    BY DEF AllSent
  <2>2. \/ \E m \in 1..Len(w) : Answers(w, m, r[j])
        \/ Queued(b, r[j]) \/ r[j] \in e
    BY <1>6, <1>10 DEF AllSent
  <2>3. Len(w) \in 0..Len(w)
    BY <1>1
  <2> QED
    BY <1>1, <1>7, <2>2, <2>3
<1> QED
  BY <1>2, <1>3, <1>4, <1>5, <1>8, <1>9, <1>10 DEF r, v

\* A message is taken off the wire, and a callback off the queue or not.
LEMMA TailApart ==
  ASSUME NEW q, NEW w, NEW b, Streams(q, w, b), w # <<>>, Apart(q, w, b)
  PROVE  /\ Tail(w) \in Seq(Messages) /\ Len(w) \in Nat /\ Len(w) >= 1
         /\ Len(Tail(w)) = Len(w) - 1
         /\ \A i \in 1..Len(Tail(w)) : Tail(w)[i] = w[i + 1]
         /\ \A y : Answered(Tail(w), y) => Answered(w, y)
         /\ Apart(q, Tail(w), b)
         /\ q # <<>> => Apart(Tail(q), Tail(w), b)
<1> DEFINE r == Tail(q)
           v == Tail(w)
<1>1. /\ Len(w) \in Nat /\ Len(w) >= 1 /\ Len(v) = Len(w) - 1 /\ v \in Seq(Messages)
      /\ \A i \in 1..Len(v) : v[i] = w[i + 1]
  BY DEF Streams
<1>2. q # <<>> => /\ Len(q) \in Nat /\ Len(q) >= 1 /\ Len(r) = Len(q) - 1
                  /\ \A i \in 1..Len(r) : r[i] = q[i + 1]
  BY DEF Streams
<1> HIDE DEF r, v
<1>3. Apart(q, v, b)
  <2>1. \A i \in 1..Len(v) : i + 1 \in 1..Len(w) /\ v[i] = w[i + 1]
    BY <1>1
  <2>2. ASSUME NEW i \in 1..Len(v), NEW j \in 1..Len(v), Answers(v, i, v[j].cmd),
               v[j].kind = "reply"
        PROVE  i = j
    <3>1. /\ i + 1 \in 1..Len(w) /\ v[i] = w[i + 1]
          /\ j + 1 \in 1..Len(w) /\ v[j] = w[j + 1]
      BY <2>1
    <3>2. Answers(w, i + 1, w[j + 1].cmd) /\ w[j + 1].kind = "reply"
      BY <2>2, <3>1 DEF Answers
    <3>3. i + 1 = j + 1
      BY <3>1, <3>2 DEF Apart
    <3> QED
      BY <1>1, <3>3
  <2>3. ASSUME NEW i \in 1..Len(v), NEW j \in 1..Len(b) PROVE ~Answers(v, i, b[j])
    <3>1. i + 1 \in 1..Len(w) /\ v[i] = w[i + 1]
      BY <2>1
    <3>2. ~Answers(w, i + 1, b[j])
      BY <3>1 DEF Apart
    <3> QED
      BY <3>1, <3>2 DEF Answers
  <2> QED
    BY <2>2, <2>3 DEF Apart
<1>4. ASSUME q # <<>> PROVE Apart(r, v, b)
  <2>1. \A i \in 1..Len(r) : i + 1 \in 1..Len(q) /\ r[i] = q[i + 1]
    BY <1>2, <1>4
  <2>2. ASSUME NEW i \in 1..Len(r), NEW j \in 1..Len(r), r[i] = r[j]
        PROVE  i = j
    <3>1. i + 1 = j + 1
      BY <2>1, <2>2 DEF Apart
    <3> QED
      BY <1>2, <1>4, <3>1
  <2> QED
    BY <1>3, <2>2 DEF Apart
<1>5. \A y : Answered(v, y) => Answered(w, y)
  BY <1>1 DEF Answered, Answers
<1> QED
  BY <1>1, <1>3, <1>4, <1>5 DEF r, v

\* An event is taken off the wire.
LEMMA EventStreams ==
  ASSUME NEW q, NEW w, NEW b, Streams(q, w, b), w # <<>>, w[1].kind = "event"
  PROVE  /\ WireOrder(q, w) => WireOrder(q, Tail(w))
         /\ InboxOrder(q, w, b) => InboxOrder(q, Tail(w), b)
         /\ \A e : AllSent(q, w, b, e) => AllSent(q, Tail(w), b, e)
<1> DEFINE v == Tail(w)
<1>1. /\ Len(w) \in Nat /\ Len(w) >= 1 /\ Len(v) = Len(w) - 1
      /\ \A i \in 1..Len(v) : v[i] = w[i + 1]
  BY DEF Streams
<1> HIDE DEF v
<1>2. ASSUME NEW x, NEW n \in 0..Len(w), \E m \in 1..n : Answers(w, m, x)
      PROVE  \E m \in 1..(n - 1) : Answers(v, m, x)
  <2>1. PICK m \in 1..n : Answers(w, m, x)
    BY <1>2
  <2>2. m # 1
    BY <2>1 DEF Answers
  <2>3. m - 1 \in 1..(n - 1) /\ v[m - 1] = w[m]
    BY <1>1, <2>1, <2>2
  <2> QED
    BY <2>1, <2>3 DEF Answers
<1>3. Len(w) \in 0..Len(w) /\ Len(v) = Len(w) - 1
  BY <1>1
<1>4. ASSUME WireOrder(q, w) PROVE WireOrder(q, v)
  <2>1. SUFFICES ASSUME NEW i \in 1..Len(v), v[i].kind = "reply"
        PROVE  /\ Queued(q, v[i].cmd)
               /\ \A j, k \in 1..Len(q) : k < j /\ q[j] = v[i].cmd =>
                    \E m \in 1..(i - 1) : Answers(v, m, q[k])
    BY DEF WireOrder
  <2>2. i + 1 \in 1..Len(w) /\ v[i] = w[i + 1] /\ i \in 0..Len(w) /\ (i + 1) - 1 = i
    BY <1>1
  <2>3. /\ Queued(q, v[i].cmd)
        /\ \A j, k \in 1..Len(q) : k < j /\ q[j] = v[i].cmd =>
             \E m \in 1..i : Answers(w, m, q[k])
    BY <1>4, <2>1, <2>2 DEF WireOrder
  <2> QED
    BY <1>2, <2>2, <2>3
<1>5. ASSUME InboxOrder(q, w, b) PROVE InboxOrder(q, v, b)
  BY <1>2, <1>3, <1>5 DEF InboxOrder
<1>6. ASSUME NEW e, AllSent(q, w, b, e) PROVE AllSent(q, v, b, e)
  BY <1>2, <1>3, <1>6 DEF AllSent
<1> QED
  BY <1>4, <1>5, <1>6 DEF v

\* QEMU sends an event.
LEMMA AddEventStreams ==
  ASSUME NEW q, NEW w, NEW b, Streams(q, w, b), NEW v \in Seq(Messages),
         Len(v) = Len(w) + 1, \A i \in 1..Len(w) : v[i] = w[i], v[Len(w) + 1].kind = "event"
  PROVE  /\ \A y : Answered(v, y) => Answered(w, y)
         /\ Apart(q, w, b) => Apart(q, v, b)
         /\ WireOrder(q, w) => WireOrder(q, v)
         /\ InboxOrder(q, w, b) => InboxOrder(q, v, b)
         /\ \A e : AllSent(q, w, b, e) => AllSent(q, v, b, e)
<1>1. Len(w) \in Nat
  BY DEF Streams
<1>2. \A i \in 1..Len(v) : v[i].kind = "reply" => i \in 1..Len(w)
  BY <1>1
<1>3. \A y : \A i \in 1..Len(w) : Answers(w, i, y) <=> Answers(v, i, y)
  BY <1>1 DEF Answers
<1>4. \A i \in 1..Len(w) : i \in 1..Len(v) /\ 1..(i - 1) \subseteq 1..Len(w)
  BY <1>1
<1>5. ASSUME Apart(q, w, b) PROVE Apart(q, v, b)
  BY <1>1, <1>2, <1>5 DEF Apart, Answers
<1>6. ASSUME WireOrder(q, w) PROVE WireOrder(q, v)
  BY <1>1, <1>2, <1>3, <1>4, <1>6 DEF WireOrder
<1>7. ASSUME InboxOrder(q, w, b) PROVE InboxOrder(q, v, b)
  <2>1. \A y : (\E m \in 1..Len(w) : Answers(w, m, y)) => \E m \in 1..Len(v) : Answers(v, m, y)
    BY <1>3, <1>4
  <2> QED
    BY <1>7, <2>1 DEF InboxOrder
<1>8. ASSUME NEW e, AllSent(q, w, b, e) PROVE AllSent(q, v, b, e)
  BY <1>3, <1>4, <1>8 DEF AllSent
<1>9. \A y : Answered(v, y) => Answered(w, y)
  BY <1>2, <1>3 DEF Answered, Answers
<1> QED
  BY <1>5, <1>6, <1>7, <1>8, <1>9

\* Events after a reply is taken off the wire, or an event.
LEMMA TakeOrder ==
  ASSUME NEW w \in Seq(Messages), w # <<>>, NEW d \in Nat, NEW n \in Nat, d <= n,
         EventOrder(w, d, n)
  PROVE  /\ w[1].kind = "reply" => EventOrder(Tail(w), d, n)
         /\ w[1].kind = "event" => /\ w[1].cmd[2] = d + 1 /\ d + 1 <= n
                                   /\ EventOrder(Tail(w), d + 1, n)
<1> DEFINE v == Tail(w)
<1>1. /\ Len(w) \in Nat /\ Len(w) >= 1 /\ Len(v) = Len(w) - 1
      /\ \A i \in 1..Len(v) : v[i] = w[i + 1]
  OBVIOUS
<1> HIDE DEF v
<1>2. /\ \A i \in 1..Len(v) : i + 1 \in 1..Len(w) /\ v[i] = w[i + 1]
      /\ \A i \in 1..Len(w) : i # 1 => i - 1 \in 1..Len(v) /\ v[i - 1] = w[i]
      /\ 1 \in 1..Len(w)
  BY <1>1
<1>3. ASSUME NEW i \in 1..Len(v), NEW j \in 1..Len(v), i < j, v[i].kind = "event",
             v[j].kind = "event"
      PROVE  v[i].cmd[2] < v[j].cmd[2]
  <2>1. i + 1 < j + 1 /\ i + 1 \in 1..Len(w) /\ j + 1 \in 1..Len(w)
    BY <1>1, <1>3
  <2>2. v[i] = w[i + 1] /\ v[j] = w[j + 1]
    BY <1>1
  <2> QED
    BY <1>3, <2>1, <2>2 DEF EventOrder
<1>4. ASSUME w[1].kind = "reply" PROVE EventOrder(v, d, n)
  <2>1. ASSUME NEW i \in 1..Len(v), v[i].kind = "event" PROVE v[i].cmd[2] \in (d + 1)..n
    <3>1. i + 1 \in 1..Len(w) /\ v[i] = w[i + 1]
      BY <1>2
    <3> QED
      BY <2>1, <3>1 DEF EventOrder
  <2>2. ASSUME NEW x \in (d + 1)..n
        PROVE  \E i \in 1..Len(v) : v[i].kind = "event" /\ v[i].cmd[2] = x
    <3>1. PICK i \in 1..Len(w) : w[i].kind = "event" /\ w[i].cmd[2] = x
      BY <2>2 DEF EventOrder
    <3>2. i - 1 \in 1..Len(v) /\ v[i - 1] = w[i]
      BY <1>2, <1>4, <3>1
    <3> QED
      BY <3>1, <3>2
  <2> QED
    BY <1>3, <2>1, <2>2 DEF EventOrder
<1>5. ASSUME w[1].kind = "event"
      PROVE  w[1].cmd[2] = d + 1 /\ d + 1 <= n /\ EventOrder(v, d + 1, n)
  <2>1. PICK f \in (d + 1)..n : w[1].cmd[2] = f
    BY <1>2, <1>5 DEF EventOrder
  <2>2. d + 1 \in (d + 1)..n
    BY <2>1
  <2>3. PICK i \in 1..Len(w) : w[i].kind = "event" /\ w[i].cmd[2] = d + 1
    BY <2>2 DEF EventOrder
  <2>4. ~(1 < i)
    BY <1>2, <1>5, <2>1, <2>3 DEF EventOrder
  <2>5. i = 1 /\ f = d + 1
    BY <1>1, <2>1, <2>3, <2>4
  <2>6. ASSUME NEW j \in 1..Len(v), v[j].kind = "event"
        PROVE  v[j].cmd[2] \in ((d + 1) + 1)..n
    <3>1. 1 < j + 1 /\ j + 1 \in 1..Len(w) /\ v[j] = w[j + 1]
      BY <1>1
    <3>2. v[j].cmd[2] \in (d + 1)..n
      BY <2>6, <3>1 DEF EventOrder
    <3>3. w[1].cmd[2] < w[j + 1].cmd[2]
      BY <1>2, <1>5, <2>6, <3>1 DEF EventOrder
    <3> QED
      BY <2>1, <2>5, <3>1, <3>2, <3>3
  <2>7. ASSUME NEW x \in ((d + 1) + 1)..n
        PROVE  \E j \in 1..Len(v) : v[j].kind = "event" /\ v[j].cmd[2] = x
    <3>1. x \in (d + 1)..n /\ x # f
      BY <2>5
    <3>2. PICK j \in 1..Len(w) : w[j].kind = "event" /\ w[j].cmd[2] = x
      BY <3>1 DEF EventOrder
    <3>3. j - 1 \in 1..Len(v) /\ v[j - 1] = w[j]
      BY <1>2, <2>1, <3>1, <3>2
    <3> QED
      BY <3>2, <3>3
  <2>8. EventOrder(v, d + 1, n)
    BY <1>3, <2>6, <2>7 DEF EventOrder
  <2> QED
    BY <2>1, <2>2, <2>5, <2>8
<1> QED
  BY <1>4, <1>5 DEF v

\* Events after a message is put on the wire.
LEMMA AddOrder ==
  ASSUME NEW w \in Seq(Messages), NEW v, NEW d \in Nat, NEW n \in Nat, d <= n,
         EventOrder(w, d, n), Len(v) = Len(w) + 1, \A i \in 1..Len(w) : v[i] = w[i]
  PROVE  /\ v[Len(w) + 1].kind = "reply" => EventOrder(v, d, n)
         /\ v[Len(w) + 1] = Event(n + 1) => EventOrder(v, d, n + 1)
<1>1. Len(w) \in Nat /\ \A i \in 1..Len(v) : i \in 1..Len(w) \/ i = Len(w) + 1
  OBVIOUS
<1>2. \A i \in 1..Len(w) : i \in 1..Len(v)
  BY <1>1
<1>3. ASSUME v[Len(w) + 1].kind = "reply" PROVE EventOrder(v, d, n)
  <2>1. \A i \in 1..Len(v) : v[i].kind = "event" => i \in 1..Len(w) /\ v[i] = w[i]
    BY <1>1, <1>3
  <2> QED
    BY <1>2, <2>1 DEF EventOrder
<1>4. ASSUME v[Len(w) + 1] = Event(n + 1) PROVE EventOrder(v, d, n + 1)
  <2>1. v[Len(w) + 1].kind = "event" /\ v[Len(w) + 1].cmd[2] = n + 1
    BY <1>4 DEF Event
  <2>2. \A i \in 1..Len(w) : v[i].kind = "event" =>
          v[i].cmd[2] \in (d + 1)..n
    BY DEF EventOrder
  <2>3. \A i \in 1..Len(v) : v[i].kind = "event" => v[i].cmd[2] \in (d + 1)..(n + 1)
    BY <1>1, <2>1, <2>2
  <2>4. ASSUME NEW i \in 1..Len(v), NEW j \in 1..Len(v), i < j, v[i].kind = "event",
               v[j].kind = "event"
        PROVE  v[i].cmd[2] < v[j].cmd[2]
    <3>1. i \in 1..Len(w)
      BY <1>1, <2>4
    <3>2. CASE j \in 1..Len(w)
      BY <2>4, <3>1, <3>2 DEF EventOrder
    <3>3. CASE j = Len(w) + 1
      BY <2>1, <2>2, <2>4, <3>1, <3>3
    <3> QED
      BY <1>1, <3>2, <3>3
  <2>5. ASSUME NEW x \in (d + 1)..(n + 1)
        PROVE  \E i \in 1..Len(v) : v[i].kind = "event" /\ v[i].cmd[2] = x
    <3>1. CASE x = n + 1
      BY <1>1, <2>1, <3>1
    <3>2. CASE x # n + 1
      <4>1. x \in (d + 1)..n
        BY <3>2
      <4>2. PICK i \in 1..Len(w) : w[i].kind = "event" /\ w[i].cmd[2] = x
        BY <4>1 DEF EventOrder
      <4> QED
        BY <1>2, <4>2
    <3> QED
      BY <3>1, <3>2
  <2> QED
    BY <2>3, <2>4, <2>5 DEF EventOrder
<1> QED
  BY <1>3, <1>4

\* Nothing is in an empty queue.
LEMMA EmptyStreams ==
  ASSUME NEW q, NEW w, NEW b, Apart(q, w, b)
  PROVE  /\ \A y : ~Queued(<<>>, y)
         /\ Apart(<<>>, w, b) /\ Apart(q, w, <<>>) /\ InboxOrder(q, w, <<>>)
         /\ <<>> \in Seq(Commands)
<1>1. Len(<<>>) = 0 /\ <<>> \in Seq(Commands)
  BY EmptySeq
<1>2. \A y : ~Queued(<<>>, y)
  BY <1>1 DEF Queued
<1>3. InboxOrder(q, w, <<>>)
  BY <1>1 DEF InboxOrder
<1>4. Apart(<<>>, w, b) /\ Apart(q, w, <<>>)
  BY <1>1 DEF Apart
<1> QED
  BY <1>1, <1>2, <1>3, <1>4

-----------------------------------------------------------------------------
(* Every action preserves the invariant.                                   *)

\* A caller takes the lock for a new command.
LEMMA AcquireStep ==
  ASSUME IInv, NEW c \in Callers, Acquire(c)
  PROVE  IInv'
<1> USE DEF callerVars, handlerVars, readerVars, qemuVars
<1>1. CallerTypes /\ Streams(syncCb, wire, inbox)
  BY Typing DEF IInv
<1>2. \A x \in Commands :
        /\ Issued(x, {"locked", "open"}) => Issued(x, {"locked", "open"})'
        /\ Issued(x, {"locked", "open", "queued"}) => Issued(x, {"locked", "open", "queued"})'
  BY <1>1 DEF Acquire, Issued, Commands, CallerTypes
<1>3. Sending' = Sending
  BY <1>1 DEF Acquire, Sending, Command, CallerTypes, IInv, Locked
<1>4. TypeOK'
  BY <1>1 DEF Acquire, TypeOK, IInv, CallerTypes, Messages
<1>5. Locked'
  BY <1>1 DEF Acquire, Locked, CallerTypes, IInv
<1>6. InTime'
  <2>1. syncCb' = syncCb /\ inbox' = inbox /\ wire' = wire
    BY DEF Acquire
  <2>2. InTime
    BY DEF IInv
  <2> QED
    BY <1>2, <2>1, <2>2 DEF InTime
<1>7. Paired'
  BY <1>3 DEF Acquire, Paired, Sending, Command, IInv
<1>8. Ended'
  BY DEF Acquire, Ended, Locked, CallerTypes, IInv
<1>9. Waiting'
  BY DEF Acquire, Waiting, Command, CallerTypes, IInv
<1>10. Pending'
  BY DEF Acquire, Pending, IInv
<1>11. Registered'
  BY DEF Acquire, Registered, HandlersHearEverything, HearsEverything, IInv
<1>12. AnswersOwnCommand'
  BY <1>1 DEF Acquire, AnswersOwnCommand, CallerTypes, IInv
<1>13. NoWaiterLeftBehind'
  BY DEF Acquire, NoWaiterLeftBehind, CallerTypes, IInv
<1> QED
  BY <1>4, <1>5, <1>6, <1>7, <1>8, <1>9, <1>10, <1>11, <1>12, <1>13 DEF IInv

\* It looks whether the monitor is closed,
LEMMA CheckClosedStep ==
  ASSUME IInv, NEW c \in Callers, CheckClosed(c)
  PROVE  IInv'
<1> USE DEF callerVars, handlerVars, readerVars, qemuVars
<1>1. CallerTypes /\ Streams(syncCb, wire, inbox)
  BY Typing DEF IInv
<1>2. \A x \in Commands :
        /\ Issued(x, {"locked", "open"}) => Issued(x, {"locked", "open"})'
        /\ Issued(x, {"locked", "open", "queued"}) => Issued(x, {"locked", "open", "queued"})'
  BY <1>1 DEF CheckClosed, Issued, Commands, CallerTypes
<1>3. Sending' = Sending
  BY <1>1 DEF CheckClosed, Sending, Command, CallerTypes, IInv, Locked
<1>4. TypeOK'
  BY DEF CheckClosed, TypeOK, IInv, CallerTypes, Messages
<1>5. Locked'
  BY <1>1 DEF CheckClosed, Locked, CallerTypes, IInv
<1>6. InTime'
  <2>1. syncCb' = syncCb /\ inbox' = inbox /\ wire' = wire
    BY DEF CheckClosed
  <2>2. InTime
    BY DEF IInv
  <2> QED
    BY <1>2, <2>1, <2>2 DEF InTime
<1>7. Paired'
  BY <1>3 DEF CheckClosed, Paired, Sending, Command, IInv
<1>8. Ended'
  BY <1>1 DEF CheckClosed, Ended, Locked, CallerTypes, IInv
<1>9. Waiting'
  BY <1>1, NotNone DEF CheckClosed, Waiting, Command, CallerTypes, IInv, NoWaiterLeftBehind
<1>10. Pending'
  BY DEF CheckClosed, Pending, IInv
<1>11. Registered'
  BY DEF CheckClosed, Registered, HandlersHearEverything, HearsEverything, IInv
<1>12. AnswersOwnCommand'
  BY <1>1 DEF CheckClosed, AnswersOwnCommand, CallerTypes, IInv
<1>13. NoWaiterLeftBehind'
  BY <1>1, NotNone DEF CheckClosed, NoWaiterLeftBehind, CallerTypes, IInv, Ended, Waiting, Locked
<1> QED
  BY <1>4, <1>5, <1>6, <1>7, <1>8, <1>9, <1>10, <1>11, <1>12, <1>13 DEF IInv

\* queues its callback,
LEMMA QueueStep ==
  ASSUME IInv, NEW c \in Callers, Queue(c)
  PROVE  IInv'
<1> USE DEF callerVars, handlerVars, readerVars, qemuVars
<1>1. CallerTypes /\ Streams(syncCb, wire, inbox)
  BY Typing DEF IInv
<1>2. /\ Command(c) \in Commands /\ ~Queued(inbox, Command(c)) /\ ~Answered(wire, Command(c))
      /\ ~Queued(syncCb, Command(c))
  <2>1. Command(c) \in Commands
    BY <1>1 DEF Queue, Command, Commands, CallerTypes, IInv, Locked
  <2>2. ~Issued(Command(c), {"locked", "open", "queued"}) /\ ~Issued(Command(c), {"locked", "open"})
    BY <1>1 DEF Queue, Issued, Command, CallerTypes
  <2> QED
    BY <2>1, <2>2 DEF IInv, InTime
<1>3. /\ syncCb' \in Seq(Commands)
      /\ Queued(syncCb', Command(c)) /\ \A y : Queued(syncCb, y) => Queued(syncCb', y)
      /\ \A y : Queued(syncCb', y) => y = Command(c) \/ Queued(syncCb, y)
      /\ Apart(syncCb', wire, inbox)
      /\ ~closed => WireOrder(syncCb', wire) /\ InboxOrder(syncCb', wire, inbox)
      /\ AllSent(syncCb, wire, inbox, {}) => AllSent(syncCb', wire, inbox, {Command(c)})
  <2>1. syncCb' = Append(syncCb, Command(c))
    BY DEF Queue, Command
  <2> QED
    BY <1>1, <1>2, <2>1, QueueStreams DEF IInv, Paired
<1>4. \A x \in Commands :
        /\ Issued(x, {"locked", "open"}) => Issued(x, {"locked", "open"})'
        /\ Issued(x, {"locked", "open", "queued"}) => Issued(x, {"locked", "open", "queued"})'
  BY <1>1 DEF Queue, Issued, Commands, CallerTypes
<1>5. Issued(Command(c), {"locked", "open"})'
  BY <1>1 DEF Queue, Issued, Command, CallerTypes
<1>6. Sending = {} /\ Sending' = {Command(c)} /\ Command(c)' = Command(c)
  BY <1>1 DEF Queue, Sending, Command, CallerTypes, IInv, Locked
<1>7. TypeOK'
  BY <1>3 DEF Queue, TypeOK, IInv, CallerTypes, Messages
<1>8. Locked'
  BY DEF Queue, Locked, CallerTypes, IInv
<1>9. InTime'
  <2>1. inbox' = inbox /\ wire' = wire
    BY DEF Queue
  <2>2. InTime
    BY DEF IInv
  <2>3. \A x \in Commands : x = Command(c) => Issued(x, {"locked", "open"})'
    BY <1>1 DEF Queue, Issued, Command, Commands, CallerTypes
  <2> QED
    BY <1>3, <1>4, <2>1, <2>2, <2>3 DEF InTime
<1>10. Paired'
  BY <1>3, <1>6 DEF Queue, Paired, Sending, Command, IInv
<1>11. Ended'
  BY DEF Queue, Ended, Locked, CallerTypes, IInv
<1>12. Waiting'
  BY <1>3, <1>4, <1>5, <1>6 DEF Queue, Waiting, Command, CallerTypes, IInv
<1>13. Pending'
  BY DEF Queue, Pending, IInv
<1>14. Registered'
  BY DEF Queue, Registered, HandlersHearEverything, HearsEverything, IInv
<1>15. AnswersOwnCommand'
  BY DEF Queue, AnswersOwnCommand, CallerTypes, IInv
<1>16. NoWaiterLeftBehind'
  BY DEF Queue, NoWaiterLeftBehind, CallerTypes, IInv
<1> QED
  BY <1>7, <1>8, <1>9, <1>10, <1>11, <1>12, <1>13, <1>14, <1>15, <1>16 DEF IInv

\* sends, or resolves every waiter,
LEMMA SendStep ==
  ASSUME IInv, NEW c \in Callers, Send(c)
  PROVE  IInv'
<1> USE DEF callerVars, handlerVars, readerVars, qemuVars
<1>1. CallerTypes /\ Streams(syncCb, wire, inbox)
  BY Typing DEF IInv
<1>2. /\ Command(c) \in Commands /\ ~Queued(inbox, Command(c)) /\ ~Answered(wire, Command(c))
  <2>1. Command(c) \in Commands
    BY <1>1 DEF Send, Command, Commands, CallerTypes, IInv, Locked
  <2>2. ~Issued(Command(c), {"locked", "open", "queued"})
    BY <1>1 DEF Send, Issued, Command, CallerTypes
  <2> QED
    BY <2>1, <2>2 DEF IInv, InTime
<1>3. Issued(Command(c), {"locked", "open", "queued"})'
  BY <1>1 DEF Send, Issued, Command, CallerTypes
<1>4. Sending = {Command(c)} /\ Sending' = {}
  BY <1>1 DEF Send, Sending, Command, CallerTypes, IInv, Locked
<1>5. peer = "up" =>
        /\ inbox' \in Seq(Commands)
        /\ \A y : Queued(inbox', y) => y = Command(c) \/ Queued(inbox, y)
        /\ syncCb' = syncCb /\ answer' = answer /\ asyncCb' = asyncCb /\ closed' = closed
  <2>1. peer = "up" => inbox' = Append(inbox, Command(c))
    BY DEF Send, Command
  <2> QED
    BY <1>1, <1>2, <2>1, SendStreams DEF Send
<1>6. peer = "down" =>
        /\ inbox' = inbox /\ inbox \in Seq(Commands) /\ syncCb' = <<>> /\ <<>> \in Seq(Commands)
        /\ closed' = TRUE /\ asyncCb' = {}
        /\ answer' \in [Callers -> Commands \cup {Lost, None}]
        /\ \A d \in Callers : answer'[d] \in {answer[d], Lost}
        /\ \A d \in Callers : pc[d] # "rest" /\ Queued(syncCb, Command(d)) => answer'[d] # None
        /\ \A y : ~Queued(syncCb', y)
  BY <1>1, Drained, EmptyStreams DEF Send, Streams, IInv, Paired
<1>7. peer \in {"up", "down"} /\ wire' = wire /\ peer' = peer
  BY DEF Send, IInv, TypeOK
<1>8. TypeOK'
  BY <1>5, <1>6 DEF Send, TypeOK, IInv, CallerTypes, Messages
<1>9. Locked'
  BY <1>1 DEF Send, Locked, CallerTypes, IInv
<1>10. InTime'
  BY <1>3, <1>5, <1>6 DEF Send, InTime, IInv, Issued, Command, Commands
<1>11. Paired'
  <2>1. CASE peer = "down"
    BY <1>6, <1>7, <2>1, EmptyStreams DEF IInv, Paired
  <2>2. CASE peer = "up"
    <3>1. inbox' = Append(inbox, Command(c))
      BY <2>2 DEF Send, Command
    <3>2. ~closed => Queued(syncCb, Command(c))
      <4>1. pc[c] = "queued"
        BY DEF Send
      <4> QED
        BY <4>1 DEF IInv, Paired
    <3>3. Apart(syncCb, wire, inbox) /\ Apart(syncCb, wire, inbox')
      BY <1>1, <1>2, <3>1, SendStreams DEF IInv, Paired
    <3>4. ~closed => AllSent(syncCb, wire, inbox', {}) /\ InboxOrder(syncCb, wire, inbox')
      BY <1>1, <1>2, <1>4, <2>2, <3>1, <3>2, <3>3, SendStreams DEF IInv, Paired
    <3>5. \A d \in Callers : pc'[d] # "queued"
      BY <1>1 DEF Send, CallerTypes, IInv, Locked
    <3> QED
      BY <1>4, <1>5, <1>7, <2>2, <3>3, <3>4, <3>5 DEF IInv, Paired
  <2> QED
    BY <1>7, <2>1, <2>2
<1>12. Ended'
  BY <1>1, <1>6 DEF Send, Ended, Locked, CallerTypes, IInv
<1>13. Waiting'
  BY <1>6, NotNone DEF Send, Waiting, Command, CallerTypes, IInv, NoWaiterLeftBehind
<1>14. Pending'
  BY DEF Send, Pending, IInv
<1>15. Registered'
  BY <1>6 DEF Send, Registered, HandlersHearEverything, HearsEverything, IInv
<1>16. AnswersOwnCommand'
  BY <1>6 DEF Send, AnswersOwnCommand, CallerTypes, IInv
<1>17. NoWaiterLeftBehind'
  BY <1>6, <1>7, NotNone DEF Send, NoWaiterLeftBehind, CallerTypes, IInv, Ended, Waiting, Locked
<1> QED
  BY <1>8, <1>9, <1>10, <1>11, <1>12, <1>13, <1>14, <1>15, <1>16, <1>17 DEF IInv

\* and returns.
LEMMA ReturnStep ==
  ASSUME IInv, NEW c \in Callers, Return(c)
  PROVE  IInv'
<1> USE DEF callerVars, handlerVars, readerVars, qemuVars
<1>1. CallerTypes /\ Streams(syncCb, wire, inbox)
  BY Typing DEF IInv
<1>2. \A x \in Commands :
        /\ Issued(x, {"locked", "open"}) => Issued(x, {"locked", "open"})'
        /\ Issued(x, {"locked", "open", "queued"}) => Issued(x, {"locked", "open", "queued"})'
  BY <1>1 DEF Return, Issued, Commands, CallerTypes
<1>3. TypeOK'
  BY DEF Return, TypeOK, IInv, CallerTypes, Messages
<1>4. Locked'
  BY DEF Return, Locked, CallerTypes, IInv
<1>5. InTime'
  <2>1. syncCb' = syncCb /\ inbox' = inbox /\ wire' = wire
    BY DEF Return
  <2>2. InTime
    BY DEF IInv
  <2> QED
    BY <1>2, <2>1, <2>2 DEF InTime
<1>6. Paired'
  BY DEF Return, Paired, Sending, Command, IInv
<1>7. Ended'
  BY DEF Return, Ended, Locked, CallerTypes, IInv
<1>8. Waiting'
  BY DEF Return, Waiting, Command, CallerTypes, IInv
<1>9. Pending'
  BY DEF Return, Pending, IInv
<1>10. Registered'
  BY DEF Return, Registered, HandlersHearEverything, HearsEverything, IInv
<1>11. AnswersOwnCommand'
  BY DEF Return, AnswersOwnCommand, CallerTypes, IInv
<1>12. NoWaiterLeftBehind'
  BY DEF Return, NoWaiterLeftBehind, CallerTypes, IInv
<1> QED
  BY <1>3, <1>4, <1>5, <1>6, <1>7, <1>8, <1>9, <1>10, <1>11, <1>12 DEF IInv

\* A handler is registered.
LEMMA AddHandlerStep ==
  ASSUME IInv, NEW h \in Handlers, AddHandler(h)
  PROVE  IInv'
<1> USE DEF callerVars, handlerVars, readerVars, qemuVars
<1>1. TypeOK'
  BY DEF AddHandler, TypeOK, IInv, CallerTypes, Messages
<1>2. Locked'
  BY DEF AddHandler, Locked, CallerTypes, IInv
<1>3. InTime'
  BY DEF AddHandler, InTime, IInv, Issued
<1>4. Paired'
  BY DEF AddHandler, Paired, Sending, Command, IInv
<1>5. Ended'
  BY DEF AddHandler, Ended, Locked, CallerTypes, IInv
<1>6. Waiting'
  BY DEF AddHandler, Waiting, Command, CallerTypes, IInv
<1>7. Pending'
  BY DEF AddHandler, Pending, IInv
<1>8. Registered'
  <2>1. /\ dispatched \in Nat /\ None \notin Nat /\ kept \subseteq Handlers
        /\ since \in [Handlers -> 0..MaxEvents \cup {None}] /\ MaxEvents \in Nat
    BY MonitorAssumption DEF IInv, TypeOK
  <2>2. /\ since' = [since EXCEPT ![h] = dispatched] /\ asyncCb' = asyncCb \cup {h}
        /\ heard' = heard /\ kept' = kept /\ dispatched' = dispatched /\ closed' = closed
        /\ reader' = reader /\ since[h] = None
        /\ late \subseteq late' /\ (reader = "store" => h \in late')
    BY DEF AddHandler
  <2>3. /\ since'[h] = dispatched /\ since'[h] # None
        /\ \A g \in Handlers : g # h => since'[g] = since[g]
    BY <2>1, <2>2
  <2>4. heard[h] = [i \in 1..(dispatched - dispatched) |-> dispatched + i]
    BY <2>1, <2>2 DEF IInv, Registered
  <2>5. HandlersHearEverything'
    BY <2>2, <2>3, <2>4 DEF IInv, Registered, HandlersHearEverything, HearsEverything
  <2> QED
    BY <2>1, <2>2, <2>3, <2>5 DEF IInv, Registered
<1>9. AnswersOwnCommand'
  BY DEF AddHandler, AnswersOwnCommand, CallerTypes, IInv
<1>10. NoWaiterLeftBehind'
  BY DEF AddHandler, NoWaiterLeftBehind, CallerTypes, IInv
<1> QED
  BY <1>1, <1>2, <1>3, <1>4, <1>5, <1>6, <1>7, <1>8, <1>9, <1>10 DEF IInv

\* The owner closes the monitor.
LEMMA CloseStep ==
  ASSUME IInv, Close
  PROVE  IInv'
<1> USE DEF callerVars, handlerVars, readerVars, qemuVars
<1>1. CallerTypes /\ Streams(syncCb, wire, inbox)
  BY Typing DEF IInv
<1>2. /\ syncCb' = <<>> /\ <<>> \in Seq(Commands) /\ asyncCb' = {}
      /\ answer' \in [Callers -> Commands \cup {Lost, None}]
      /\ \A c \in Callers : answer'[c] \in {answer[c], Lost}
      /\ \A c \in Callers : pc[c] # "rest" /\ Queued(syncCb, Command(c)) => answer'[c] # None
      /\ \A y : ~Queued(syncCb', y)
      /\ Apart(syncCb', wire, inbox)
  BY <1>1, Drained, EmptyStreams DEF Close, IInv, Paired
<1>3. TypeOK'
  BY <1>2 DEF Close, TypeOK, IInv, CallerTypes, Messages
<1>4. Locked'
  BY DEF Close, Locked, CallerTypes, IInv
<1>5. InTime'
  BY <1>2 DEF Close, InTime, IInv, Issued
<1>6. Paired'
  BY <1>2 DEF Close, Paired, Sending, Command, IInv
<1>7. Ended'
  BY DEF Close, Ended, Locked, CallerTypes, IInv
<1>8. Waiting'
  BY DEF Close, Waiting, Command, CallerTypes, IInv
<1>9. Pending'
  BY DEF Close, Pending, IInv
<1>10. Registered'
  BY <1>2 DEF Close, Registered, HandlersHearEverything, HearsEverything, IInv
<1>11. AnswersOwnCommand'
  BY <1>2 DEF Close, AnswersOwnCommand, CallerTypes, IInv
<1>12. NoWaiterLeftBehind'
  BY DEF Close, NoWaiterLeftBehind, CallerTypes, IInv
<1> QED
  BY <1>3, <1>4, <1>5, <1>6, <1>7, <1>8, <1>9, <1>10, <1>11, <1>12 DEF IInv

\* The reader dispatches a reply,
LEMMA DispatchReplyStep ==
  ASSUME IInv, DispatchReply
  PROVE  IInv'
<1> USE DEF callerVars, handlerVars, readerVars, qemuVars
<1>1. CallerTypes /\ Streams(syncCb, wire, inbox)
  BY Typing DEF IInv
<1>2. /\ wire' = Tail(wire) /\ wire' \in Seq(Messages)
      /\ \A y : Answered(wire', y) => Answered(wire, y)
      /\ Apart(syncCb, wire', inbox)
  BY <1>1, TailApart DEF DispatchReply, IInv, Paired
<1>3. ~closed => /\ syncCb # <<>> /\ Head(syncCb) = wire[1].cmd /\ wire[1].cmd \in Commands
                 /\ syncCb' = Tail(syncCb) /\ syncCb' \in Seq(Commands)
                 /\ Deliver({wire[1].cmd}, wire[1].cmd)
                 /\ \A y : Queued(syncCb, y) => y = wire[1].cmd \/ Queued(syncCb', y)
                 /\ \A y : Queued(syncCb', y) => Queued(syncCb, y)
                 /\ Apart(syncCb', wire', inbox)
                 /\ WireOrder(syncCb', wire') /\ InboxOrder(syncCb', wire', inbox)
                 /\ \A e : AllSent(syncCb, wire, inbox, e) => AllSent(syncCb', wire', inbox, e)
  <2> SUFFICES ASSUME ~closed
      PROVE  /\ syncCb # <<>> /\ Head(syncCb) = wire[1].cmd /\ wire[1].cmd \in Commands
             /\ syncCb' = Tail(syncCb) /\ syncCb' \in Seq(Commands)
             /\ Deliver({wire[1].cmd}, wire[1].cmd)
             /\ \A y : Queued(syncCb, y) => y = wire[1].cmd \/ Queued(syncCb', y)
             /\ \A y : Queued(syncCb', y) => Queued(syncCb, y)
             /\ Apart(syncCb', wire', inbox)
             /\ WireOrder(syncCb', wire') /\ InboxOrder(syncCb', wire', inbox)
             /\ \A e : AllSent(syncCb, wire, inbox, e) => AllSent(syncCb', wire', inbox, e)
    OBVIOUS
  <2>1. /\ Apart(syncCb, wire, inbox) /\ WireOrder(syncCb, wire) /\ InboxOrder(syncCb, wire, inbox)
        /\ wire # <<>> /\ wire[1].kind = "reply"
    BY DEF DispatchReply, IInv, Paired
  <2>2. /\ syncCb # <<>> /\ syncCb[1] = wire[1].cmd
        /\ Tail(syncCb) \in Seq(Commands)
        /\ \A y : Queued(syncCb, y) => y = syncCb[1] \/ Queued(Tail(syncCb), y)
        /\ \A y : Queued(Tail(syncCb), y) => Queued(syncCb, y)
        /\ WireOrder(Tail(syncCb), Tail(wire)) /\ InboxOrder(Tail(syncCb), Tail(wire), inbox)
        /\ \A e : AllSent(syncCb, wire, inbox, e) => AllSent(Tail(syncCb), Tail(wire), inbox, e)
    BY <1>1, <2>1, DispatchStreams
  <2>3. Apart(Tail(syncCb), Tail(wire), inbox)
    BY <1>1, <2>1, <2>2, TailApart
  <2>4. Head(syncCb) = syncCb[1] /\ syncCb[1] \in Commands
    BY <1>1, <2>2 DEF Streams
  <2>5. syncCb' = Tail(syncCb) /\ Deliver({Head(syncCb)}, wire[1].cmd)
    BY <2>2 DEF DispatchReply
  <2> QED
    BY <1>2, <2>2, <2>3, <2>4, <2>5
<1>4. closed => syncCb' = syncCb /\ answer' = answer
  BY DEF DispatchReply, IInv, Ended
<1>5. answer' \in [Callers -> Commands \cup {Lost, None}]
  BY <1>1, <1>3, <1>4 DEF Deliver, CallerTypes
<1>6. EventOrder(wire', dispatched, events)
  BY <1>1, <1>2, TakeOrder DEF DispatchReply, IInv, TypeOK, Pending, Streams
<1>7. Sending' = Sending
  BY DEF DispatchReply, Sending, Command
<1>8. TypeOK'
  BY <1>3, <1>4, <1>5 DEF DispatchReply, TypeOK, IInv, CallerTypes, Messages
<1>9. Locked'
  BY DEF DispatchReply, Locked, CallerTypes, IInv
<1>10. InTime'
  BY <1>2, <1>3, <1>4 DEF DispatchReply, InTime, IInv, Issued
<1>11. Paired'
  <2>1. CASE closed
    BY <1>2, <1>4, <1>7, <2>1 DEF DispatchReply, IInv, Paired
  <2>2. CASE ~closed
    <3>1. \A c \in Callers : pc[c] = "queued" => Queued(syncCb', Command(c))
      <4>1. \A c \in Callers : pc[c] = "queued" => Command(c) # wire[1].cmd
        <5>1. Answered(wire, wire[1].cmd)
          BY <1>1 DEF DispatchReply, Answered, Answers, Streams
        <5>2. Issued(wire[1].cmd, {"locked", "open", "queued"})
          BY <1>3, <2>2, <5>1 DEF IInv, InTime
        <5> QED
          BY <1>1, <5>2 DEF Issued, Command, CallerTypes
      <4> QED
        BY <1>3, <2>2, <4>1 DEF IInv, Paired
    <3> QED
      BY <1>3, <1>7, <2>2, <3>1 DEF DispatchReply, IInv, Paired, Command
  <2> QED
    BY <2>1, <2>2
<1>12. Ended'
  BY DEF DispatchReply, Ended, Locked, CallerTypes, IInv
<1>13. Waiting'
  <2>1. CASE closed
    BY <1>4, <2>1 DEF DispatchReply, IInv, Waiting, Command
  <2>2. CASE ~closed
    <3>1. SUFFICES ASSUME NEW c \in Callers, pc[c] \in {"queued", "wait"}, answer'[c] = None
          PROVE  Queued(syncCb', Command(c))
      BY DEF DispatchReply, Waiting, Command
    <3>2. /\ answer'[c] = IF Command(c) = wire[1].cmd /\ pc[c] # "rest" /\ answer[c] = None
                          THEN wire[1].cmd ELSE answer[c]
          /\ wire[1].cmd # None
      BY <1>3, <2>2, NotNone DEF Deliver, Command
    <3>3. answer[c] = None /\ Command(c) # wire[1].cmd
      BY <3>1, <3>2
    <3> QED
      BY <1>3, <2>2, <3>1, <3>3 DEF IInv, Waiting
  <2> QED
    BY <2>1, <2>2
<1>14. Pending'
  BY <1>6 DEF DispatchReply, Pending, IInv
<1>15. Registered'
  BY DEF DispatchReply, Registered, HandlersHearEverything, HearsEverything, IInv
<1>16. AnswersOwnCommand'
  BY <1>3, <1>4 DEF DispatchReply, AnswersOwnCommand, CallerTypes, IInv, Deliver
<1>17. NoWaiterLeftBehind'
  BY DEF DispatchReply, NoWaiterLeftBehind, CallerTypes, IInv
<1> QED
  BY <1>8, <1>9, <1>10, <1>11, <1>12, <1>13, <1>14, <1>15, <1>16, <1>17 DEF IInv

\* or an event,
LEMMA DispatchEventStep ==
  ASSUME IInv, DispatchEvent
  PROVE  IInv'
<1> USE DEF callerVars, handlerVars, readerVars, qemuVars
<1>1. CallerTypes /\ Streams(syncCb, wire, inbox)
  BY Typing DEF IInv
<1>2. /\ wire' = Tail(wire) /\ wire' \in Seq(Messages)
      /\ \A y : Answered(wire', y) => Answered(wire, y)
      /\ Apart(syncCb, wire', inbox)
  BY <1>1, TailApart DEF DispatchEvent, IInv, Paired
<1>3. /\ WireOrder(syncCb, wire) => WireOrder(syncCb, wire')
      /\ InboxOrder(syncCb, wire, inbox) => InboxOrder(syncCb, wire', inbox)
      /\ \A e : AllSent(syncCb, wire, inbox, e) => AllSent(syncCb, wire', inbox, e)
  BY <1>1, <1>2, EventStreams DEF DispatchEvent
<1>4. /\ wire[1].cmd[2] = dispatched + 1 /\ dispatched + 1 <= events
      /\ EventOrder(wire', dispatched + 1, events)
  BY <1>1, <1>2, TakeOrder DEF DispatchEvent, IInv, TypeOK, Pending, Streams
<1>5. /\ dispatched \in Nat /\ dispatched + 1 \in 1..MaxEvents /\ dispatched' = dispatched + 1
      /\ heard \in [Handlers -> Seq(1..MaxEvents)]
      /\ heard' = [h \in Handlers |-> IF h \in asyncCb THEN Append(heard[h], dispatched + 1)
                                                      ELSE heard[h]]
  BY <1>4, MonitorAssumption DEF DispatchEvent, IInv, TypeOK
<1>6. heard' \in [Handlers -> Seq(1..MaxEvents)]
  <2>1. \A h \in Handlers : Append(heard[h], dispatched + 1) \in Seq(1..MaxEvents)
    BY <1>5
  <2> QED
    BY <1>5, <2>1
<1>7. TypeOK'
  BY <1>5, <1>6 DEF DispatchEvent, TypeOK, IInv, CallerTypes, Messages
<1>8. Locked'
  BY DEF DispatchEvent, Locked, CallerTypes, IInv
<1>9. InTime'
  BY <1>2 DEF DispatchEvent, InTime, IInv, Issued
<1>10. Paired'
  BY <1>2, <1>3 DEF DispatchEvent, Paired, Sending, Command, IInv
<1>11. Ended'
  BY DEF DispatchEvent, Ended, Locked, CallerTypes, IInv
<1>12. Waiting'
  BY DEF DispatchEvent, Waiting, Command, CallerTypes, IInv
<1>13. Pending'
  BY <1>4 DEF DispatchEvent, Pending, IInv
<1>14. Registered'
  <2>1. /\ None \notin Nat /\ MaxEvents \in Nat /\ asyncCb \subseteq Handlers
        /\ since \in [Handlers -> 0..MaxEvents \cup {None}]
    BY MonitorAssumption DEF IInv, TypeOK
  <2>2. /\ since' = since /\ asyncCb' = asyncCb /\ kept' = asyncCb /\ closed' = closed
        /\ late' = late
        /\ reader' = "store"
    BY DEF DispatchEvent
  <2>3. \A h \in Handlers : since[h] = None => heard'[h] = <<>> /\ h \notin asyncCb
    BY <1>5 DEF IInv, Registered
  <2>4. \A h \in Handlers : since[h] # None => since[h] \in Nat /\ since[h] <= dispatched
    BY <2>1 DEF IInv, Registered
  <2>5. ASSUME NEW h \in Handlers \ late, ~closed, since[h] # None
        PROVE  heard'[h] = [i \in 1..((dispatched + 1) - since[h]) |-> since[h] + i]
    <3>1. h \in asyncCb /\ heard[h] = [i \in 1..(dispatched - since[h]) |-> since[h] + i]
      BY <2>5 DEF IInv, Registered, HandlersHearEverything, HearsEverything
    <3>2. heard'[h] = Append(heard[h], dispatched + 1) /\ heard[h] \in Seq(1..MaxEvents)
      BY <1>5, <3>1
    <3>3. dispatched - since[h] \in Nat /\ Len(heard[h]) = dispatched - since[h]
      BY <1>5, <2>4, <2>5, <3>1, <3>2
    <3>4. (dispatched + 1) - since[h] = (dispatched - since[h]) + 1
      BY <1>5, <2>4, <2>5
    <3>5. /\ heard'[h] \in Seq(1..MaxEvents) /\ Len(heard'[h]) = (dispatched - since[h]) + 1
          /\ \A i \in 1..(dispatched - since[h]) : heard'[h][i] = heard[h][i]
          /\ heard'[h][(dispatched - since[h]) + 1] = dispatched + 1
      <4>1. heard'[h] \in Seq(1..MaxEvents)
        BY <1>6
      <4> QED
        BY <1>5, <3>2, <3>3, <4>1
    <3>6. \A i \in 1..((dispatched - since[h]) + 1) : heard'[h][i] = since[h] + i
      BY <1>5, <2>4, <2>5, <3>1, <3>3, <3>5
    <3>7. heard'[h] = [i \in 1..((dispatched - since[h]) + 1) |-> heard'[h][i]]
      BY <3>5, LenProperties
    <3> QED
      BY <3>4, <3>6, <3>7
  <2>6. HandlersHearEverything'
    BY <1>5, <2>2, <2>5 DEF HandlersHearEverything, HearsEverything
  <2> QED
    BY <1>5, <2>2, <2>3, <2>4, <2>6 DEF IInv, Registered
<1>15. AnswersOwnCommand'
  BY DEF DispatchEvent, AnswersOwnCommand, CallerTypes, IInv
<1>16. NoWaiterLeftBehind'
  BY DEF DispatchEvent, NoWaiterLeftBehind, CallerTypes, IInv
<1> QED
  BY <1>7, <1>8, <1>9, <1>10, <1>11, <1>12, <1>13, <1>14, <1>15, <1>16 DEF IInv

\* stores the handlers that remain,
LEMMA StoreHandlersStep ==
  ASSUME IInv, StoreHandlers
  PROVE  IInv'
<1> USE DEF callerVars, handlerVars, readerVars, qemuVars
<1>1. TypeOK'
  BY DEF StoreHandlers, TypeOK, IInv, CallerTypes, Messages
<1>2. Locked'
  BY DEF StoreHandlers, Locked, CallerTypes, IInv
<1>3. InTime'
  BY DEF StoreHandlers, InTime, IInv, Issued
<1>4. Paired'
  BY DEF StoreHandlers, Paired, Sending, Command, IInv
<1>5. Ended'
  BY DEF StoreHandlers, Ended, Locked, CallerTypes, IInv
<1>6. Waiting'
  BY DEF StoreHandlers, Waiting, Command, CallerTypes, IInv
<1>7. Pending'
  BY DEF StoreHandlers, Pending, IInv
<1>8. Registered'
  BY DEF StoreHandlers, Registered, HandlersHearEverything, HearsEverything, IInv
<1>9. AnswersOwnCommand'
  BY DEF StoreHandlers, AnswersOwnCommand, CallerTypes, IInv
<1>10. NoWaiterLeftBehind'
  BY DEF StoreHandlers, NoWaiterLeftBehind, CallerTypes, IInv
<1> QED
  BY <1>1, <1>2, <1>3, <1>4, <1>5, <1>6, <1>7, <1>8, <1>9, <1>10 DEF IInv

\* and ends.
LEMMA ReadEofStep ==
  ASSUME IInv, ReadEof
  PROVE  IInv'
<1> USE DEF callerVars, handlerVars, readerVars, qemuVars
<1>1. CallerTypes /\ Streams(syncCb, wire, inbox)
  BY Typing DEF IInv
<1>2. /\ syncCb' = <<>> /\ <<>> \in Seq(Commands) /\ asyncCb' = {}
      /\ answer' \in [Callers -> Commands \cup {Lost, None}]
      /\ \A c \in Callers : answer'[c] \in {answer[c], Lost}
      /\ \A c \in Callers : pc[c] # "rest" /\ Queued(syncCb, Command(c)) => answer'[c] # None
      /\ \A y : ~Queued(syncCb', y)
      /\ Apart(syncCb', wire, inbox)
  BY <1>1, Drained, EmptyStreams DEF ReadEof, IInv, Paired
<1>3. TypeOK'
  BY <1>2 DEF ReadEof, TypeOK, IInv, CallerTypes, Messages
<1>4. Locked'
  BY DEF ReadEof, Locked, CallerTypes, IInv
<1>5. InTime'
  BY <1>2 DEF ReadEof, InTime, IInv, Issued
<1>6. Paired'
  BY <1>2 DEF ReadEof, Paired, Sending, Command, IInv
<1>7. Ended'
  BY DEF ReadEof, Ended, Locked, CallerTypes, IInv
<1>8. Waiting'
  BY <1>2, NotNone DEF ReadEof, Waiting, Command, CallerTypes, IInv, NoWaiterLeftBehind
<1>9. Pending'
  BY DEF ReadEof, Pending, IInv
<1>10. Registered'
  BY <1>2 DEF ReadEof, Registered, HandlersHearEverything, HearsEverything, IInv
<1>11. AnswersOwnCommand'
  BY <1>2 DEF ReadEof, AnswersOwnCommand, CallerTypes, IInv
<1>12. NoWaiterLeftBehind'
  BY <1>2, NotNone DEF ReadEof, NoWaiterLeftBehind, CallerTypes, IInv, Ended, Waiting, Locked
<1> QED
  BY <1>3, <1>4, <1>5, <1>6, <1>7, <1>8, <1>9, <1>10, <1>11, <1>12 DEF IInv

\* QEMU answers,
LEMMA QemuRepliesStep ==
  ASSUME IInv, QemuReplies
  PROVE  IInv'
<1> USE DEF callerVars, handlerVars, readerVars, qemuVars
<1>1. CallerTypes /\ Streams(syncCb, wire, inbox)
  BY Typing DEF IInv
<1>2. /\ inbox # <<>> /\ Len(inbox) \in Nat \ {0} /\ inbox' \in Seq(Commands)
      /\ Len(inbox') = Len(inbox) - 1 /\ \A i \in 1..Len(inbox') : inbox'[i] = inbox[i + 1]
      /\ Head(inbox) = inbox[1] /\ inbox[1] \in Commands /\ Reply(inbox[1]) \in Messages
  BY <1>1 DEF QemuReplies, Streams, Reply, Messages
<1>3. /\ wire' \in Seq(Messages) /\ Len(wire') = Len(wire) + 1
      /\ \A i \in 1..Len(wire) : wire'[i] = wire[i]
      /\ wire'[Len(wire) + 1] = Reply(inbox[1])
  BY <1>1, <1>2 DEF QemuReplies, Streams
<1>4. /\ Queued(inbox, inbox[1]) /\ \A y : Queued(inbox', y) => Queued(inbox, y)
      /\ \A y : Answered(wire', y) => Answered(wire, y) \/ y = inbox[1]
      /\ Apart(syncCb, wire, inbox) => Apart(syncCb, wire', inbox')
      /\ WireOrder(syncCb, wire) /\ InboxOrder(syncCb, wire, inbox)
         => WireOrder(syncCb, wire') /\ InboxOrder(syncCb, wire', inbox')
      /\ \A e : AllSent(syncCb, wire, inbox, e) => AllSent(syncCb, wire', inbox', e)
  <2>1. Streams(syncCb, wire, inbox)
    BY <1>1
  <2>2. /\ inbox # <<>> /\ inbox' \in Seq(Commands) /\ Len(inbox') = Len(inbox) - 1
        /\ \A i \in 1..Len(inbox') : inbox'[i] = inbox[i + 1]
    BY <1>2
  <2> QED
    BY <1>3, <2>1, <2>2, ReplyStreams, SMTT(30)
<1>5. EventOrder(wire', dispatched, events)
  <2>1. /\ dispatched \in Nat /\ events \in Nat /\ dispatched <= events
        /\ EventOrder(wire, dispatched, events)
    BY DEF IInv, TypeOK, Pending
  <2>2. wire'[Len(wire) + 1].kind = "reply"
    BY <1>3 DEF Reply
  <2> QED
    BY <1>1, <1>3, <2>1, <2>2, AddOrder DEF Streams
<1>6. TypeOK'
  BY <1>3 DEF QemuReplies, TypeOK, IInv, CallerTypes, Messages
<1>7. Locked'
  BY DEF QemuReplies, Locked, CallerTypes, IInv
<1>8. InTime'
  BY <1>4 DEF QemuReplies, InTime, IInv, Issued
<1>9. Paired'
  BY <1>4 DEF QemuReplies, Paired, Sending, Command, IInv
<1>10. Ended'
  BY DEF QemuReplies, Ended, Locked, CallerTypes, IInv
<1>11. Waiting'
  BY DEF QemuReplies, Waiting, Command, CallerTypes, IInv
<1>12. Pending'
  BY <1>5 DEF QemuReplies, Pending, IInv
<1>13. Registered'
  BY DEF QemuReplies, Registered, HandlersHearEverything, HearsEverything, IInv
<1>14. AnswersOwnCommand'
  BY DEF QemuReplies, AnswersOwnCommand, CallerTypes, IInv
<1>15. NoWaiterLeftBehind'
  BY DEF QemuReplies, NoWaiterLeftBehind, CallerTypes, IInv
<1> QED
  BY <1>6, <1>7, <1>8, <1>9, <1>10, <1>11, <1>12, <1>13, <1>14, <1>15 DEF IInv

\* sends an event,
LEMMA QemuEventStep ==
  ASSUME IInv, QemuEvent
  PROVE  IInv'
<1> USE DEF callerVars, handlerVars, readerVars, qemuVars
<1>1. CallerTypes /\ Streams(syncCb, wire, inbox)
  BY Typing DEF IInv
<1>2. /\ events \in Nat /\ dispatched \in Nat /\ events + 1 \in 1..MaxEvents
      /\ Event(events + 1) \in Messages /\ Event(events + 1).kind = "event"
  BY MonitorAssumption DEF QemuEvent, IInv, TypeOK, Messages, Event
<1>3. /\ wire' \in Seq(Messages) /\ Len(wire') = Len(wire) + 1
      /\ \A i \in 1..Len(wire) : wire'[i] = wire[i]
      /\ wire'[Len(wire) + 1] = Event(events + 1)
  BY <1>1, <1>2 DEF QemuEvent, Streams
<1>4. /\ \A y : Answered(wire', y) => Answered(wire, y)
      /\ Apart(syncCb, wire, inbox) => Apart(syncCb, wire', inbox)
      /\ WireOrder(syncCb, wire) => WireOrder(syncCb, wire')
      /\ InboxOrder(syncCb, wire, inbox) => InboxOrder(syncCb, wire', inbox)
      /\ \A e : AllSent(syncCb, wire, inbox, e) => AllSent(syncCb, wire', inbox, e)
  BY <1>1, <1>2, <1>3, AddEventStreams
<1>5. EventOrder(wire', dispatched, events + 1)
  BY <1>1, <1>2, <1>3, AddOrder DEF IInv, Pending, Streams
<1>6. TypeOK'
  BY <1>2 DEF QemuEvent, TypeOK, IInv, CallerTypes, Messages
<1>7. Locked'
  BY DEF QemuEvent, Locked, CallerTypes, IInv
<1>8. InTime'
  BY <1>4 DEF QemuEvent, InTime, IInv, Issued
<1>9. Paired'
  BY <1>4 DEF QemuEvent, Paired, Sending, Command, IInv
<1>10. Ended'
  BY DEF QemuEvent, Ended, Locked, CallerTypes, IInv
<1>11. Waiting'
  BY DEF QemuEvent, Waiting, Command, CallerTypes, IInv
<1>12. Pending'
  BY <1>2, <1>5 DEF QemuEvent, Pending, IInv
<1>13. Registered'
  BY DEF QemuEvent, Registered, HandlersHearEverything, HearsEverything, IInv
<1>14. AnswersOwnCommand'
  BY DEF QemuEvent, AnswersOwnCommand, CallerTypes, IInv
<1>15. NoWaiterLeftBehind'
  BY DEF QemuEvent, NoWaiterLeftBehind, CallerTypes, IInv
<1> QED
  BY <1>6, <1>7, <1>8, <1>9, <1>10, <1>11, <1>12, <1>13, <1>14, <1>15 DEF IInv

\* and exits.
LEMMA QemuClosesStep ==
  ASSUME IInv, QemuCloses
  PROVE  IInv'
<1> USE DEF callerVars, handlerVars, readerVars, qemuVars
<1>1. /\ inbox' = <<>> /\ inbox' \in Seq(Commands) /\ \A y : ~Queued(inbox', y)
      /\ Apart(syncCb, wire, inbox') /\ InboxOrder(syncCb, wire, inbox')
  BY EmptyStreams DEF QemuCloses, IInv, Paired
<1>2. TypeOK'
  BY DEF QemuCloses, TypeOK, IInv, CallerTypes, Messages
<1>3. Locked'
  BY DEF QemuCloses, Locked, CallerTypes, IInv
<1>4. InTime'
  BY <1>1 DEF QemuCloses, InTime, IInv, Issued
<1>5. Paired'
  BY <1>1 DEF QemuCloses, Paired, Sending, Command, IInv
<1>6. Ended'
  BY DEF QemuCloses, Ended, Locked, CallerTypes, IInv
<1>7. Waiting'
  BY DEF QemuCloses, Waiting, Command, CallerTypes, IInv
<1>8. Pending'
  BY DEF QemuCloses, Pending, IInv
<1>9. Registered'
  BY DEF QemuCloses, Registered, HandlersHearEverything, HearsEverything, IInv
<1>10. AnswersOwnCommand'
  BY DEF QemuCloses, AnswersOwnCommand, CallerTypes, IInv
<1>11. NoWaiterLeftBehind'
  BY DEF QemuCloses, NoWaiterLeftBehind, CallerTypes, IInv
<1> QED
  BY <1>2, <1>3, <1>4, <1>5, <1>6, <1>7, <1>8, <1>9, <1>10, <1>11 DEF IInv

LEMMA NextIInv == IInv /\ [Next]_vars => IInv'
<1> SUFFICES ASSUME IInv, [Next]_vars PROVE IInv'
  OBVIOUS
<1>1. CASE UNCHANGED vars
  BY <1>1 DEF vars, callerVars, handlerVars, readerVars, qemuVars, IInv, TypeOK, Locked,
              InTime, Issued, Paired, Sending, Ended, Waiting, Command, Pending, Registered,
              HandlersHearEverything, HearsEverything, AnswersOwnCommand, NoWaiterLeftBehind
<1>2. CASE Next
  BY <1>2, AcquireStep, CheckClosedStep, QueueStep, SendStep, ReturnStep, AddHandlerStep,
     CloseStep, DispatchReplyStep, DispatchEventStep, StoreHandlersStep, ReadEofStep,
     QemuRepliesStep, QemuEventStep, QemuClosesStep DEF Next, Exec, Reader, Qemu
<1> QED
  BY <1>1, <1>2

LEMMA IInvAlways == Spec => []IInv
<1>1. Init => IInv
  BY InitIInv
<1>2. IInv /\ [Next]_vars => IInv'
  BY NextIInv
<1> QED
  BY <1>1, <1>2, PTL DEF Spec

-----------------------------------------------------------------------------

\* The variables keep their types.
THEOREM TypeCorrect == Spec => []TypeOK
<1>1. IInv => TypeOK
  BY DEF IInv
<1> QED
  BY <1>1, IInvAlways, PTL

\* For any callers: whoever gave up, and however late replies come, a command
\* of _exec_sync is answered with its own reply or with the disconnection.
THEOREM AnswersOwnCommandAlways == Spec => []AnswersOwnCommand
<1>1. IInv => AnswersOwnCommand
  BY DEF IInv
<1> QED
  BY <1>1, IInvAlways, PTL

\* When the reader thread has ended, nobody is left waiting for it.
THEOREM NoWaiterLeftBehindAlways == Spec => []NoWaiterLeftBehind
<1>1. IInv => NoWaiterLeftBehind
  BY DEF IInv
<1> QED
  BY <1>1, IInvAlways, PTL

\* Whatever else is registered when, a handler that was not registered in the
\* middle of a dispatch hears every event since, once and in order.
THEOREM HandlersHearEverythingAlways == Spec => []HandlersHearEverything
<1>1. IInv => HandlersHearEverything
  BY DEF IInv, Registered
<1> QED
  BY <1>1, IInvAlways, PTL
=============================================================================
