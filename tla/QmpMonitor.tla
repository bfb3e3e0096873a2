----------------------------- MODULE QmpMonitor ------------------------------
(***************************************************************************)
(* QemuMonitor of monitor.py: one QMP connection shared by the threads that *)
(* send commands (_exec_sync), the reader thread that hands replies to      *)
(* waiting commands in first-in first-out order and events to handlers, and *)
(* QEMU at the other end.  Replies carry no tag: what pairs a reply with    *)
(* its command is the order of _sync_cb and nothing else.                  *)
(*                                                                         *)
(* A command is identified by its caller and a number; a reply by its       *)
(* command.  Handlers always ask to be retained, as those of vmocs do.      *)
(***************************************************************************)
EXTENDS Naturals, Sequences

CONSTANTS
  Callers,        \* threads that send commands
  Handlers,       \* event callbacks that may be registered
  None,           \* no lock holder, no answer, not registered
  MaxCommands,    \* bound on the commands of a caller
  MaxEvents       \* bound on the events of QEMU

ASSUME MonitorAssumption ==
  /\ MaxCommands \in Nat /\ MaxEvents \in Nat
  /\ None \notin Callers \cup Nat \cup ((Callers \cup {None}) \X Nat)

VARIABLES
  pc,             \* where each caller is in _exec_sync
  number,         \* the number of its current command
  answer,         \* what its result_q holds
  wlock,          \* the holder of _wlock, or None
  closed,         \* _closed
  syncCb,         \* _sync_cb: the commands that wait for a reply, in order
  asyncCb,        \* _async_cb: registered handlers
  heard,          \* the events each handler has been called with
  since,          \* events dispatched before its registration, if registered
  late,           \* history: the handlers registered while a list was about to be stored
  reader,         \* the reader thread: "on", "store" or "off"
  kept,           \* the handlers that it is about to store as _async_cb
  dispatched,     \* events taken off the socket
  inbox,          \* commands on their way to QEMU
  wire,           \* messages on their way back
  events,         \* events that QEMU has sent
  peer            \* QEMU's end of the connection: "up" or "down"

callerVars == <<pc, number, answer>>
handlerVars == <<asyncCb, heard, since, late>>
readerVars == <<reader, kept, dispatched>>
qemuVars == <<inbox, wire, events, peer>>
vars == <<callerVars, wlock, closed, syncCb, handlerVars, readerVars, qemuVars>>

Commands == Callers \X (1..MaxCommands)
Lost == <<None, 1>>              \* the answer None: disconnected
Reply(c) == [kind |-> "reply", cmd |-> c]
Event(n) == [kind |-> "event", cmd |-> <<None, n>>]

\* The type invariant.
TypeOK ==
  /\ pc \in [Callers -> {"rest", "locked", "open", "queued", "wait"}]
  /\ number \in [Callers -> 0..MaxCommands]
  /\ answer \in [Callers -> Commands \cup {Lost, None}]
  /\ wlock \in Callers \cup {None}
  /\ closed \in BOOLEAN
  /\ syncCb \in Seq(Commands)
  /\ asyncCb \subseteq Handlers
  /\ heard \in [Handlers -> Seq(1..MaxEvents)]
  /\ since \in [Handlers -> 0..MaxEvents \cup {None}] /\ late \subseteq Handlers
  /\ reader \in {"on", "store", "off"} /\ kept \subseteq Handlers
  /\ dispatched \in 0..MaxEvents
  /\ inbox \in Seq(Commands)
  /\ wire \in Seq([kind : {"reply", "event"},
                   cmd : Commands \cup ({None} \X (1..MaxEvents))])
  /\ events \in 0..MaxEvents
  /\ peer \in {"up", "down"}

\* __init__ has returned: QEMU has greeted and the capabilities are settled
\* (module QmpConnect is about the way there).
Init ==
  /\ pc = [c \in Callers |-> "rest"]
  /\ number = [c \in Callers |-> 0]
  /\ answer = [c \in Callers |-> None]
  /\ wlock = None /\ closed = FALSE
  /\ syncCb = <<>>
  /\ asyncCb = {} /\ heard = [h \in Handlers |-> <<>>]
  /\ since = [h \in Handlers |-> None] /\ late = {}
  /\ reader = "on" /\ kept = {} /\ dispatched = 0
  /\ inbox = <<>> /\ wire = <<>>
  /\ events = 0 /\ peer = "up"

-----------------------------------------------------------------------------
(* Delivery.                                                               *)

\* Call the callbacks of the commands in cs with the answer v.  A caller
\* that has given up holds a new queue, so that a late answer is lost.
Deliver(cs, v) ==
  answer' = [c \in Callers |->
               IF <<c, number[c]>> \in cs /\ pc[c] # "rest" /\ answer[c] = None
               THEN v ELSE answer[c]]

\* _drain_callbacks(None): every waiter is answered None, handlers go.
DrainCallbacks ==
  /\ Deliver({syncCb[i] : i \in DOMAIN syncCb}, Lost)
  /\ syncCb' = <<>>
  /\ asyncCb' = {}

-----------------------------------------------------------------------------
(* A caller: _exec_sync and _exec_async.                                   *)

\* A new command: take the lock.
Acquire(c) ==
  /\ pc[c] = "rest" /\ number[c] < MaxCommands /\ wlock = None
  /\ wlock' = c
  /\ number' = [number EXCEPT ![c] = @ + 1]
  /\ answer' = [answer EXCEPT ![c] = None]
  /\ pc' = [pc EXCEPT ![c] = "locked"]
  /\ UNCHANGED <<closed, syncCb, handlerVars, readerVars, qemuVars>>

\* A closed monitor answers at once.
CheckClosed(c) ==
  /\ pc[c] = "locked"
  /\ \/ /\ closed
        /\ answer' = [answer EXCEPT ![c] = Lost]
        /\ wlock' = None
        /\ pc' = [pc EXCEPT ![c] = "wait"]
     \/ /\ ~closed
        /\ pc' = [pc EXCEPT ![c] = "open"]
        /\ UNCHANGED <<answer, wlock>>
  /\ UNCHANGED <<number, closed, syncCb, handlerVars, readerVars, qemuVars>>

\* Queue the callback: the reader may have closed the monitor meanwhile.
Queue(c) ==
  /\ pc[c] = "open"
  /\ syncCb' = Append(syncCb, <<c, number[c]>>)
  /\ pc' = [pc EXCEPT ![c] = "queued"]
  /\ UNCHANGED <<number, answer, wlock, closed, handlerVars, readerVars, qemuVars>>

\* (Mutant: a failed send does not resolve the waiters.)
SendNoDrain(c) ==
  /\ pc[c] = "queued"
  /\ inbox' = IF peer = "up" THEN Append(inbox, <<c, number[c]>>) ELSE inbox
  /\ wlock' = None
  /\ pc' = [pc EXCEPT ![c] = "wait"]
  /\ UNCHANGED <<number, answer, closed, syncCb, handlerVars, readerVars, wire,
                 events, peer>>

\* Send.  On a broken pipe the sender resolves every waiter itself, since
\* the reader may have gone before this command was queued.
Send(c) ==
  /\ pc[c] = "queued"
  /\ wlock' = None
  /\ pc' = [pc EXCEPT ![c] = "wait"]
  /\ \/ /\ peer = "up"
        /\ inbox' = Append(inbox, <<c, number[c]>>)
        /\ UNCHANGED <<answer, closed, syncCb, asyncCb>>
     \/ /\ peer = "down"
        /\ closed' = TRUE
        /\ DrainCallbacks
        /\ UNCHANGED inbox
  /\ UNCHANGED <<number, heard, since, late, readerVars, wire, events, peer>>

\* The result arrives, or five seconds pass.
Return(c) ==
  /\ pc[c] = "wait"
  /\ pc' = [pc EXCEPT ![c] = "rest"]
  /\ UNCHANGED <<number, answer, wlock, closed, syncCb, handlerVars, readerVars,
                 qemuVars>>

\* add_event_handler, at any time: nothing keeps it from a dispatch.
AddHandler(h) ==
  /\ since[h] = None /\ ~closed
  /\ late' = IF reader = "store" THEN late \cup {h} ELSE late
  /\ asyncCb' = asyncCb \cup {h}
  /\ since' = [since EXCEPT ![h] = dispatched]
  /\ UNCHANGED <<callerVars, wlock, closed, syncCb, heard, readerVars, qemuVars>>

\* close, by the owner, between commands.
Close ==
  /\ ~closed /\ \A c \in Callers : pc[c] = "rest"
  /\ closed' = TRUE /\ reader' = "off"
  /\ DrainCallbacks
  /\ UNCHANGED <<pc, number, wlock, heard, since, late, kept, dispatched, qemuVars>>

-----------------------------------------------------------------------------
(* The reader thread.                                                      *)

\* (Mutant: the latest waiter is served first.)
DispatchReplyLifo ==
  /\ reader = "on" /\ wire # <<>> /\ wire[1].kind = "reply" /\ syncCb # <<>>
  /\ LET last == syncCb[Len(syncCb)] IN
       /\ Deliver({last}, wire[1].cmd)
       /\ syncCb' = SubSeq(syncCb, 1, Len(syncCb) - 1)
  /\ wire' = Tail(wire)
  /\ UNCHANGED <<pc, number, wlock, closed, handlerVars, readerVars, inbox, events,
                 peer>>

\* A reply goes to the oldest waiter; without one it is logged and dropped.
DispatchReply ==
  /\ reader = "on" /\ wire # <<>> /\ wire[1].kind = "reply"
  /\ \/ /\ syncCb # <<>>
        /\ Deliver({Head(syncCb)}, wire[1].cmd)
        /\ syncCb' = Tail(syncCb)
     \/ syncCb = <<>> /\ UNCHANGED <<answer, syncCb>>
  /\ wire' = Tail(wire)
  /\ UNCHANGED <<pc, number, wlock, closed, handlerVars, readerVars, inbox, events,
                 peer>>

\* (Mutant: the sense of the handlers' return value is inverted.)
DispatchEventOnce ==
  /\ reader = "on" /\ wire # <<>> /\ wire[1].kind = "event"
  /\ heard' = [h \in Handlers |->
                 IF h \in asyncCb THEN Append(heard[h], wire[1].cmd[2]) ELSE heard[h]]
  /\ kept' = {} /\ reader' = "store"
  /\ dispatched' = dispatched + 1
  /\ wire' = Tail(wire)
  /\ UNCHANGED <<callerVars, wlock, closed, syncCb, asyncCb, since, late, inbox, events,
                 peer>>

\* An event goes to every handler; those that ask for it are kept ...
DispatchEvent ==
  /\ reader = "on" /\ wire # <<>> /\ wire[1].kind = "event"
  /\ heard' = [h \in Handlers |->
                 IF h \in asyncCb THEN Append(heard[h], wire[1].cmd[2]) ELSE heard[h]]
  /\ kept' = asyncCb /\ reader' = "store"
  /\ dispatched' = dispatched + 1
  /\ wire' = Tail(wire)
  /\ UNCHANGED <<callerVars, wlock, closed, syncCb, asyncCb, since, late, inbox, events,
                 peer>>

\* ... and replace the list, in which another thread may have put one more.
StoreHandlers ==
  /\ reader = "store"
  /\ asyncCb' = kept /\ kept' = {} /\ reader' = "on"
  /\ UNCHANGED <<callerVars, wlock, closed, syncCb, heard, since, late, dispatched,
                 qemuVars>>

\* End of file: everything sent before has been read.
ReadEof ==
  /\ reader = "on" /\ peer = "down" /\ wire = <<>>
  /\ closed' = TRUE /\ reader' = "off"
  /\ DrainCallbacks
  /\ UNCHANGED <<pc, number, wlock, heard, since, late, kept, dispatched, qemuVars>>

-----------------------------------------------------------------------------
(* QEMU: commands in order, one reply each; events at any time.            *)

QemuReplies ==
  /\ peer = "up" /\ inbox # <<>>
  /\ wire' = Append(wire, Reply(Head(inbox)))
  /\ inbox' = Tail(inbox)
  /\ UNCHANGED <<callerVars, wlock, closed, syncCb, handlerVars, readerVars, events,
                 peer>>

QemuEvent ==
  /\ peer = "up" /\ events < MaxEvents
  /\ events' = events + 1
  /\ wire' = Append(wire, Event(events + 1))
  /\ UNCHANGED <<callerVars, wlock, closed, syncCb, handlerVars, readerVars, inbox,
                 peer>>

\* QEMU exits, after a quit or by itself.
QemuCloses ==
  /\ peer = "up"
  /\ peer' = "down" /\ inbox' = <<>>
  /\ UNCHANGED <<callerVars, wlock, closed, syncCb, handlerVars, readerVars, wire,
                 events>>

Exec(c) == Acquire(c) \/ CheckClosed(c) \/ Queue(c) \/ Send(c) \/ Return(c)
Reader == DispatchReply \/ DispatchEvent \/ StoreHandlers \/ ReadEof
Qemu == QemuReplies \/ QemuEvent \/ QemuCloses

Next == \/ \E c \in Callers : Exec(c)
        \/ \E h \in Handlers : AddHandler(h)
        \/ Close \/ Reader \/ Qemu

Spec == Init /\ [][Next]_vars

-----------------------------------------------------------------------------
(* Properties.                                                             *)

(***************************************************************************)
(* A caller is answered with the reply to its own command or with the news  *)
(* of the disconnection, though replies carry no tag, other callers have    *)
(* given up on theirs, and late replies keep coming (_exec_sync).           *)
(***************************************************************************)
AnswersOwnCommand ==
  \A c \in Callers : answer[c] \in {None, Lost, <<c, number[c]>>}

(***************************************************************************)
(* "Resolve every waiter immediately instead of leaving lifecycle shutdown  *)
(* blocked" (_exec_async): once the reader thread has ended at the end of   *)
(* file, nobody who has finished sending is still without an answer.        *)
(***************************************************************************)
NoWaiterLeftBehind ==
  reader = "off" => \A c \in Callers : pc[c] = "wait" => answer[c] # None

\* h is called with every event since its registration, once and in order.
HearsEverything(h) ==
  ~closed /\ since[h] # None =>
    heard[h] = [i \in 1..(dispatched - since[h]) |-> since[h] + i]

(***************************************************************************)
(* "Retain it while it returns truthy" (add_event_handler): from its        *)
(* registration on a handler is called with every event, once and in order, *)
(* until the connection is closed, unless it was registered in the moment   *)
(* in which the reader had called the others and not yet stored its list,   *)
(* and whoever else was registered in such a moment (_dispatch_messages).   *)
(***************************************************************************)
HandlersHearEverything == \A h \in Handlers \ late : HearsEverything(h)

(***************************************************************************)
(* The same of every handler, as the docstring has it (add_event_handler).  *)
(***************************************************************************)
EveryHandlerHears == \A h \in Handlers : HearsEverything(h)
=============================================================================
