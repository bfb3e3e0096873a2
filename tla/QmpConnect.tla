----------------------------- MODULE QmpConnect ------------------------------
(***************************************************************************)
(* wait_for_monitor of monitor.py: launch_vm polls for QEMU's QMP socket    *)
(* and makes one QemuMonitor after another until one negotiates.  QEMU      *)
(* serves one client at a time; others wait in the socket's backlog.        *)
(*                                                                         *)
(* An attempt that times out raises in __init__, after the reader thread    *)
(* has started: the thread keeps the monitor, and with it the connection.   *)
(***************************************************************************)
EXTENDS Naturals, Sequences

CONSTANTS
  MaxAttempts,    \* the attempts that fit into the timeout
  None            \* no client

VARIABLES
  pc,             \* the polling loop
  attempt,        \* the number of the current attempt
  heardFrom,      \* was QEMU answering when the attempt began?
  backlog,        \* connections that QEMU has not accepted
  client,         \* the one it serves
  qemu            \* "starting", "listening" (its main loop does not run), "serving"

vars == <<pc, attempt, heardFrom, backlog, client, qemu>>

Init ==
  /\ pc = "poll" /\ attempt = 0 /\ heardFrom = FALSE
  /\ backlog = <<>> /\ client = None
  /\ qemu = "starting"

\* The socket exists: connect and wait for the greeting.
Connect ==
  /\ pc = "poll" /\ attempt < MaxAttempts /\ qemu # "starting"
  /\ attempt' = attempt + 1
  /\ backlog' = Append(backlog, attempt')
  /\ heardFrom' = (qemu = "serving")
  /\ pc' = "negotiate"
  /\ UNCHANGED <<client, qemu>>

\* No socket yet.
Absent ==
  /\ pc = "poll" /\ attempt < MaxAttempts /\ qemu = "starting"
  /\ attempt' = attempt + 1
  /\ UNCHANGED <<pc, heardFrom, backlog, client, qemu>>

\* QEMU has answered the greeting and qmp_capabilities.
Negotiated ==
  /\ pc = "negotiate" /\ qemu = "serving" /\ client = attempt
  /\ pc' = "connected"
  /\ UNCHANGED <<attempt, heardFrom, backlog, client, qemu>>

\* Five seconds without an answer.  A QEMU that serves this client answers
\* in time, and one that serves nobody accepts in time.
Timeout ==
  /\ pc = "negotiate" /\ ~(qemu = "serving" /\ client = attempt)
  /\ qemu = "serving" => client # None
  /\ pc' = "poll"
  /\ UNCHANGED <<attempt, heardFrom, backlog, client, qemu>>

\* The deadline.
GiveUp ==
  /\ pc = "poll" /\ attempt = MaxAttempts
  /\ pc' = "failed"
  /\ UNCHANGED <<attempt, heardFrom, backlog, client, qemu>>

Launch == Connect \/ Absent \/ Negotiated \/ Timeout \/ GiveUp

\* QEMU creates the socket, and later enters its main loop.
QemuListens ==
  /\ qemu = "starting" /\ qemu' = "listening"
  /\ UNCHANGED <<pc, attempt, heardFrom, backlog, client>>

QemuServes ==
  /\ qemu = "listening" /\ qemu' = "serving"
  /\ UNCHANGED <<pc, attempt, heardFrom, backlog, client>>

QemuAccepts ==
  /\ qemu = "serving" /\ client = None /\ backlog # <<>>
  /\ client' = Head(backlog) /\ backlog' = Tail(backlog)
  /\ UNCHANGED <<pc, attempt, heardFrom, qemu>>

Next == Launch \/ QemuListens \/ QemuServes \/ QemuAccepts

Spec == Init /\ [][Next]_vars

(***************************************************************************)
(* "Poll until the QMP socket appears and QEMU responds, then return a      *)
(* QemuMonitor" (wait_for_monitor): it does not give up on a QEMU that was  *)
(* answering when the last attempt began.                                  *)
(***************************************************************************)
FailsOnlyOnSilentQemu == pc = "failed" => ~heardFrom
=============================================================================
