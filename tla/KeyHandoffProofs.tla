-------------------------- MODULE KeyHandoffProofs ---------------------------
(***************************************************************************)
(* The rotation's guarantee, for any number of attempts and of resets.      *)
(* What carries the proof is the order of the QMP stream: a reset event     *)
(* behind the answer to the barrier was emitted after the barrier, hence    *)
(* after the marker, hence after the key was replaced and flushed.          *)
(***************************************************************************)
EXTENDS KeyHandoff, TLAPS

\* A message is in the queue.
Queued(m) == \E i \in 1..Len(queue) : queue[i] = m

\* As a reset leaves the guest: no script at work, nothing unflushed, and no
\* session of the bootstrap key unless the guest accepts it (again).
Calm ==
  /\ \A a \in Attempts : script[a] \notin AtWork
  /\ auth = stored
  /\ auth # "bootstrap" => ~others

\* Only a reset brings the bootstrap key back, and it ends all scripts.
Forward ==
  \A a \in Attempts :
    /\ script[a] \in {"truncated", "written", "flushed"} => auth # "bootstrap"
    /\ script[a] = "flushed" => stored # "bootstrap"

\* After the marker not even a reset does.
Marked ==
  /\ marker => auth # "bootstrap" /\ stored # "bootstrap"
  /\ pc \in {"barrier", "reply", "await"} => marker

\* No answer is on its way before a barrier is sent.
Unasked ==
  pc \in {"pin", "clear", "try", "ssh", "result", "barrier", "probe", "lostBarrier"}
    => ~Queued("reply")

\* A reset event that will be dispatched after the answer came after it.
Ordered ==
  pc = "reply" =>
    /\ \A i, j \in 1..Len(queue) :
         i < j /\ queue[i] = "reply" /\ queue[j] = "guest-reset" => Calm
    /\ replied /\ Queued("guest-reset") => Calm

\* What is observed after the barrier counts.
Counted == pc = "await" /\ (reboot \/ Queued("guest-reset")) => Calm

\* The host's reset happens only after it was asked for.
Unforced ==
  pc \notin {"hostWait", "relogin", "failed"} \cup Rotated
    => ~forced /\ ~pending /\ ~Queued("host-reset")

ForcedCounts == pc = "hostWait" /\ (forced \/ Queued("host-reset")) => Calm

Settled ==
  /\ pc = "relogin" => Calm
  /\ pc \in Rotated => Calm /\ auth = "ephemeral"

\* The inductive invariant.
IInv == /\ TypeOK /\ Forward /\ Marked /\ Unasked /\ Ordered /\ Counted
        /\ Unforced /\ ForcedCounts /\ Settled

\* The initial states satisfy it.
LEMMA InitIInv == Init => IInv
<1> SUFFICES ASSUME Init PROVE IInv
  OBVIOUS
<1>1. TypeOK
  <2>1. /\ marker \in BOOLEAN /\ exited \in BOOLEAN /\ reboot \in BOOLEAN
        /\ forced \in BOOLEAN /\ replied \in BOOLEAN /\ pending \in BOOLEAN
        /\ up \in BOOLEAN /\ others \in BOOLEAN /\ newer \in BOOLEAN
    BY DEF Init
  <2>2. n \in 0..MaxAttempts /\ resets \in 0..MaxResets
    BY HandoffAssumption DEF Init
  <2>3. script \in [Attempts -> AtWork \cup {"none", "ended", "failed"}]
    BY DEF Init
  <2>4. queue \in Seq(Messages) /\ auth \in Keys /\ stored \in Keys
    BY DEF Init, Keys
  <2> QED
    BY <2>1, <2>2, <2>3, <2>4 DEF Init, TypeOK
<1>2. Len(queue) = 0
  BY DEF Init
<1> QED
  BY <1>1, <1>2 DEF Init, IInv, Forward, Marked, Unasked, Ordered, Counted, Unforced,
     ForcedCounts, Settled, Queued, Rotated

\* What a reset does, whoever asked for it.
LEMMA ResetCalms ==
  ASSUME IInv, NEW m \in Messages, Reset(m)
  PROVE  /\ Calm' /\ Forward'
         /\ queue' \in Seq(Messages) /\ Len(queue') = Len(queue) + 1
         /\ \A i \in 1..Len(queue) : queue'[i] = queue[i]
         /\ queue'[Len(queue) + 1] = m
         /\ up' \in BOOLEAN /\ others' \in BOOLEAN /\ auth' \in Keys /\ stored' \in Keys
         /\ script' \in [Attempts -> AtWork \cup {"none", "ended", "failed"}]
         /\ auth # "bootstrap" /\ stored # "bootstrap"
              => auth' # "bootstrap" /\ stored' # "bootstrap"
         /\ auth = stored => auth' = auth
<1>1. queue \in Seq(Messages) /\ auth \in Keys /\ stored \in Keys
      /\ script \in [Attempts -> AtWork \cup {"none", "ended", "failed"}]
  BY DEF IInv, TypeOK
<1>2. PICK k \in {stored, auth} : auth' = k /\ stored' = k
  BY DEF Reset
<1>3. /\ queue' \in Seq(Messages) /\ Len(queue') = Len(queue) + 1
      /\ \A i \in 1..Len(queue) : queue'[i] = queue[i]
      /\ queue'[Len(queue) + 1] = m
  BY <1>1 DEF Reset
<1>4. script' \in [Attempts -> AtWork \cup {"none", "ended", "failed"}]
      /\ \A a \in Attempts : script'[a] \notin AtWork
  BY <1>1 DEF Reset, AtWork
<1>5. Calm' /\ Forward'
  BY <1>2, <1>4 DEF Calm, Forward, Reset, AtWork
<1> QED
  BY <1>1, <1>2, <1>3, <1>4, <1>5 DEF Reset

\* The guest's resets keep the invariant.
LEMMA GuestResetStep ==
  ASSUME IInv, GuestReset
  PROVE  IInv'
<1>1. "guest-reset" \in Messages /\ Reset("guest-reset")
  BY DEF Messages, GuestReset
<1>2. /\ Calm' /\ Forward'
      /\ queue' \in Seq(Messages) /\ Len(queue') = Len(queue) + 1
      /\ \A i \in 1..Len(queue) : queue'[i] = queue[i]
      /\ queue'[Len(queue) + 1] = "guest-reset"
      /\ up' \in BOOLEAN /\ others' \in BOOLEAN /\ auth' \in Keys /\ stored' \in Keys
      /\ script' \in [Attempts -> AtWork \cup {"none", "ended", "failed"}]
      /\ auth # "bootstrap" /\ stored # "bootstrap"
           => auth' # "bootstrap" /\ stored' # "bootstrap"
      /\ auth = stored => auth' = auth
  BY <1>1, ResetCalms
<1>3. pc' = pc /\ marker' = marker /\ reboot' = reboot /\ forced' = forced
      /\ replied' = replied /\ pending' = pending /\ n' = n /\ exited' = exited
  BY DEF GuestReset, hostVars, eventVars
<1>4. TypeOK'
  BY <1>2, <1>3, HandoffAssumption DEF GuestReset, IInv, TypeOK
<1>5. Queued("reply") <=> Queued("reply")'
  BY <1>2 DEF Queued, IInv, TypeOK
<1>6. Queued("host-reset") <=> Queued("host-reset")'
  BY <1>2 DEF Queued, IInv, TypeOK
<1> QED
  BY <1>2, <1>3, <1>4, <1>5, <1>6 DEF IInv, Marked, Unasked, Ordered, Counted, Unforced,
     ForcedCounts, Settled, Calm

\* So does the host's.
LEMMA HostResetStep ==
  ASSUME IInv, HostReset
  PROVE  IInv'
<1>1. "host-reset" \in Messages /\ Reset("host-reset")
  BY DEF Messages, HostReset
<1>2. /\ Calm' /\ Forward'
      /\ queue' \in Seq(Messages) /\ Len(queue') = Len(queue) + 1
      /\ \A i \in 1..Len(queue) : queue'[i] = queue[i]
      /\ queue'[Len(queue) + 1] = "host-reset"
      /\ up' \in BOOLEAN /\ others' \in BOOLEAN /\ auth' \in Keys /\ stored' \in Keys
      /\ script' \in [Attempts -> AtWork \cup {"none", "ended", "failed"}]
      /\ auth # "bootstrap" /\ stored # "bootstrap"
           => auth' # "bootstrap" /\ stored' # "bootstrap"
      /\ auth = stored => auth' = auth
  BY <1>1, ResetCalms
<1>3. pc' = pc /\ marker' = marker /\ reboot' = reboot /\ forced' = forced
      /\ replied' = replied /\ pending /\ pending' = FALSE /\ n' = n /\ exited' = exited
  BY DEF HostReset, hostVars, eventVars
<1>4. TypeOK'
  BY <1>2, <1>3 DEF HostReset, IInv, TypeOK
<1>5. Queued("reply") <=> Queued("reply")'
  BY <1>2 DEF Queued, IInv, TypeOK
<1>6. pc \in {"hostWait", "relogin", "failed"} \cup Rotated
  BY <1>3 DEF IInv, Unforced
<1> QED
  BY <1>2, <1>3, <1>4, <1>5, <1>6 DEF IInv, Marked, Unasked, Ordered, Counted, Unforced,
     ForcedCounts, Settled, Calm, Rotated

\* So does the reader thread.
LEMMA DispatchStep ==
  ASSUME IInv, Dispatch
  PROVE  IInv'
<1>1. /\ queue' \in Seq(Messages) /\ Len(queue') = Len(queue) - 1 /\ Len(queue) > 0
      /\ \A i \in 1..Len(queue') : queue'[i] = queue[i + 1]
      /\ Head(queue) = queue[1]
  BY DEF Dispatch, IInv, TypeOK
<1>2. pc' = pc /\ marker' = marker /\ pending' = pending /\ n' = n /\ exited' = exited
      /\ auth' = auth /\ stored' = stored /\ script' = script /\ others' = others
      /\ up' = up /\ resets' = resets /\ newer' = newer
  BY DEF Dispatch, hostVars, guestVars
<1>3. TypeOK'
  BY <1>1, <1>2 DEF Dispatch, IInv, TypeOK
<1>4. ASSUME NEW m \in Messages, Queued(m)' PROVE Queued(m)
  BY <1>1, <1>4 DEF Queued, IInv, TypeOK
<1>5. Queued(Head(queue))
  BY <1>1 DEF Queued, IInv, TypeOK
<1>6. Calm' <=> Calm
  BY <1>2 DEF Calm
<1>7. Forward' /\ Marked' /\ Unasked' /\ Settled'
  <2>1. Unasked'
    BY <1>2, <1>4 DEF Unasked, IInv, Messages
  <2> QED
    BY <1>2, <1>6, <2>1 DEF Forward, Marked, Settled, IInv
<1>8. Unforced'
  <2> SUFFICES ASSUME pc \notin {"hostWait", "relogin", "failed"} \cup Rotated
               PROVE  ~forced' /\ ~pending' /\ ~Queued("host-reset")'
    BY <1>2 DEF Unforced
  <2>1. ~forced /\ ~pending /\ ~Queued("host-reset")
    BY DEF IInv, Unforced
  <2>2. Head(queue) # "host-reset"
    BY <1>5, <2>1
  <2>3. ~Queued("host-reset")'
    BY <1>4, <2>1 DEF Messages
  <2>4. ~forced'
    BY <2>1, <2>2 DEF Dispatch
  <2>5. ~pending'
    BY <1>2, <2>1, Zenon
  <2> QED
    BY <2>3, <2>4, <2>5, Zenon
<1>9. Counted' /\ ForcedCounts'
  BY <1>2, <1>4, <1>5, <1>6 DEF Counted, ForcedCounts, IInv, Messages, Dispatch
<1>10. Ordered'
  <2> SUFFICES ASSUME pc = "reply"
               PROVE  Ordered'
    BY <1>2 DEF Ordered
  <2>1. \A i, j \in 1..Len(queue) :
          i < j /\ queue[i] = "reply" /\ queue[j] = "guest-reset" => Calm
    BY DEF IInv, Ordered
  <2>2. ASSUME NEW i \in 1..Len(queue'), NEW j \in 1..Len(queue'),
               i < j, queue'[i] = "reply", queue'[j] = "guest-reset"
        PROVE  Calm'
    <3>1. i + 1 \in 1..Len(queue) /\ j + 1 \in 1..Len(queue) /\ i + 1 < j + 1
      BY <1>1, <2>2 DEF IInv, TypeOK
    <3> QED
      BY <1>1, <1>6, <2>1, <2>2, <3>1
  <2>3. ASSUME replied', Queued("guest-reset")' PROVE Calm'
    <3>1. CASE replied
      BY <1>4, <1>6, <2>3, <3>1 DEF IInv, Ordered, Messages
    <3>2. CASE ~replied
      <4>1. queue[1] = "reply"
        BY <1>1, <2>3, <3>2 DEF Dispatch
      <4>2. PICK j \in 1..Len(queue') : queue'[j] = "guest-reset"
        BY <2>3 DEF Queued
      <4>3. 1 \in 1..Len(queue) /\ j + 1 \in 1..Len(queue) /\ 1 < j + 1
        BY <1>1 DEF IInv, TypeOK
      <4> QED
        BY <1>1, <1>6, <2>1, <4>1, <4>2, <4>3
    <3> QED
      BY <3>1, <3>2
  <2> QED
    BY <2>2, <2>3 DEF Ordered
<1> QED
  BY <1>3, <1>7, <1>8, <1>9, <1>10 DEF IInv

\* The rest of the guest.
LEMMA GuestStep ==
  ASSUME IInv, Guest
  PROVE  IInv'
<1> USE DEF hostVars, eventVars, guestVars
<1>1. CASE GuestBoots
  BY <1>1 DEF GuestBoots, IInv, TypeOK, Forward, Marked, Unasked, Ordered, Counted,
     Unforced, ForcedCounts, Settled, Calm, Queued
<1>2. CASE OtherLogin
  <2>1. TypeOK'
    BY <1>2 DEF OtherLogin, IInv, TypeOK
  <2>2. auth = "bootstrap" /\ (Calm => Calm')
    BY <1>2 DEF OtherLogin, Calm
  <2> QED
    BY <1>2, <2>1, <2>2 DEF OtherLogin, IInv, Forward, Marked, Unasked, Ordered, Counted,
       Unforced, ForcedCounts, Settled, Queued
<1>3. ASSUME NEW a \in Attempts,
             ScriptTruncates(a) \/ ScriptWrites(a) \/ ScriptFlushes(a) \/ ScriptMarks(a)
             \/ ScriptFails(a)
      PROVE  IInv'
  <2>1. ~Calm
    BY <1>3 DEF Calm, ScriptTruncates, ScriptWrites, ScriptFlushes, ScriptMarks,
       ScriptFails, ScriptStep, AtWork
  <2>2. pc \notin {"relogin"} \cup Rotated
    BY <2>1 DEF IInv, Settled
  <2>3. pc' = pc /\ n' = n /\ exited' = exited /\ reboot' = reboot /\ forced' = forced
        /\ replied' = replied /\ pending' = pending /\ queue' = queue /\ up' = up
        /\ others' = others /\ resets' = resets /\ newer' = newer
    BY <1>3 DEF ScriptTruncates, ScriptWrites, ScriptFlushes, ScriptMarks, ScriptFails,
       ScriptStep
  <2>4. /\ auth' \in Keys /\ stored' \in Keys /\ marker' \in BOOLEAN
        /\ script' \in [Attempts -> AtWork \cup {"none", "ended", "failed"}]
    BY <1>3 DEF ScriptTruncates, ScriptWrites, ScriptFlushes, ScriptMarks, ScriptFails,
       ScriptStep, IInv, TypeOK, AtWork, Keys
  <2>5. TypeOK'
    BY <2>3, <2>4 DEF IInv, TypeOK
  <2>6. Forward'
    BY <1>3 DEF ScriptTruncates, ScriptWrites, ScriptFlushes, ScriptMarks, ScriptFails,
       ScriptStep, IInv, TypeOK, Forward
  <2>7. marker => marker'
    BY <1>3 DEF ScriptTruncates, ScriptWrites, ScriptFlushes, ScriptMarks, ScriptFails,
       ScriptStep
  <2>8. marker' => auth' # "bootstrap" /\ stored' # "bootstrap"
    BY <1>3 DEF ScriptTruncates, ScriptWrites, ScriptFlushes, ScriptMarks, ScriptFails,
       ScriptStep, IInv, Forward, Marked
  <2>9. Marked'
    BY <2>3, <2>7, <2>8 DEF IInv, Marked
  <2>10. Unasked' /\ Unforced'
    BY <2>3 DEF IInv, Unasked, Unforced, Queued
  <2> QED
    BY <2>1, <2>2, <2>3, <2>5, <2>6, <2>9, <2>10 DEF IInv, Ordered, Counted, ForcedCounts,
       Settled, Queued
<1> QED
  BY <1>1, <1>2, <1>3, GuestResetStep, HostResetStep, DispatchStep DEF Guest

\* A barrier puts an answer behind all earlier events.
LEMMA BarrierQueues ==
  ASSUME TypeOK, NEW from, NEW to, Barrier(from, to)
  PROVE  /\ queue' \in Seq(Messages) /\ Len(queue') = Len(queue) + 1
         /\ \A i \in 1..Len(queue) : queue'[i] = queue[i]
         /\ queue'[Len(queue) + 1] = "reply"
  BY DEF Barrier, TypeOK, Messages

\* The steps of launch_vm.
LEMMA HostStep ==
  ASSUME IInv, Host
  PROVE  IInv'
<1> USE DEF eventVars, guestVars, worldVars
<1>1. CASE GiveUp \/ CaptureHostKeys \/ AwaitReboot \/ LoginAfterReset \/ ProbeLostMarker
           \/ AwaitHostReset \/ WaitForSsh \/ ProveEphemeral \/ RejectBootstrap \/ Reconfirm
           \/ Judge
  <2>1. n' = n /\ marker' = marker /\ exited' = exited /\ reboot' = reboot
        /\ forced' = forced /\ replied' = replied /\ pending' = pending /\ queue' = queue
        /\ up' = up /\ auth' = auth /\ stored' = stored /\ script' = script
        /\ others' = others /\ resets' = resets /\ newer' = newer
    BY <1>1 DEF GiveUp, CaptureHostKeys, AwaitReboot, LoginAfterReset, ProbeLostMarker,
       AwaitHostReset, WaitForSsh, ProveEphemeral, RejectBootstrap, Reconfirm, Judge, Step
  <2>2. (Calm <=> Calm') /\ (\A m \in Messages : Queued(m) <=> Queued(m)')
    BY <2>1 DEF Calm, Queued
  <2> USE DEF IInv, TypeOK, Forward, Marked, Unasked, Ordered, Counted, Unforced,
          ForcedCounts, Settled, Rotated, Messages
  <2>3. CASE GiveUp
    BY <2>1, <2>2, <2>3 DEF GiveUp
  <2>4. CASE CaptureHostKeys
    BY <2>1, <2>2, <2>4 DEF CaptureHostKeys, Step
  <2>5. CASE AwaitReboot
    BY <2>1, <2>2, <2>5 DEF AwaitReboot, Step
  <2>6. CASE LoginAfterReset
    BY <2>1, <2>2, <2>6 DEF LoginAfterReset, Accepts, Step
  <2>7. CASE ProbeLostMarker
    BY <2>1, <2>2, <2>7 DEF ProbeLostMarker, Step
  <2>8. CASE AwaitHostReset
    BY <2>1, <2>2, <2>8 DEF AwaitHostReset, Step
  <2>9. CASE WaitForSsh
    BY <2>1, <2>2, <2>9 DEF WaitForSsh, Step
  <2>10. CASE ProveEphemeral
    BY <2>1, <2>2, <2>10 DEF ProveEphemeral, Step
  <2>11. CASE RejectBootstrap
    BY <2>1, <2>2, <2>11 DEF RejectBootstrap, Step
  <2>12. CASE Reconfirm
    BY <2>1, <2>2, <2>12 DEF Reconfirm, Step
  <2>13. CASE Judge
    BY <2>1, <2>2, <2>13 DEF Judge
  <2> QED
    BY <1>1, <2>3, <2>4, <2>5, <2>6, <2>7, <2>8, <2>9, <2>10, <2>11, <2>12, <2>13
<1>2. CASE ClearEvents \/ SshReturns
  <2> USE DEF IInv, TypeOK, Forward, Marked, Unasked, Ordered, Counted, Unforced,
          ForcedCounts, Settled, Rotated, Queued
  <2>1. CASE ClearEvents
    BY <2>1 DEF ClearEvents
  <2>2. CASE SshReturns
    BY <2>2 DEF SshReturns
  <2> QED
    BY <1>2, <2>1, <2>2
<1>3. CASE Attempt
  <2>1. n + 1 \in Attempts /\ n' = n + 1 /\ n' \in 0..MaxAttempts
    BY <1>3, HandoffAssumption DEF Attempt, IInv, TypeOK, Attempts
  <2>2. script' \in [Attempts -> AtWork \cup {"none", "ended", "failed"}]
    BY <1>3, <2>1 DEF Attempt, IInv, TypeOK, AtWork
  <2>3. marker' \in BOOLEAN /\ exited' \in BOOLEAN
    BY <1>3 DEF Attempt
  <2>4. TypeOK'
    BY <1>3, <2>1, <2>2, <2>3 DEF Attempt, IInv, TypeOK
  <2>5. Forward'
    BY <1>3, <2>1 DEF Attempt, IInv, TypeOK, Forward
  <2> QED
    BY <1>3, <2>4, <2>5 DEF Attempt, IInv, Marked, Unasked, Ordered, Counted, Unforced,
       ForcedCounts, Settled, Rotated, Queued
<1>4. CASE SendBarrier
  <2>1. /\ queue' \in Seq(Messages) /\ Len(queue') = Len(queue) + 1
        /\ \A i \in 1..Len(queue) : queue'[i] = queue[i]
        /\ queue'[Len(queue) + 1] = "reply"
    BY <1>4, BarrierQueues DEF SendBarrier, IInv
  <2>2. Queued("host-reset") <=> Queued("host-reset")'
    BY <2>1 DEF Queued, IInv, TypeOK
  <2>3. ~Queued("reply")
    BY <1>4 DEF SendBarrier, Barrier, IInv, Unasked
  <2>4. \A i, j \in 1..Len(queue') : ~(i < j /\ queue'[i] = "reply" /\ queue'[j] = "guest-reset")
    BY <2>1, <2>3 DEF Queued, IInv, TypeOK
  <2>5. TypeOK'
    BY <1>4, <2>1 DEF SendBarrier, Barrier, IInv, TypeOK
  <2> QED
    BY <1>4, <2>2, <2>4, <2>5 DEF SendBarrier, Barrier, IInv, Forward, Marked, Unasked,
       Ordered, Counted, Unforced, ForcedCounts, Settled, Rotated
<1>5. CASE PassBarrier
  <2>1. TypeOK' /\ (Calm <=> Calm') /\ (\A m \in Messages : Queued(m) <=> Queued(m)')
    BY <1>5 DEF PassBarrier, IInv, TypeOK, Calm, Queued
  <2> QED
    BY <1>5, <2>1 DEF PassBarrier, IInv, Forward, Marked, Unasked, Ordered, Counted,
       Unforced, ForcedCounts, Settled, Rotated, Messages
<1>6. CASE SendLostBarrier
  <2>1. /\ queue' \in Seq(Messages) /\ Len(queue') = Len(queue) + 1
        /\ \A i \in 1..Len(queue) : queue'[i] = queue[i]
        /\ queue'[Len(queue) + 1] = "reply"
    BY <1>6, BarrierQueues DEF SendLostBarrier, IInv
  <2>2. Queued("host-reset") <=> Queued("host-reset")'
    BY <2>1 DEF Queued, IInv, TypeOK
  <2>3. TypeOK'
    BY <1>6, <2>1 DEF SendLostBarrier, Barrier, IInv, TypeOK
  <2> QED
    BY <1>6, <2>2, <2>3 DEF SendLostBarrier, Barrier, IInv, Forward, Marked, Unasked,
       Ordered, Counted, Unforced, ForcedCounts, Settled, Rotated
<1>7. CASE PassLostBarrier
  BY <1>7 DEF PassLostBarrier, IInv, TypeOK, Forward, Marked, Unasked, Ordered, Counted,
     Unforced, ForcedCounts, Settled, Rotated, Queued
<1>8. CASE ForceReset
  BY <1>8 DEF ForceReset, IInv, TypeOK, Forward, Marked, Unasked, Ordered, Counted,
     Unforced, ForcedCounts, Settled, Rotated, Queued
<1> QED
  BY <1>1, <1>2, <1>3, <1>4, <1>5, <1>6, <1>7, <1>8 DEF Host

\* The invariant is inductive.
LEMMA NextIInv == IInv /\ [Next]_vars => IInv'
<1> SUFFICES ASSUME IInv, [Next]_vars PROVE IInv'
  OBVIOUS
<1>1. CASE UNCHANGED vars
  BY <1>1 DEF vars, hostVars, eventVars, guestVars, IInv, TypeOK, Forward, Marked, Unasked,
     Ordered, Counted, Unforced, ForcedCounts, Settled, Calm, Queued
<1> QED
  BY <1>1, GuestStep, HostStep DEF Next

LEMMA IInvAlways == Spec => []IInv
<1>1. Init => IInv
  BY InitIInv
<1>2. IInv /\ [Next]_vars => IInv'
  BY NextIInv
<1> QED
  BY <1>1, <1>2, PTL DEF Spec

-----------------------------------------------------------------------------

\* The variables keep their types.
THEOREM TypeCorrect == Spec => []TypeOK
<1>1. IInv => TypeOK
  BY DEF IInv
<1> QED
  BY <1>1, IInvAlways, PTL

\* Whatever is lost, late or repeated, when the rotation of the key returns no
\* session of the bootstrap key is open and only the launch's key is accepted.
THEOREM HandoffRevokesAlways == Spec => []HandoffRevokes
<1>1. IInv => HandoffRevokes
  BY DEF IInv, Settled, Calm, HandoffRevokes
<1> QED
  BY <1>1, IInvAlways, PTL

\* And no script of an earlier attempt is at work in the guest.
THEOREM NoScriptOutlivesAlways == Spec => []NoScriptOutlives
<1>1. IInv => NoScriptOutlives
  BY DEF IInv, Settled, Calm, NoScriptOutlives
<1> QED
  BY <1>1, IInvAlways, PTL
=============================================================================
