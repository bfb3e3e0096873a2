---------------------------- MODULE MCLifecycle ----------------------------
(***************************************************************************)
(* Values for the constants of Lifecycle that a cfg cannot write down.      *)
(***************************************************************************)
EXTENDS Lifecycle, TLC

\* No stop command asks for a save of its own.
NoStopSave == [s \in Stoppers |-> None]
\* Every stop command asks for one, all at the same destination.
SameStopSave == [s \in Stoppers |-> CHOOSE d \in Dest : TRUE]
\* Every stop command but the hook does.
UserStopSave == [s \in Stoppers |->
                   IF s \in Hook THEN None ELSE CHOOSE d \in Dest : TRUE]

\* The supervisor may be killed anywhere ...
Anywhere == SupPC
\* ... or nowhere ...
Nowhere == {}
\* ... or just between fork and the metadata write that records the pid.
AfterFork == {"forked"}
=============================================================================
