---------------------------- MODULE MCCheckpoint -----------------------------
(* Constants of the Checkpoint runs.                                       *)
EXTENDS Checkpoint, TLC

CONSTANTS a, b, c    \* three savers

\* a and b retry the save of one VM, c saves another one to the same place.
Retry == (a :> "x") @@ (b :> "x") @@ (c :> "y")

\* Every saver draws an identity of its own, for a VM of its own.
Alone == (a :> "x") @@ (b :> "y")

\* Two savers of one VM, the second being the exit hook's retry.
Hooked == (a :> "x") @@ (b :> "x")
=============================================================================
