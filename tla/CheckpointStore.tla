--------------------------- MODULE CheckpointStore ---------------------------
(***************************************************************************)
(* What a checkpoint destination promises to everyone who looks at it: it   *)
(* is absent, or it holds one complete bundle, which is never replaced.     *)
(* Only a power failure right after the publication may take it back.       *)
(* Something else that is there may give way to a bundle.                   *)
(***************************************************************************)
CONSTANTS
  Bundles,        \* the complete bundles that may be published
  Absent,         \* nothing is there
  Foreign         \* something that is not a bundle of ours is there

VARIABLES
  held,           \* what a reader finds at the destination
  stable          \* has it reached the disk?

storeVars == <<held, stable>>

Init == held \in {Absent, Foreign} /\ stable = TRUE

Publish(b) == /\ held \in {Absent, Foreign}
              /\ held' = b
              /\ stable' = FALSE

Settle == /\ stable' = TRUE
          /\ UNCHANGED held

PowerLoss == /\ ~stable
             /\ held' \in {Absent, Foreign}
             /\ stable' = TRUE

Next == \/ \E b \in Bundles \cup {Foreign} : Publish(b)
        \/ Settle
        \/ PowerLoss

Spec == Init /\ [][Next]_storeVars
=============================================================================
