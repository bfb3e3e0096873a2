---------------------------- MODULE MCVmMetadata -----------------------------
(* Constants of the VmMetadata runs.                                       *)
EXTENDS VmMetadata

CONSTANTS w1, w2     \* the supervisor and a stop command
=============================================================================
