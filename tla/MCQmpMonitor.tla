---------------------------- MODULE MCQmpMonitor -----------------------------
(* Constants of the QmpMonitor run.                                        *)
EXTENDS QmpMonitor

CONSTANTS c1, c2, h1, h2
=============================================================================
