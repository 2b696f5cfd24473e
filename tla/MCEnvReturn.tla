---------------------------- MODULE MCEnvReturn ----------------------------
(* EnvReturn with two goroutines answering two commands: enough for both   *)
(* to answer the same command (the second is rejected), or each its own,   *)
(* each with or without an ack handler, while the collector runs once one  *)
(* of them has dropped its references.                                     *)
EXTENDS EnvReturn

CONSTANTS g1, g2, c1, c2

MCCallers == {g1, g2}
MCCmds == {c1, c2}
=============================================================================
