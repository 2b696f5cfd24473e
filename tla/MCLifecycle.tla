---------------------------- MODULE MCLifecycle ----------------------------
(* Two client commands, so that A's goroutines, B's OnData and the close  *)
(* interleave with each other.                                            *)
EXTENDS Lifecycle

CONSTANTS k1, k2

MCClientCmds == {k1, k2}

=============================================================================
