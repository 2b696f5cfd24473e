---------------------------- MODULE MCExpiredEnv ----------------------------
(* Three client commands, so three of A's goroutines outlive A. *)
EXTENDS ExpiredEnv

CONSTANTS k1, k2, k3

MCClientCmds == {k1, k2, k3}

=============================================================================
