---------------------------- MODULE MCMsgBuffer ----------------------------
(* Two commands for each loopback extension. *)
EXTENDS MsgBuffer

CONSTANTS d1, d2, v1, v2

MCDataCmds == {d1, d2}

MCVideoCmds == {v1, v2}

=============================================================================
