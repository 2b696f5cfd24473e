----------------------------- MODULE MCCmdRelay -----------------------------
(* Two client commands in flight at once through three_extension_cmd_go,  *)
(* and, beside it, the three two-extension relays of TwoHopRelay. The two *)
(* processes share nothing; each step is a step of one of them.           *)
EXTENDS CmdRelay, TwoHopRelay

CONSTANTS k1, k2

MCClientCmds == {k1, k2}

MCInit == Init /\ RInit

MCNext == \/ Next /\ UNCHANGED rvars
          \/ RNext /\ UNCHANGED vars

MCSpec == /\ MCInit /\ [][MCNext]_<<vars, rvars>>
          /\ Fairness /\ RFairness

=============================================================================
