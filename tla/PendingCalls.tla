---------------------------- MODULE PendingCalls ----------------------------
(***************************************************************************)
(* Abstract async correlation protocol (spec 4.4 and 5). A command sent   *)
(* with a callback creates a pending call; it goes from Sent to Completed *)
(* exactly once, and, once sent, it is eventually completed. The order in *)
(* which distinct calls complete is not constrained.                      *)
(***************************************************************************)
CONSTANT Calls

VARIABLE call

CallStates == {"unsent", "sent", "completed"}

Init == call = [c \in Calls |-> "unsent"]

Send(c) ==
    /\ call[c] = "unsent"
    /\ call' = [call EXCEPT ![c] = "sent"]

Complete(c) ==
    /\ call[c] = "sent"
    /\ call' = [call EXCEPT ![c] = "completed"]

Next == \E c \in Calls : Send(c) \/ Complete(c)

\* Every sent call is completed: the bridge must not drop a pending call.
Spec == Init /\ [][Next]_call /\ \A c \in Calls : WF_call(Complete(c))

=============================================================================
