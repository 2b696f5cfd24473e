---------------------------- MODULE MCDefaultApp ----------------------------
(* A graph of one defaultExtension and one httpExtension, one client      *)
(* command to each; beside it, as an independent process, close_app_go's *)
(* app. The two share no variable, so each behaviour of the pair is an    *)
(* interleaving of a behaviour of each.                                   *)
EXTENDS DefaultApp, CloseApp

CONSTANTS d, h, k1, k2

MCExts == {d, h}
MCKind == (d :> "default") @@ (h :> "http")
MCClientCmds == {k1, k2}
MCDest == (k1 :> d) @@ (k2 :> h)

\* Each step is a step of one of the two processes; each keeps its fairness.
MCNext == \/ Next /\ UNCHANGED cvars
          \/ CNext /\ UNCHANGED vars

MCInit == Init /\ CInit

MCSpec ==
    /\ MCInit
    /\ [][MCNext]_<<vars, cvars>>
    /\ WF_<<vars, cvars>>(~panicked /\ Next /\ UNCHANGED cvars)
    /\ WF_<<vars, cvars>>(CNext /\ UNCHANGED vars)

=============================================================================
