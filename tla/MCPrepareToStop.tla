-------------------------- MODULE MCPrepareToStop --------------------------
(* Delivery rules for PrepareToStop.                                       *)
EXTENDS PrepareToStop

\* What prepare_to_stop_go relies on: OnCmd is still called while the
\* extension is stopping (B and C wait in OnStop for the "stop" command).
DeliverWhileStopping == {"started", "stopping"}

\* The rule spec.md section 4.5 states: message handlers are only invoked
\* in Started.
DeliverOnlyStarted == {"started"}
=============================================================================
