---------------------------- MODULE LifecycleSpec ----------------------------
(***************************************************************************)
(* Abstract extension lifecycle (spec 4.5 and 8). Every extension goes     *)
(* through the phases in order, one at a time, each exactly once; message *)
(* handlers are invoked only while it is Started; and every extension     *)
(* eventually reaches Deinitialized.                                       *)
(***************************************************************************)
EXTENDS Naturals

CONSTANTS
    Exts,   \* the extensions of the app
    Msgs    \* the messages delivered to them

VARIABLES
    phase,   \* phase[e]: the index in Phases of e's phase
    handled  \* handled[e]: the messages e's handlers have been invoked with

Phases == <<"Unconfigured", "Configured", "Initialized", "Started",
            "Stopping", "Deinitialized">>

Started == 4

Deinitialized == 6

Init ==
    /\ phase = [e \in Exts |-> 1]
    /\ handled = [e \in Exts |-> {}]

Advance(e) ==
    /\ phase[e] < Deinitialized
    /\ phase' = [phase EXCEPT ![e] = @ + 1]
    /\ UNCHANGED handled

Handle(e, m) ==
    /\ phase[e] = Started
    /\ m \notin handled[e]
    /\ handled' = [handled EXCEPT ![e] = @ \cup {m}]
    /\ UNCHANGED phase

Next == \E e \in Exts : Advance(e) \/ \E m \in Msgs : Handle(e, m)

\* Phases in order, handlers only while Started.
Safety == Init /\ [][Next]_<<phase, handled>>

\* Every extension eventually reaches Deinitialized.
Liveness == \A e \in Exts : WF_<<phase, handled>>(Advance(e))

Spec == Safety /\ Liveness

=============================================================================
