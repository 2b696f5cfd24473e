------------------------------ MODULE Lifecycle ------------------------------
(***************************************************************************)
(* The native lifecycle driver (spec 4.5) and the app                     *)
(* two_exaxission_one_group_cmd_go. The core calls OnConfigure, OnInit,   *)
(* OnStart of A and B, each after the previous done signal; A's OnInit    *)
(* sets aName = "after start". The client's command to A spawns a         *)
(* goroutine that sends B a data whose bytes property test_data_path is   *)
(* aName, then answers. B's OnData checks those bytes. Once answered, the *)
(* client closes the app: the core calls OnStop and OnDeinit of each.     *)
(*                                                                         *)
(* stage[e] is e's stage in the core: "<phase>ing" while the handler has  *)
(* been called and its done signal has not come, "<phase>ed" after it.    *)
(***************************************************************************)
EXTENDS MsgProps

CONSTANT ClientCmds   \* the commands the test client sends to A

Exts == {"A", "B"}

Stages == {"unconfigured", "configuring", "configured", "initing", "inited",
           "starting", "started", "stopping", "stopped", "deiniting", "deinited"}

VARIABLES
    stage,      \* stage[e]: see above
    aName,      \* aExtension.aName
    cmd,        \* cmd[k]: client command k: "none", "queued", "delivered", "answered"
    data,       \* data[k]: the data A sends for k: [st |-> "none" | "inflight" | "received" | "dropped", props]
    closing,    \* the client has closed the app
    panicked

vars == <<stage, aName, cmd, data, closing, panicked>>

Init ==
    /\ stage = [e \in Exts |-> "unconfigured"]
    /\ aName = ""             \* NewAExtension leaves aName empty
    /\ cmd = [k \in ClientCmds |-> "none"]
    /\ data = [k \in ClientCmds |-> [st |-> "none", props |-> NoProps]]
    /\ closing = FALSE
    /\ panicked = FALSE

\* DefaultExtension.OnConfigure: OnConfigureDone at once.
Configure(e) ==
    /\ stage[e] = "unconfigured"
    /\ stage' = [stage EXCEPT ![e] = "configured"]
    /\ UNCHANGED <<aName, cmd, data, closing, panicked>>

\* A plausible bug: OnInit of A does not set aName.
InitANoName ==
    /\ stage["A"] = "configured"
    /\ stage' = [stage EXCEPT !["A"] = "inited"]
    /\ UNCHANGED <<aName, cmd, data, closing, panicked>>

\* aExtension.OnInit: aCount, aName, baseCount set, then OnInitDone.
InitA ==
    /\ stage["A"] = "configured"
    /\ stage' = [stage EXCEPT !["A"] = "inited"]
    /\ aName' = "after start"
    /\ UNCHANGED <<cmd, data, closing, panicked>>

\* DefaultExtension.OnInit of B: OnInitDone at once.
InitB ==
    /\ stage["B"] = "configured"
    /\ stage' = [stage EXCEPT !["B"] = "inited"]
    /\ UNCHANGED <<aName, cmd, data, closing, panicked>>

\* baseExtension.OnStart: OnStartDone.
Start(e) ==
    /\ stage[e] = "inited"
    /\ stage' = [stage EXCEPT ![e] = "started"]
    /\ UNCHANGED <<aName, cmd, data, closing, panicked>>

ClientSend(k) ==
    /\ cmd[k] = "none"
    /\ cmd' = [cmd EXCEPT ![k] = "queued"]
    /\ UNCHANGED <<stage, aName, data, closing, panicked>>

\* A plausible bug: the core delivers a command to A before A has started.
DeliverCmdEarly(k) ==
    /\ cmd[k] = "queued"
    /\ stage["A"] \in {"inited", "started"}
    /\ cmd' = [cmd EXCEPT ![k] = "delivered"]
    /\ UNCHANGED <<stage, aName, data, closing, panicked>>

\* The core calls A's OnCmd once A is started; OnCmd spawns the goroutine.
DeliverCmd(k) ==
    /\ cmd[k] = "queued"
    /\ stage["A"] = "started"
    /\ cmd' = [cmd EXCEPT ![k] = "delivered"]
    /\ UNCHANGED <<stage, aName, data, closing, panicked>>

\* SetPropertyBytes: the core refuses an empty byte slice.
SetPropertyBytes(props, key, bytes) ==
    IF bytes = "" THEN [err |-> "InvalidArgument", props |-> props]
    ELSE [err |-> "ok", props |-> SetProperty(props, key, "buf", bytes)]

\* What the goroutine does with the outcome of its property calls: on
\* success SendData (A is started, so it is accepted) and ReturnResult OK
\* "world" (A's only answer to k); on any unexpected outcome, panic.
GoSendAndAnswer(k, empty, path) ==
    LET ok == empty.err # "ok" /\ path.err = "ok" IN
    /\ cmd[k] = "delivered"
    /\ data' = IF ok THEN [data EXCEPT ![k] = [st |-> "inflight", props |-> path.props]] ELSE data
    /\ cmd' = IF ok THEN [cmd EXCEPT ![k] = "answered"] ELSE cmd
    /\ panicked' = ~ok
    /\ UNCHANGED <<stage, aName, closing>>

\* A plausible bug: test_data_path is set with SetPropertyString.
AGoStringPath(k) ==
    GoSendAndAnswer(k, SetPropertyBytes(NoProps, "empty_bytes", ""),
                    [err |-> "ok", props |-> SetProperty(NoProps, "test_data_path", "string", aName)])

(* A's goroutine: SetPropertyString("empty_string", "") must succeed;      *)
(* SetPropertyBytes("empty_bytes", {}) must fail; SetPropertyBytes of      *)
(* test_data_path = []byte(aName) must succeed; then SendData and          *)
(* ReturnResult.                                                           *)
AGo(k) ==
    GoSendAndAnswer(k, SetPropertyBytes(NoProps, "empty_bytes", ""),
                    SetPropertyBytes(SetProperty(NoProps, "empty_string", "string", ""),
                                     "test_data_path", aName))

(* bExtension.OnData, called while B is started: GetPropertyBytes of      *)
(* test_data_path must succeed and read "after start", else it panics.    *)
OnDataB(k) ==
    LET bytes == GetProperty(data[k].props, "test_data_path", "buf") IN
    /\ data[k].st = "inflight"
    /\ stage["B"] = "started"
    /\ data' = [data EXCEPT ![k].st = "received"]
    /\ panicked' = (bytes # [err |-> "ok", val |-> "after start"])
    /\ UNCHANGED <<stage, aName, cmd, closing>>

\* The core drops a data whose destination has left started.
DropData(k) ==
    /\ data[k].st = "inflight"
    /\ stage["B"] \in {"stopping", "stopped", "deiniting", "deinited"}
    /\ data' = [data EXCEPT ![k].st = "dropped"]
    /\ UNCHANGED <<stage, aName, cmd, closing, panicked>>

\* The client closes the app once all its commands are answered.
CloseApp ==
    /\ \A k \in ClientCmds : cmd[k] = "answered"
    /\ ~closing
    /\ closing' = TRUE
    /\ UNCHANGED <<stage, aName, cmd, data, panicked>>

\* baseExtension.OnStop: OnStopDone.
Stop(e) ==
    /\ closing
    /\ stage[e] = "started"
    /\ stage' = [stage EXCEPT ![e] = "stopped"]
    /\ UNCHANGED <<aName, cmd, data, closing, panicked>>

\* DefaultExtension.OnDeinit: OnDeinitDone at once.
Deinit(e) ==
    /\ stage[e] = "stopped"
    /\ stage' = [stage EXCEPT ![e] = "deinited"]
    /\ UNCHANGED <<aName, cmd, data, closing, panicked>>

AllDeinited == \A e \in Exts : stage[e] = "deinited"

Next ==
    \/ /\ ~panicked
       /\ \/ \E e \in Exts : Configure(e) \/ Start(e) \/ Stop(e) \/ Deinit(e)
          \/ InitA \/ InitB
          \/ \E k \in ClientCmds : ClientSend(k) \/ DeliverCmd(k) \/ AGo(k)
          \/ \E k \in ClientCmds : OnDataB(k) \/ DropData(k)
          \/ CloseApp
    \/ (panicked \/ AllDeinited) /\ UNCHANGED vars

\* The core drives every extension, the goroutine is scheduled, and the
\* test client sends its command and closes the app.
Spec == Init /\ [][Next]_vars /\ WF_vars(~panicked /\ Next)

-----------------------------------------------------------------------------
\* The properties of this app and the kind each one has.
KindOf == [empty_string |-> "string", test_data_path |-> "buf"]

TypeOK ==
    /\ stage \in [Exts -> Stages]
    /\ aName \in {"", "after start"}
    /\ cmd \in [ClientCmds -> {"none", "queued", "delivered", "answered"}]
    /\ \A k \in ClientCmds :
         /\ data[k].st \in {"none", "inflight", "received", "dropped"}
         /\ DOMAIN data[k].props \subseteq DOMAIN KindOf
         /\ \A key \in DOMAIN data[k].props : data[k].props[key].kind = KindOf[key]
    /\ closing \in BOOLEAN
    /\ panicked \in BOOLEAN

(* No handler or goroutine panics: the state A's OnInit sets is visible to *)
(* the goroutine its OnCmd spawns, and B's OnData reads it back as bytes.  *)
NoPanic == ~panicked

\* The phase of spec 4.5 each stage of the core stands for.
PhaseOf(s) ==
    CASE s \in {"unconfigured", "configuring"}             -> 1
      [] s \in {"configured", "initing"}                   -> 2
      [] s \in {"inited", "starting"}                      -> 3
      [] s = "started"                                     -> 4
      [] s \in {"stopping", "stopped", "deiniting"}        -> 5
      [] OTHER                                             -> 6

LC == INSTANCE LifecycleSpec WITH
        Msgs <- ClientCmds \cup {<<"data", k>> : k \in ClientCmds},
        phase <- [e \in Exts |-> PhaseOf(stage[e])],
        handled <- [e \in Exts |->
                      IF e = "A" THEN {k \in ClientCmds : cmd[k] \in {"delivered", "answered"}}
                      ELSE {<<"data", k>> : k \in {j \in ClientCmds : data[j].st = "received"}}]

(* The app follows the lifecycle of spec 4.5: A and B pass through every   *)
(* phase in order, each once; OnCmd and OnData run only while started; and *)
(* both eventually reach Deinitialized.                                    *)
LifecycleRefined == LC!Spec

=============================================================================
