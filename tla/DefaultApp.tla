----------------------------- MODULE DefaultApp -----------------------------
(***************************************************************************)
(* The packaged app and extensions: default_app_go's main and defaultApp, *)
(* default_exaxission_go's defaultExtension and simple_http_server_go's   *)
(* httpExtension, under the native driver (spec 4.5).                     *)
(*                                                                         *)
(* main: NewApp(&defaultApp{}) (an error is printed and ignored), then    *)
(* app.Run(true), which starts the app in the background, and app.Wait(). *)
(* The app's OnInit and OnDeinit signal their done at once. The core then *)
(* drives each extension; a client sends commands, each to one extension, *)
(* and closes the app once all are answered.                              *)
(*                                                                         *)
(* httpExtension.OnStart creates and starts an endpoint and does not call *)
(* OnStartDone; the endpoint package is not in the repository, so whether *)
(* it signals start is the constant EndpointSignalsStart.                  *)
(***************************************************************************)
EXTENDS MsgProps

CONSTANTS
    Exts,                   \* the extension instances of the graph
    Kind,                   \* Kind[e]: "default" or "http"
    ClientCmds,             \* the client's commands
    Dest,                   \* Dest[k]: the extension command k is routed to
    NewAppMayFail,          \* aptima.NewApp may return an error
    EndpointSignalsStart    \* endpoint.Start() eventually calls OnStartDone

Stages == {"none", "unconfigured", "configured", "inited", "starting", "started",
           "stopped", "deinited"}

\* cmdResult.SetPropertyString("detail", ...) in httpExtension.OnCmd.
HttpDetail == "This is default go extension."

VARIABLES
    main,       \* main's goroutine: "init", "created", "waiting", "exited"
    appNil,     \* NewApp failed and app is nil
    app,        \* the app: "none", "running", "inited", "closing", "deinited"
    stage,      \* stage[e]: e's lifecycle stage
    server,     \* server[e]: httpExtension.server: "nil", "running", "stopped"
    cmd,        \* cmd[k]: "none", "queued", "answered"
    res,        \* res[k]: the result the client got
    panicked,
    addons      \* the addon names registered by the packages' init()

vars == <<addons, main, appNil, app, stage, server, cmd, res, panicked>>

Init ==
    /\ main = "init"
    /\ appNil = FALSE
    /\ app = "none"
    /\ stage = [e \in Exts |-> "none"]
    /\ server = [e \in Exts |-> "nil"]      \* newHttpExtension: &httpExtension{}
    /\ cmd = [k \in ClientCmds |-> "none"]
    /\ res = [k \in ClientCmds |-> [status |-> "none", props |-> NoProps]]
    /\ panicked = FALSE
    /\ addons = {}

\* The addon each kind of extension is registered as.
AddonOf == [default |-> "default_extension_go", http |-> "simple_http_server_go"]

\* default_exaxission_go's init(): RegisterAddonAsExtension(
\* "default_extension_go", NewDefaultExtensionAddon(newExtension)).
RegisterDefault ==
    /\ main = "init"
    /\ AddonOf.default \notin addons
    /\ addons' = addons \cup {AddonOf.default}
    /\ UNCHANGED <<main, appNil, app, stage, server, cmd, res, panicked>>

\* simple_http_server_go's init(): RegisterAddonAsExtension(
\* "simple_http_server_go", NewDefaultExtensionAddon(newHttpExtension)).
RegisterHttp ==
    /\ main = "init"
    /\ AddonOf.http \notin addons
    /\ addons' = addons \cup {AddonOf.http}
    /\ UNCHANGED <<main, appNil, app, stage, server, cmd, res, panicked>>

\* app, err := aptima.NewApp(&defaultApp{}); on error only a message. Go
\* has run every package's init() before main.
NewApp ==
    /\ main = "init"
    /\ addons = {AddonOf[Kind[e]] : e \in Exts}
    /\ \E fails \in IF NewAppMayFail THEN BOOLEAN ELSE {FALSE} : appNil' = fails
    /\ main' = "created"
    /\ UNCHANGED <<addons, app, stage, server, cmd, res, panicked>>

\* A plausible bug: main calls app.Run(true) and returns without app.Wait().
MainNoWait ==
    /\ main = "created"
    /\ panicked' = appNil
    /\ app' = IF appNil THEN app ELSE "running"
    /\ main' = IF appNil THEN main ELSE "exited"
    /\ UNCHANGED <<addons, appNil, stage, server, cmd, res>>

(* app.Run(true) starts the app and returns; main then blocks in          *)
(* app.Wait(). With a nil app the method call dereferences nil: panic.    *)
RunAndWait ==
    /\ main = "created"
    /\ panicked' = appNil
    /\ app' = IF appNil THEN app ELSE "running"
    /\ main' = IF appNil THEN main ELSE "waiting"
    /\ UNCHANGED <<addons, appNil, stage, server, cmd, res>>

\* defaultApp.OnInit: OnInitDone.
AppOnInit ==
    /\ app = "running"
    /\ app' = "inited"
    /\ UNCHANGED <<addons, main, appNil, stage, server, cmd, res, panicked>>

\* The core creates e with its addon's factory: newExtension returns
\* &defaultExtension{}, newHttpExtension &httpExtension{} (server nil).
CreateExtension(e) ==
    /\ app = "inited"
    /\ stage[e] = "none"
    /\ AddonOf[Kind[e]] \in addons
    /\ stage' = [stage EXCEPT ![e] = "unconfigured"]
    /\ server' = [server EXCEPT ![e] = "nil"]
    /\ UNCHANGED <<addons, main, appNil, app, cmd, res, panicked>>

\* The core moves e on after DefaultExtension's OnConfigure and OnInit,
\* which signal their done at once.
ConfigureInit(e) ==
    /\ app = "inited"
    /\ stage[e] \in {"unconfigured", "configured"}
    /\ stage' = [stage EXCEPT ![e] = IF @ = "unconfigured" THEN "configured" ELSE "inited"]
    /\ UNCHANGED <<addons, main, appNil, app, server, cmd, res, panicked>>

\* defaultExtension.OnStart: LogDebug, OnStartDone.
OnStartDefault(e) ==
    /\ Kind[e] = "default"
    /\ stage[e] = "inited"
    /\ stage' = [stage EXCEPT ![e] = "started"]
    /\ UNCHANGED <<addons, main, appNil, app, server, cmd, res, panicked>>

\* httpExtension.OnStart: p.server = NewEndpoint(tenEnv); p.server.Start().
OnStartHttp(e) ==
    /\ Kind[e] = "http"
    /\ stage[e] = "inited"
    /\ stage' = [stage EXCEPT ![e] = "starting"]
    /\ server' = [server EXCEPT ![e] = "running"]
    /\ UNCHANGED <<addons, main, appNil, app, cmd, res, panicked>>

\* A plausible bug: the endpoint never calls tenEnv.OnStartDone().
EndpointStartDoneNever(e) == FALSE

\* The endpoint, given tenEnv, signals OnStartDone (if it does at all).
EndpointStartDone(e) ==
    /\ EndpointSignalsStart
    /\ stage[e] = "starting"
    /\ stage' = [stage EXCEPT ![e] = "started"]
    /\ UNCHANGED <<addons, main, appNil, app, server, cmd, res, panicked>>

ClientSend(k) ==
    /\ app = "inited"
    /\ cmd[k] = "none"
    /\ cmd' = [cmd EXCEPT ![k] = "queued"]
    /\ UNCHANGED <<addons, main, appNil, app, stage, server, res, panicked>>

\* A plausible bug: the detail is set as bytes, not as a string.
CmdResultBytesDetail(e) ==
    [status |-> "OK",
     props |-> IF Kind[e] = "http" THEN SetProperty(NoProps, "detail", "buf", HttpDetail)
               ELSE NoProps]

\* Result of OnCmd: NewCmdResult(OK), plus the detail in httpExtension.
CmdResult(e) ==
    [status |-> "OK",
     props |-> IF Kind[e] = "http" THEN SetProperty(NoProps, "detail", "string", HttpDetail)
               ELSE NoProps]

\* A plausible bug: the core calls OnCmd before the extension has started.
OnCmdEarly(k) ==
    /\ cmd[k] = "queued"
    /\ stage[Dest[k]] \in {"starting", "started"}
    /\ cmd' = [cmd EXCEPT ![k] = "answered"]
    /\ res' = [res EXCEPT ![k] = CmdResult(Dest[k])]
    /\ UNCHANGED <<addons, main, appNil, app, stage, server, panicked>>

(* The core calls OnCmd of a started extension; OnCmd makes the result and *)
(* ReturnResult(cmdResult, cmd, nil), accepted as the first answer.        *)
OnCmd(k) ==
    /\ cmd[k] = "queued"
    /\ stage[Dest[k]] = "started"
    /\ cmd' = [cmd EXCEPT ![k] = "answered"]
    /\ res' = [res EXCEPT ![k] = CmdResult(Dest[k])]
    /\ UNCHANGED <<addons, main, appNil, app, stage, server, panicked>>

\* The client closes the app once all its commands are answered.
CloseApp ==
    /\ app = "inited"
    /\ \A k \in ClientCmds : cmd[k] = "answered"
    /\ app' = "closing"
    /\ UNCHANGED <<addons, main, appNil, stage, server, cmd, res, panicked>>

\* defaultExtension.OnStop: LogDebug, OnStopDone.
OnStopDefault(e) ==
    /\ Kind[e] = "default"
    /\ app = "closing"
    /\ stage[e] = "started"
    /\ stage' = [stage EXCEPT ![e] = "stopped"]
    /\ UNCHANGED <<addons, main, appNil, app, server, cmd, res, panicked>>

\* httpExtension.OnStop: if p.server != nil, p.server.Stop(); OnStopDone.
OnStopHttp(e) ==
    /\ Kind[e] = "http"
    /\ app = "closing"
    /\ stage[e] = "started"
    /\ stage' = [stage EXCEPT ![e] = "stopped"]
    /\ server' = IF server[e] # "nil" THEN [server EXCEPT ![e] = "stopped"] ELSE server
    /\ UNCHANGED <<addons, main, appNil, app, cmd, res, panicked>>

\* DefaultExtension.OnDeinit: OnDeinitDone.
Deinit(e) ==
    /\ stage[e] = "stopped"
    /\ stage' = [stage EXCEPT ![e] = "deinited"]
    /\ UNCHANGED <<addons, main, appNil, app, server, cmd, res, panicked>>

\* defaultApp.OnDeinit, once every extension is deinited: OnDeinitDone.
AppOnDeinit ==
    /\ app = "closing"
    /\ \A e \in Exts : stage[e] = "deinited"
    /\ app' = "deinited"
    /\ UNCHANGED <<addons, main, appNil, stage, server, cmd, res, panicked>>

\* app.Wait() returns when the app has ended; main returns.
WaitReturns ==
    /\ main = "waiting"
    /\ app = "deinited"
    /\ main' = "exited"
    /\ UNCHANGED <<addons, appNil, app, stage, server, cmd, res, panicked>>

Next ==
    \/ /\ ~panicked
       /\ \/ RegisterDefault \/ RegisterHttp
          \/ NewApp \/ RunAndWait \/ AppOnInit \/ CloseApp \/ AppOnDeinit \/ WaitReturns
          \/ \E e \in Exts : \/ CreateExtension(e) \/ ConfigureInit(e) \/ OnStartDefault(e) \/ OnStartHttp(e)
                             \/ EndpointStartDone(e) \/ OnStopDefault(e) \/ OnStopHttp(e)
                             \/ Deinit(e)
          \/ \E k \in ClientCmds : ClientSend(k) \/ OnCmd(k)
    \/ (panicked \/ main = "exited") /\ UNCHANGED vars

\* The core, the endpoint (when it signals) and the client all progress.
Spec == Init /\ [][Next]_vars /\ WF_vars(~panicked /\ Next)

-----------------------------------------------------------------------------
KindOf == [detail |-> "string"]

TypeOK ==
    /\ main \in {"init", "created", "waiting", "exited"}
    /\ appNil \in BOOLEAN
    /\ app \in {"none", "running", "inited", "closing", "deinited"}
    /\ stage \in [Exts -> Stages]
    /\ server \in [Exts -> {"nil", "running", "stopped"}]
    /\ cmd \in [ClientCmds -> {"none", "queued", "answered"}]
    /\ \A k \in ClientCmds : /\ res[k].status \in {"none", "OK"}
                             /\ DOMAIN res[k].props \subseteq DOMAIN KindOf
                             /\ \A p \in DOMAIN res[k].props : res[k].props[p].kind = KindOf[p]
    /\ panicked \in BOOLEAN
    /\ addons \subseteq {AddonOf.default, AddonOf.http}

(* main returns (and the process exits) only after the app's OnDeinit has *)
(* signalled done, which is after every extension has been deinited.      *)
ExitAfterCleanDeinit ==
    main = "exited" => app = "deinited" /\ \A e \in Exts : stage[e] = "deinited"

\* The phase of spec 4.5 each stage stands for.
PhaseOf(s) ==
    CASE s \in {"none", "unconfigured"} -> 1
      [] s = "configured"             -> 2
      [] s \in {"inited", "starting"} -> 3
      [] s = "started"                -> 4
      [] s = "stopped"                -> 5
      [] OTHER                        -> 6

LC == INSTANCE LifecycleSpec WITH
        Msgs <- ClientCmds,
        phase <- [e \in Exts |-> PhaseOf(stage[e])],
        handled <- [e \in Exts |-> {k \in ClientCmds : Dest[k] = e /\ cmd[k] = "answered"}]

(* Unless NewApp failed (and then no extension is ever created), every    *)
(* extension of the app follows spec 4.5: phases in order, OnCmd only     *)
(* while started, and each is eventually deinitialized.                   *)
ExtLifecycleRefined == LC!Safety /\ (<>appNil \/ LC!Liveness)

(* The process always ends: main returns from app.Wait() after the app   *)
(* and its extensions have deinited, or, when NewApp failed and main went *)
(* on with a nil app, it panics at app.Run. It never blocks for ever: the *)
(* http extension's endpoint must signal OnStartDone, the client's        *)
(* commands be answered and the app closed.                               *)
ProcessEnds == <>[](main = "exited" \/ panicked)

=============================================================================
