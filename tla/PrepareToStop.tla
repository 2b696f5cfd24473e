---------------------------- MODULE PrepareToStop ----------------------------
(***************************************************************************)
(* The prepare_to_stop_go app: three extensions whose OnStop drains work   *)
(* before signalling OnStopDone, under the native core's lifecycle driver. *)
(*   A (axis_packages/.../exaxission_a): OnStop spawns a goroutine that    *)
(*     sends a new "stop" command and waits on respChan for its result;    *)
(*     OK sets isStopped and signals OnStopDone. OnDeinit panics unless    *)
(*     isStopped. OnCmd forwards "start" and returns its result directly.  *)
(*   B (ten_packages/.../extension_b): OnCmd forwards "start" and "stop";  *)
(*     the "stop" callback returns the result directly and closes          *)
(*     stopChan. OnStop blocks a goroutine on stopChan, then OnStopDone.   *)
(*   C (ten_packages/.../extension_c): answers "start" at once; for "stop" *)
(*     a goroutine sleeps, returns the result, then closes stopChan. OnStop*)
(*     blocks on stopChan like B.                                          *)
(* The graph routes A -> B -> C; the test client sends "start" to A.       *)
(* Every handler body after `go func()` runs as its own goroutine step.    *)
(***************************************************************************)
EXTENDS Naturals, Sequences

CONSTANT
  DeliverPhases  \* lifecycle phases in which the native core calls OnCmd

Exts == {"A", "B", "C"}
Ids == {"start", "stop"}    \* the two commands; a command's id is its name

\* Native lifecycle of an extension: "init" covers configure/init/start,
\* each of which DefaultExtension completes at once.
Phases == {"init", "started", "stopping", "deiniting", "deinited"}

\* Graph of the app: where an extension's SendCmd delivers.
Dest == [A |-> "B", B |-> "C"]

\* Lifecycle of a command: not sent, queued at an extension, its OnCmd
\* goroutine pending, held by C's sleeping goroutine, result travelling
\* back along its route, answered, or lost (a send or return that failed).
CmdStates == {"none", "queued", "running", "held", "result", "done", "lost"}

VARIABLES
  phase,        \* native: lifecycle phase of each extension
  closing,      \* native: the app is closing (OnStop is due)
  cmd,          \* per command: state, extension it is at, route, status
  aStop,        \* A's OnStop goroutine: "idle", "send", "wait", "done"
  respChan,     \* A's respChan: "empty" or the status of the stop result
  isStopped,    \* A.isStopped
  stopChan,     \* B's and C's stopChan: closed?
  stopWaiting,  \* B's and C's OnStop goroutine blocked on <-stopChan
  cStop,        \* C's goroutine answering "stop": "idle", "sleep", "replied", "done"
  panicked      \* some goroutine panicked

vars == <<phase, closing, cmd, aStop, respChan, isStopped, stopChan,
          stopWaiting, cStop, panicked>>

Init ==
  /\ phase = [e \in Exts |-> "init"]
  /\ closing = FALSE
  /\ cmd = [i \in Ids |-> [st |-> "none", at |-> "A", route |-> <<>>,
                           status |-> "ok"]]
  /\ aStop = "idle"
  /\ respChan = "empty"
  /\ isStopped = FALSE
  /\ stopChan = [e \in {"B", "C"} |-> FALSE]
  /\ stopWaiting = [e \in {"B", "C"} |-> FALSE]
  /\ cStop = "idle"
  /\ panicked = FALSE

\* A tenEnv is expired once its extension's deinit is done.
Expired(e) == phase[e] = "deinited"

-----------------------------------------------------------------------------
(* Native core: lifecycle and delivery.                                    *)

\* DefaultExtension's OnConfigure, OnInit and OnStart signal done at once.
Startup(e) ==
  /\ phase[e] = "init"
  /\ phase' = [phase EXCEPT ![e] = "started"]
  /\ UNCHANGED <<closing, cmd, aStop, respChan, isStopped, stopChan,
                 stopWaiting, cStop, panicked>>

\* The app is closed (the test's client or signal).
AppClose ==
  /\ ~closing
  /\ closing' = TRUE
  /\ UNCHANGED <<phase, cmd, aStop, respChan, isStopped, stopChan,
                 stopWaiting, cStop, panicked>>

\* The test client sends "start" to A.
ClientSendStart ==
  /\ cmd["start"].st = "none"
  /\ cmd' = [cmd EXCEPT !["start"] = [@ EXCEPT !.st = "queued", !.at = "A",
                                               !.route = <<"client">>]]
  /\ UNCHANGED <<phase, closing, aStop, respChan, isStopped, stopChan,
                 stopWaiting, cStop, panicked>>

\* Mutant: a command queued for an extension that has finished stopping is
\* neither delivered nor answered with an error.
DeliverNoErrorResult(i) ==
  LET e == cmd[i].at IN
  /\ cmd[i].st = "queued"
  /\ phase[e] \in DeliverPhases
  /\ cmd' = [cmd EXCEPT ![i].st = "running"]
  /\ UNCHANGED <<phase, closing, aStop, respChan, isStopped, stopChan,
                 stopWaiting, cStop, panicked>>

\* The native core hands a queued command to OnCmd of its destination in a
\* phase of DeliverPhases (each OnCmd only spawns its goroutine), or answers
\* it with an error once the destination has finished stopping.
Deliver(i) ==
  LET e == cmd[i].at IN
  /\ cmd[i].st = "queued"
  /\ \/ /\ phase[e] \in DeliverPhases
        /\ cmd' = [cmd EXCEPT ![i].st = "running"]
     \/ /\ phase[e] \in {"deiniting", "deinited"}
        /\ cmd' = [cmd EXCEPT ![i].st = "result", ![i].status = "error"]
  /\ UNCHANGED <<phase, closing, aStop, respChan, isStopped, stopChan,
                 stopWaiting, cStop, panicked>>

-----------------------------------------------------------------------------
(* Go side: tenEnv calls used by the handlers.                             *)

\* tenEnv.SendCmd(cmd, cb) from extension e: fails synchronously, without a
\* callback, once e's tenEnv expired; otherwise the command travels on with e
\* pushed on its route.
SendCmd(c, e) ==
  IF Expired(e) THEN [c EXCEPT !.st = "lost"]
  ELSE [c EXCEPT !.st = "queued", !.at = Dest[e], !.route = Append(@, e)]

\* Mutant: the result is returned without its status code.
ReturnResultNoStatus(c, e, status) ==
  IF Expired(e) THEN [c EXCEPT !.st = "lost"]
  ELSE [c EXCEPT !.st = "result", !.status = "unset"]

\* tenEnv.ReturnResult(result, cmd) / ReturnResultDirectly(result) from e:
\* the result travels back to the last sender on the route.
ReturnResult(c, e, status) ==
  IF Expired(e) THEN [c EXCEPT !.st = "lost"]
  ELSE [c EXCEPT !.st = "result", !.status = status]

-----------------------------------------------------------------------------
(* Handlers: OnCmd goroutines.                                             *)

\* A.OnCmd: `if cmdName == "start" { tenEnv.SendCmd(cmd, cb) }`.
OnCmdA(i) == IF i = "start" THEN SendCmd(cmd[i], "A") ELSE cmd[i]

\* B.OnCmd: "start" and "stop" are forwarded with SendCmd(cmd, cb).
OnCmdB(i) == SendCmd(cmd[i], "B")

\* C.OnCmd: "start" is answered at once; "stop" goes to a goroutine that
\* sleeps before answering.
OnCmdC(i) ==
  IF i = "start" THEN ReturnResult(cmd[i], "C", "ok")
  ELSE [cmd[i] EXCEPT !.st = "held"]

RunOnCmd(i) ==
  LET e == cmd[i].at IN
  /\ cmd[i].st = "running"
  /\ cmd' = [cmd EXCEPT ![i] = CASE e = "A" -> OnCmdA(i)
                                 [] e = "B" -> OnCmdB(i)
                                 [] e = "C" -> OnCmdC(i)]
  /\ cStop' = IF e = "C" /\ i = "stop" THEN "sleep" ELSE cStop
  /\ UNCHANGED <<phase, closing, aStop, respChan, isStopped, stopChan,
                 stopWaiting, panicked>>

\* C's "stop" goroutine after its sleep: ReturnResult(OK, cmd) ...
CReplyStop ==
  /\ cStop = "sleep"
  /\ cmd' = [cmd EXCEPT !["stop"] = ReturnResult(@, "C", "ok")]
  /\ cStop' = "replied"
  /\ UNCHANGED <<phase, closing, aStop, respChan, isStopped, stopChan,
                 stopWaiting, panicked>>

\* ... then close(p.stopChan).
CCloseStopChan ==
  /\ cStop = "replied"
  /\ stopChan' = [stopChan EXCEPT !["C"] = TRUE]
  /\ cStop' = "done"
  /\ UNCHANGED <<phase, closing, cmd, aStop, respChan, isStopped,
                 stopWaiting, panicked>>

-----------------------------------------------------------------------------
(* Result callbacks, run by the native core on the sender's thread.        *)

\* Mutant: B's stop callback forgets close(p.stopChan).
CloseStopChanBNever == stopChan

\* B's stop callback: close(p.stopChan).
CloseStopChanB == [stopChan EXCEPT !["B"] = TRUE]

\* The callback of the last sender on the route receives the result; a
\* deinited sender's callback never runs.
DeliverResult(i) ==
  LET s == cmd[i].route[Len(cmd[i].route)]
      back == [cmd[i] EXCEPT !.route = SubSeq(@, 1, Len(@) - 1)]
  IN
  /\ cmd[i].st = "result"
  /\ CASE s = "client" ->
            /\ cmd' = [cmd EXCEPT ![i].st = "done"]
            /\ UNCHANGED <<respChan, stopChan, panicked>>
       [] s # "client" /\ Expired(s) ->
            /\ cmd' = [cmd EXCEPT ![i].st = "lost"]
            /\ UNCHANGED <<respChan, stopChan, panicked>>
       \* A's stop callback: respChan <- cmdResult
       [] s = "A" /\ i = "stop" ->
            /\ respChan' = cmd[i].status
            /\ cmd' = [cmd EXCEPT ![i].st = "done"]
            /\ UNCHANGED <<stopChan, panicked>>
       \* B's stop callback: ReturnResultDirectly(cs), close(p.stopChan)
       [] s = "B" /\ i = "stop" ->
            /\ cmd' = [cmd EXCEPT ![i] = ReturnResult(back, "B", @.status)]
            /\ stopChan' = CloseStopChanB
            /\ panicked' = (panicked \/ stopChan["B"])
            /\ UNCHANGED respChan
       \* A's and B's start callbacks: r.ReturnResultDirectly(cs, nil)
       [] OTHER ->
            /\ cmd' = [cmd EXCEPT ![i] = ReturnResult(back, s, @.status)]
            /\ UNCHANGED <<respChan, stopChan, panicked>>
  /\ UNCHANGED <<phase, closing, aStop, isStopped, stopWaiting, cStop>>

-----------------------------------------------------------------------------
(* Lifecycle handlers.                                                     *)

\* A.OnStop spawns the goroutine that sends "stop".
OnStopA == [aStop |-> "send", stopWaiting |-> stopWaiting]

\* B.OnStop and C.OnStop spawn a goroutine blocked on <-p.stopChan.
OnStopWaiter(e) == [aStop |-> aStop, stopWaiting |-> [stopWaiting EXCEPT ![e] = TRUE]]

\* The native core calls OnStop of a started extension once the app closes.
OnStop(e) ==
  LET h == IF e = "A" THEN OnStopA ELSE OnStopWaiter(e) IN
  /\ closing
  /\ phase[e] = "started"
  /\ phase' = [phase EXCEPT ![e] = "stopping"]
  /\ aStop' = h.aStop
  /\ stopWaiting' = h.stopWaiting
  /\ UNCHANGED <<closing, cmd, respChan, isStopped, stopChan, cStop, panicked>>

\* A's stop goroutine: cmd := NewCmd("stop"); tenEnv.SendCmd(cmd, cb).
AStopSend ==
  /\ aStop = "send"
  /\ cmd' = [cmd EXCEPT !["stop"] = SendCmd([@ EXCEPT !.route = <<>>], "A")]
  /\ aStop' = "wait"
  /\ UNCHANGED <<phase, closing, respChan, isStopped, stopChan, stopWaiting,
                 cStop, panicked>>

\* Mutant: the goroutine signals OnStopDone without setting isStopped.
AStopRecvNoFlag ==
  /\ aStop = "wait"
  /\ respChan # "empty"
  /\ aStop' = "done"
  /\ IF respChan = "ok"
       THEN /\ phase' = [phase EXCEPT !["A"] = "deiniting"]
            /\ UNCHANGED <<panicked, isStopped>>
       ELSE /\ panicked' = TRUE
            /\ UNCHANGED <<isStopped, phase>>
  /\ UNCHANGED <<closing, cmd, respChan, stopChan, stopWaiting, cStop>>

\* A's stop goroutine: `resp := <-respChan`; OK sets isStopped and signals
\* OnStopDone, anything else panics.
AStopRecv ==
  /\ aStop = "wait"
  /\ respChan # "empty"
  /\ aStop' = "done"
  /\ IF respChan = "ok"
       THEN /\ isStopped' = TRUE
            /\ phase' = [phase EXCEPT !["A"] = "deiniting"]
            /\ UNCHANGED panicked
       ELSE /\ panicked' = TRUE
            /\ UNCHANGED <<isStopped, phase>>
  /\ UNCHANGED <<closing, cmd, respChan, stopChan, stopWaiting, cStop>>

\* Mutant: the goroutine does not block on stopChan.
StopChanDoneNoWait(e) ==
  /\ stopWaiting[e]
  /\ stopWaiting' = [stopWaiting EXCEPT ![e] = FALSE]
  /\ phase' = [phase EXCEPT ![e] = "deiniting"]
  /\ UNCHANGED <<closing, cmd, aStop, respChan, isStopped, stopChan, cStop,
                 panicked>>

\* B's or C's OnStop goroutine: `<-p.stopChan` returns, then OnStopDone.
StopChanDone(e) ==
  /\ stopWaiting[e]
  /\ stopChan[e]
  /\ stopWaiting' = [stopWaiting EXCEPT ![e] = FALSE]
  /\ phase' = [phase EXCEPT ![e] = "deiniting"]
  /\ UNCHANGED <<closing, cmd, aStop, respChan, isStopped, stopChan, cStop,
                 panicked>>

\* OnDeinit: A panics unless isStopped (its deferred OnDeinitDone still
\* runs); B and C use DefaultExtension's OnDeinit. Then the tenEnv expires.
OnDeinit(e) ==
  /\ phase[e] = "deiniting"
  /\ phase' = [phase EXCEPT ![e] = "deinited"]
  /\ panicked' = (panicked \/ (e = "A" /\ ~isStopped))
  /\ UNCHANGED <<closing, cmd, aStop, respChan, isStopped, stopChan,
                 stopWaiting, cStop>>

AllDeinited == \A e \in Exts : phase[e] = "deinited"

Next ==
  \/ \E e \in Exts : Startup(e) \/ OnStop(e) \/ OnDeinit(e)
  \/ AppClose
  \/ ClientSendStart
  \/ \E i \in Ids : Deliver(i) \/ RunOnCmd(i) \/ DeliverResult(i)
  \/ CReplyStop \/ CCloseStopChan
  \/ AStopSend \/ AStopRecv
  \/ \E e \in {"B", "C"} : StopChanDone(e)
  \/ AllDeinited /\ UNCHANGED vars

\* The native core keeps driving every extension and delivering what it
\* can, goroutines that can run eventually run, and the app is eventually
\* closed; the client need not send "start".
Fairness ==
  /\ \A e \in Exts : WF_vars(Startup(e)) /\ WF_vars(OnStop(e))
                     /\ WF_vars(OnDeinit(e))
  /\ WF_vars(AppClose)
  /\ \A i \in Ids : WF_vars(Deliver(i)) /\ WF_vars(RunOnCmd(i))
                    /\ WF_vars(DeliverResult(i))
  /\ WF_vars(CReplyStop) /\ WF_vars(CCloseStopChan)
  /\ WF_vars(AStopSend) /\ WF_vars(AStopRecv)
  /\ \A e \in {"B", "C"} : WF_vars(StopChanDone(e))

Spec == Init /\ [][Next]_vars /\ Fairness

-----------------------------------------------------------------------------
(* Properties                                                              *)

TypeOK ==
  /\ phase \in [Exts -> Phases]
  /\ closing \in BOOLEAN
  /\ \A i \in Ids :
       /\ cmd[i].st \in CmdStates
       /\ cmd[i].at \in Exts
       /\ cmd[i].route \in Seq(Exts \cup {"client"})
       /\ cmd[i].status \in {"ok", "error"}
  /\ aStop \in {"idle", "send", "wait", "done"}
  /\ respChan \in {"empty", "ok", "error"}
  /\ isStopped \in BOOLEAN
  /\ stopChan \in [{"B", "C"} -> BOOLEAN]
  /\ stopWaiting \in [{"B", "C"} -> BOOLEAN]
  /\ cStop \in {"idle", "sleep", "replied", "done"}
  /\ panicked \in BOOLEAN

\* No goroutine panics: A's OnDeinit finds isStopped set (A only signals
\* OnStopDone after an OK answer to its "stop"), A never receives a failed
\* "stop", and B's stopChan is never closed twice.
NoPanic == ~panicked

\* Prepare to stop: B and C leave "stopping" only after C has answered the
\* "stop" command, i.e. the work A asked them to drain is done before their
\* native resources are torn down.
StopAfterDrain ==
  \A e \in {"B", "C"} :
    phase[e] \in {"deiniting", "deinited"} => cStop \in {"replied", "done"}

\* The client's "start" never stays pending: whatever the order in which A,
\* B and C stop, once sent it is eventually answered to the client, or
\* fails for good on an expired tenEnv (A's goroutine sending after A's
\* deinit, or a callback of a deinited extension), and it fails only after
\* the app has closed.
StartSettles ==
  /\ cmd["start"].st # "none" ~> cmd["start"].st \in {"done", "lost"}
  /\ [](cmd["start"].st = "lost" => closing)

\* Once the app closes every extension is eventually deinited: OnStop of A,
\* B and C, which wait on each other through the "stop" command, all reach
\* OnStopDone.
EventuallyAllDeinited == <>AllDeinited

=============================================================================
