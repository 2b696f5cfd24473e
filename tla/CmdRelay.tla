------------------------------ MODULE CmdRelay ------------------------------
(***************************************************************************)
(* The command relay of three_extension_cmd_go. The client sends "A" to   *)
(* extension A. A's OnCmd goroutine sends "B" with data = 2 to B; B's     *)
(* goroutine sends "C" with data * 3 to C; C's goroutine answers with the *)
(* JSON detail {"result": data * 5}. Each send callback runs on the       *)
(* sender's thread and answers the command the sender received with the  *)
(* detail it got. Several client commands are in flight at once, so the   *)
(* goroutines and callbacks of different chains interleave.               *)
(*                                                                         *)
(* cmd[id] is one command object and its pending call:                    *)
(*   "unsent"    not yet created;                                          *)
(*   "queued"    sent, not yet delivered by the native core;               *)
(*   "delivered" OnCmd has spawned its goroutine, which has not run yet;   *)
(*   "handled"   the goroutine has run and has not answered it;            *)
(*   "answered"  a result is set and in flight to the sender's callback;   *)
(*   "closed"    the sender's callback has run.                            *)
(***************************************************************************)
EXTENDS Integers, MsgProps

CONSTANT ClientCmds   \* the "A" commands the test client sends

VARIABLES
    cmd,        \* cmd[id]: [st, props, res], see above
    panicked    \* a goroutine or callback has panicked (the process dies)

vars == <<cmd, panicked>>

\* The command a chain derives: <<"B", k>> from A, <<"C", k>> from B.
Ids == ClientCmds \cup {<<x, k>> : x \in {"B", "C"}, k \in ClientCmds}

CmdStates == {"unsent", "queued", "delivered", "handled", "answered", "closed"}

\* The command the sender of id received, and answers with id's result.
Parent(id) == IF id[1] = "B" THEN id[2] ELSE <<"B", id[2]>>

\* Whose callback receives id's result (routes of the app's graph).
Sender(id) ==
    CASE id \in ClientCmds -> "client"
      [] id[1] = "B"       -> "A"
      [] OTHER             -> "B"

NoResult == [status |-> "none", props |-> NoProps]

\* json.Marshal(userData{Result: r}): the string {"result":r}.
JsonResult(r) == [json |-> "result", val |-> r]

Init ==
    /\ cmd = [id \in Ids |-> [st |-> "unsent", props |-> NoProps, res |-> NoResult]]
    /\ panicked = FALSE

(* tenEnv.SendCmd of a command created by NewCmd: the native core queues it *)
(* toward the next extension. The tenEnv is live here, so it never fails.   *)
SendCmd(c, id, props) == [c EXCEPT ![id].st = "queued", ![id].props = props]

(* tenEnv.ReturnResult(res, id): the native core accepts a result only for  *)
(* a command that has none yet; otherwise the call returns an error.        *)
ReturnResult(c, id, res) ==
    IF c[id].st \in {"delivered", "handled"}
      THEN [ok |-> TRUE, cmds |-> [c EXCEPT ![id].st = "answered", ![id].res = res]]
      ELSE [ok |-> FALSE, cmds |-> c]

\* The goroutine run mark: the command it handles leaves "delivered".
Handled(id) == [cmd EXCEPT ![id].st = "handled"]

ClientSend(k) ==
    /\ cmd[k].st = "unsent"
    /\ cmd' = [cmd EXCEPT ![k].st = "queued"]
    /\ UNCHANGED panicked

\* The native core calls OnCmd of the destination, which spawns a goroutine.
Deliver(id) ==
    /\ cmd[id].st = "queued"
    /\ cmd' = [cmd EXCEPT ![id].st = "delivered"]
    /\ UNCHANGED panicked

\* A's goroutine: NewCmd("B"), SetProperty("data", 2), SendCmd.
OnCmdA(k) ==
    /\ cmd[k].st = "delivered"
    /\ cmd' = SendCmd(Handled(k), <<"B", k>>, SetProperty(NoProps, "data", "int", 2))
    /\ UNCHANGED panicked

\* A plausible bug: B forwards data without multiplying it.
OnCmdBUntripled(b) ==
    LET data == GetProperty(cmd[b].props, "data", "int") IN
    /\ cmd[b].st = "delivered"
    /\ panicked' = (data.err # "ok")
    /\ cmd' = IF data.err # "ok" THEN Handled(b)
              ELSE SendCmd(Handled(b), <<"C", b[2]>>,
                           SetProperty(NoProps, "data", "int", data.val))

\* B's goroutine: GetPropertyInt64("data") (panic on error), NewCmd("C"),
\* SetProperty("data", data*3), SendCmd.
OnCmdB(b) ==
    LET data == GetProperty(cmd[b].props, "data", "int") IN
    /\ cmd[b].st = "delivered"
    /\ panicked' = (data.err # "ok")
    /\ cmd' = IF data.err # "ok" THEN Handled(b)
              ELSE SendCmd(Handled(b), <<"C", b[2]>>,
                           SetProperty(NoProps, "data", "int", data.val * 3))

\* A plausible bug: C stores the integer result, not its JSON string.
OnCmdCIntDetail(c) ==
    LET data == GetProperty(cmd[c].props, "data", "int")
        res  == [status |-> "OK",
                 props |-> SetProperty(NoProps, "detail", "int", data.val * 5)]
        r    == ReturnResult(cmd, c, res)
    IN /\ cmd[c].st = "delivered"
       /\ panicked' = (data.err # "ok" \/ ~r.ok)
       /\ cmd' = IF data.err # "ok" THEN Handled(c) ELSE r.cmds

\* C's goroutine: GetPropertyInt64("data"), result = data*5, json.Marshal,
\* SetPropertyString("detail", ...), ReturnResult (panic on any error).
OnCmdC(c) ==
    LET data == GetProperty(cmd[c].props, "data", "int")
        res  == [status |-> "OK",
                 props |-> SetProperty(NoProps, "detail", "string",
                                       JsonResult(data.val * 5))]
        r    == ReturnResult(cmd, c, res)
    IN /\ cmd[c].st = "delivered"
       /\ panicked' = (data.err # "ok" \/ ~r.ok)
       /\ cmd' = IF data.err # "ok" THEN Handled(c) ELSE r.cmds

(* The send callback of A and of B: GetPropertyString("detail") (panic on  *)
(* error), a new OK result with that detail, ReturnResult on the command   *)
(* the goroutine received (panic on error). `to` is that command.          *)
ForwardDetail(c, id, to) ==
    LET detail == GetProperty(c[id].res.props, "detail", "string")
        r      == ReturnResult(c, to, [status |-> "OK",
                     props |-> SetProperty(NoProps, "detail", "string", detail.val)])
    IN /\ panicked' = (detail.err # "ok" \/ ~r.ok)
       /\ cmd' = IF detail.err # "ok" THEN c ELSE r.cmds

\* A plausible bug: A's callback answers cmdB, which is in scope, not cmd.
OnResultAToCmdB(id) == ForwardDetail([cmd EXCEPT ![id].st = "closed"], id, id)

\* A's callback for <<"B", k>>: it answers the client's command k.
OnResultA(id) == ForwardDetail([cmd EXCEPT ![id].st = "closed"], id, Parent(id))

\* B's callback for <<"C", k>>: it answers <<"B", k>>.
OnResultB(id) == ForwardDetail([cmd EXCEPT ![id].st = "closed"], id, Parent(id))

\* The native core runs the sender's callback with the result.
Callback(id) ==
    /\ cmd[id].st = "answered"
    /\ CASE Sender(id) = "client" -> /\ cmd' = [cmd EXCEPT ![id].st = "closed"]
                                     /\ UNCHANGED panicked
         [] Sender(id) = "A"      -> OnResultA(id)
         [] OTHER                 -> OnResultB(id)

\* Every client command has its result, or the process has died.
Done == panicked \/ \A k \in ClientCmds : cmd[k].st = "closed"

Next ==
    \/ /\ ~panicked
       /\ \/ \E k \in ClientCmds : ClientSend(k) \/ OnCmdA(k)
          \/ \E id \in Ids : Deliver(id) \/ Callback(id)
          \/ \E k \in ClientCmds : OnCmdB(<<"B", k>>) \/ OnCmdC(<<"C", k>>)
    \/ Done /\ UNCHANGED vars

\* The native core delivers and calls back, and goroutines get scheduled.
Fairness ==
    /\ \A id \in Ids : WF_vars(~panicked /\ Deliver(id)) /\ WF_vars(~panicked /\ Callback(id))
    /\ \A k \in ClientCmds : /\ WF_vars(~panicked /\ OnCmdA(k))
                             /\ WF_vars(~panicked /\ OnCmdB(<<"B", k>>))
                             /\ WF_vars(~panicked /\ OnCmdC(<<"C", k>>))

Spec == Init /\ [][Next]_vars /\ Fairness

-----------------------------------------------------------------------------
\* The relay's properties and the kind each one has in this app.
KindOf == [data |-> "int", detail |-> "string"]

PropsOK(props) ==
    /\ DOMAIN props \subseteq DOMAIN KindOf
    /\ \A key \in DOMAIN props : props[key].kind = KindOf[key]

TypeOK ==
    /\ panicked \in BOOLEAN
    /\ \A id \in Ids : /\ cmd[id].st \in CmdStates
                       /\ PropsOK(cmd[id].props)
                       /\ cmd[id].res.status \in {"none", "OK", "Error"}
                       /\ PropsOK(cmd[id].res.props)

(* No goroutine or callback of the relay reaches one of its "Should not    *)
(* happen" panics: every property it reads is present with the kind it     *)
(* asks for, and every ReturnResult it makes is accepted.                  *)
NoPanic == ~panicked

(* Spec 8, command relay: every result in the chain, and the one the client *)
(* gets, is OK with the detail {"result":30} that C computed from 2 * 3 * 5; *)
(* A and B pass it back unchanged.                                          *)
RelayedUnchanged ==
    \A id \in Ids :
        cmd[id].st \in {"answered", "closed"} =>
            /\ cmd[id].res.status = "OK"
            /\ GetProperty(cmd[id].res.props, "detail", "string")
                 = [err |-> "ok", val |-> JsonResult(30)]

\* A pending call is sent once queued and completed once its callback ran.
CallState(st) ==
    CASE st = "unsent" -> "unsent"
      [] st = "closed" -> "completed"
      [] OTHER         -> "sent"

PC == INSTANCE PendingCalls WITH
        Calls <- Ids, call <- [id \in Ids |-> CallState(cmd[id].st)]

(* The relay implements the async correlation protocol: each command's     *)
(* callback runs at most once, after it was sent, and every command sent,   *)
(* the client's and those A and B derive, is eventually completed.          *)
PendingCallsRefined == PC!Spec

=============================================================================
