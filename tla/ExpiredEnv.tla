----------------------------- MODULE ExpiredEnv -----------------------------
(***************************************************************************)
(* expired_ten_go. The client sends a command to A. A's OnCmd goroutine   *)
(* sends "B" with a callback, sleeps three seconds and sends "B" again    *)
(* with the tenEnv it captured, expecting the call to fail because A has *)
(* been deinited by then. B's goroutine answers "B" with a pointer to     *)
(* UserData{Uid: 1, Name: "aptima"}; A's callback answers the client with *)
(* the Name. The client closes the app once it has its result; closing    *)
(* deinits A and B and expires their tenEnvs (spec 2, 4.4).               *)
(*                                                                         *)
(* SleepOutlastsClose says whether the sleep ends only after the close    *)
(* (what the test relies on) or at any time (nothing bounds how long the  *)
(* close takes). Sending an already sent command on a live tenEnv is not  *)
(* specified, so the native core may accept or reject it.                 *)
(***************************************************************************)
EXTENDS MsgProps

CONSTANTS
    SleepOutlastsClose,
    ClientCmds          \* the commands the client sends to A

Exts == {"A", "B"}

VARIABLES
    cmdA,       \* cmdA[k]: the client's command k: "queued", "delivered", "answered"
    resA,       \* resA[k]: the result the client gets for k
    cmdB,       \* cmdB[k]: the "B" sent for k: "unsent", "queued", "delivered", "answered", "closed"
    resB,       \* resB[k]: the result B returned for it
    aGo,        \* aGo[k]: A's goroutine for k: "none", "running", "sleeping", "done"
    resend,     \* resend[k]: its second SendCmd: "none", "failed", "accepted"
    app,        \* "running" or "closing"
    expired,    \* the extensions deinited, whose tenEnv has expired
    panicked

vars == <<cmdA, resA, cmdB, resB, aGo, resend, app, expired, panicked>>

NoResult == [status |-> "none", props |-> NoProps]

\* types.UserData{Uid: 1, Name: "aptima"}, passed by pointer.
UserData == [Uid |-> 1, Name |-> "aptima"]

Init ==
    /\ cmdA = [k \in ClientCmds |-> "queued"]
    /\ resA = [k \in ClientCmds |-> NoResult]
    /\ cmdB = [k \in ClientCmds |-> "unsent"]
    /\ resB = [k \in ClientCmds |-> NoResult]
    /\ aGo = [k \in ClientCmds |-> "none"]
    /\ resend = [k \in ClientCmds |-> "none"]
    /\ app = "running"
    /\ expired = {}
    /\ panicked = FALSE

\* The native core calls A's OnCmd, which spawns the goroutine.
DeliverA(k) ==
    /\ "A" \notin expired
    /\ cmdA[k] = "queued"
    /\ cmdA' = [cmdA EXCEPT ![k] = "delivered"]
    /\ aGo' = [aGo EXCEPT ![k] = "running"]
    /\ UNCHANGED <<resA, cmdB, resB, resend, app, expired, panicked>>

\* A's goroutine: NewCmd("B"), SendCmd(cmdB, callback) (its error is
\* ignored), then time.Sleep.
AGoSend(k) ==
    /\ aGo[k] = "running"
    /\ cmdB' = IF "A" \in expired THEN cmdB ELSE [cmdB EXCEPT ![k] = "queued"]
    /\ aGo' = [aGo EXCEPT ![k] = "sleeping"]
    /\ UNCHANGED <<cmdA, resA, resB, resend, app, expired, panicked>>

\* The native core calls B's OnCmd while B is live; it spawns a goroutine.
DeliverB(k) ==
    /\ "B" \notin expired
    /\ cmdB[k] = "queued"
    /\ cmdB' = [cmdB EXCEPT ![k] = "delivered"]
    /\ UNCHANGED <<cmdA, resA, resB, aGo, resend, app, expired, panicked>>

\* B's goroutine: ReturnResult(cs, cmd) and panic(err) if it fails, which
\* it does once B has expired.
BReturn(k, res) ==
    /\ cmdB[k] = "delivered"
    /\ cmdB' = IF "B" \in expired THEN cmdB ELSE [cmdB EXCEPT ![k] = "answered"]
    /\ resB' = [resB EXCEPT ![k] = res]
    /\ panicked' = ("B" \in expired)
    /\ UNCHANGED <<cmdA, resA, aGo, resend, app, expired>>

\* A plausible bug: B stores the struct by value, which SetProperty rejects.
BGoByValue(k) == BReturn(k, [status |-> "OK", props |-> NoProps])

\* B's goroutine for "B": SetProperty("data", &data) stores a pointer.
BGo(k) == BReturn(k, [status |-> "OK", props |-> SetProperty(NoProps, "data", "ptr", UserData)])

\* A's answer to the client: ReturnResult(res, cmd) on its captured tenEnv;
\* the core accepts it while A is live, and its error is ignored.
AnswerClient(k, res) ==
    IF cmdA[k] = "delivered" /\ "A" \notin expired
      THEN cmdA' = [cmdA EXCEPT ![k] = "answered"] /\ resA' = [resA EXCEPT ![k] = res]
      ELSE UNCHANGED <<cmdA, resA>>

\* A plausible bug: the callback answers with the whole UserData, not its Name.
OnResultBWholeData(k) ==
    LET data == GetProperty(resB[k].props, "data", "ptr") IN
    /\ cmdB[k] = "answered"
    /\ "A" \notin expired
    /\ cmdB' = [cmdB EXCEPT ![k] = "closed"]
    /\ AnswerClient(k, IF data.err = "ok"
                         THEN [status |-> "OK", props |-> SetProperty(NoProps, "detail", "ptr", data.val)]
                         ELSE [status |-> "Error", props |-> SetProperty(NoProps, "detail", "string", data.err)])
    /\ UNCHANGED <<resB, aGo, resend, app, expired, panicked>>

\* A plausible bug: the callback answers cmdB, whose result is already set,
\* so the core rejects it and the client's command is never answered.
OnResultBToCmdB(k) ==
    /\ cmdB[k] = "answered"
    /\ "A" \notin expired
    /\ cmdB' = [cmdB EXCEPT ![k] = "closed"]
    /\ UNCHANGED <<cmdA, resA, resB, aGo, resend, app, expired, panicked>>

(* A's callback, run on A's thread while A is live: GetPropertyPtr("data"); *)
(* on error an Error result with the error text, else OK with Name.        *)
OnResultB(k) ==
    LET data == GetProperty(resB[k].props, "data", "ptr") IN
    /\ cmdB[k] = "answered"
    /\ "A" \notin expired
    /\ cmdB' = [cmdB EXCEPT ![k] = "closed"]
    /\ AnswerClient(k, IF data.err = "ok"
                         THEN [status |-> "OK", props |-> SetProperty(NoProps, "detail", "string", data.val.Name)]
                         ELSE [status |-> "Error", props |-> SetProperty(NoProps, "detail", "string", data.err)])
    /\ UNCHANGED <<resB, aGo, resend, app, expired, panicked>>

\* The client closes the app once all its commands are answered.
CloseApp ==
    /\ \A k \in ClientCmds : cmdA[k] = "answered"
    /\ app = "running"
    /\ app' = "closing"
    /\ UNCHANGED <<cmdA, resA, cmdB, resB, aGo, resend, expired, panicked>>

\* Closing stops and deinits each extension; its tenEnv then expires.
Deinit(e) ==
    /\ app = "closing"
    /\ e \notin expired
    /\ expired' = expired \cup {e}
    /\ UNCHANGED <<cmdA, resA, cmdB, resB, aGo, resend, app, panicked>>

\* time.Sleep(3s) ends: if it outlasts the close, only once A has expired.
Wake(k) == aGo[k] = "sleeping" /\ (SleepOutlastsClose => "A" \in expired)

(* After the sleep: SendCmd(cmdB, nil). On an expired tenEnv it fails at  *)
(* once (spec 4.4); on a live one the core may accept the re-sent cmdB.   *)
(* If it does not fail, the goroutine panics ("should not happen").       *)
AGoResend(k) ==
    /\ Wake(k)
    /\ \E accepted \in IF "A" \in expired THEN {FALSE} ELSE BOOLEAN :
        /\ resend' = [resend EXCEPT ![k] = IF accepted THEN "accepted" ELSE "failed"]
        /\ panicked' = accepted
    /\ aGo' = [aGo EXCEPT ![k] = "done"]
    /\ UNCHANGED <<cmdA, resA, cmdB, resB, app, expired>>

\* The process ends once A and B are deinited and A's goroutines returned.
Quiescent == expired = Exts /\ \A k \in ClientCmds : aGo[k] = "done"

Next ==
    \/ /\ ~panicked
       /\ \/ \E k \in ClientCmds : DeliverA(k) \/ AGoSend(k) \/ DeliverB(k) \/ BGo(k)
          \/ \E k \in ClientCmds : OnResultB(k) \/ AGoResend(k)
          \/ CloseApp
          \/ \E e \in Exts : Deinit(e)
    \/ (panicked \/ Quiescent) /\ UNCHANGED vars

\* Goroutines are scheduled and their sleeps end; the core delivers and
\* the close proceeds.
Spec == Init /\ [][Next]_vars /\ WF_vars(~panicked /\ Next)

-----------------------------------------------------------------------------
\* The properties of this app and the kind each one has.
KindOf == [data |-> "ptr", detail |-> "string"]

PropsOK(props) ==
    /\ DOMAIN props \subseteq DOMAIN KindOf
    /\ \A key \in DOMAIN props : props[key].kind = KindOf[key]

TypeOK ==
    /\ \A k \in ClientCmds : PropsOK(resA[k].props) /\ PropsOK(resB[k].props)
    /\ cmdA \in [ClientCmds -> {"queued", "delivered", "answered"}]
    /\ cmdB \in [ClientCmds -> {"unsent", "queued", "delivered", "answered", "closed"}]
    /\ \A k \in ClientCmds : resA[k].status \in {"none", "OK", "Error"}
    /\ \A k \in ClientCmds : resB[k].status \in {"none", "OK", "Error"}
    /\ aGo \in [ClientCmds -> {"none", "running", "sleeping", "done"}]
    /\ resend \in [ClientCmds -> {"none", "failed", "accepted"}]
    /\ app \in {"running", "closing"}
    /\ expired \subseteq Exts
    /\ panicked \in BOOLEAN

(* The client's command is answered OK with the Name read through the     *)
(* pointer B stored: the pointer property survives the trip from B to A.  *)
ClientGetsName ==
    \A k \in ClientCmds :
        cmdA[k] = "answered" =>
            /\ resA[k].status = "OK"
            /\ GetProperty(resA[k].props, "detail", "string") = [err |-> "ok", val |-> "aptima"]

(* Everything ends: the app closes and A's goroutine returns after its     *)
(* failed late send.                                                       *)
EventuallyQuiescent == <>Quiescent

=============================================================================
