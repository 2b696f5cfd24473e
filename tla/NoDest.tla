------------------------------- MODULE NoDest -------------------------------
(***************************************************************************)
(* no_dest_go: extension A's OnStart sends a command, a data, a video      *)
(* frame and an audio frame that have no destination, and returns without *)
(* OnStartDone. The native core answers each send through its callback    *)
(* with a NoDestination error (spec 4.4). Every callback does             *)
(* ext.counter++ and, if the counter is then 4, calls OnStartDone.        *)
(*                                                                         *)
(* ext.counter++ and the test that follows are three steps (read, write,  *)
(* test). The constant Serialized says whether the native core runs the   *)
(* callbacks one at a time on the extension's thread, once OnStart has    *)
(* returned (what the code relies on), or on any context (what spec 4.4   *)
(* allows), where the steps of two callbacks interleave.                  *)
(***************************************************************************)
EXTENDS Naturals, Sequences

CONSTANT Serialized

\* The four sends of OnStart, in program order.
Sends == <<"cmd", "data", "video", "audio">>

Kinds == {Sends[i] : i \in 1..Len(Sends)}

\* OnStartDone calls counted beyond the first are capped here.
MaxStartDone == 2

VARIABLES
    phase,      \* A's lifecycle phase in the native core
    sent,       \* how many of the sends OnStart has made; it returns at 4
    cb,         \* cb[k]: the callback of send k: "unsent", "pending", "read", "written", "done"
    tmp,        \* tmp[k]: the counter value callback k read
    counter,    \* ext.counter
    startDones, \* OnStartDone calls made so far
    clientCmd   \* the test client's command: "none", "queued", "answered"

vars == <<phase, sent, cb, tmp, counter, startDones, clientCmd>>

\* A plausible bug: the counter starts at one.
InitCounterOne ==
    /\ phase = "starting"
    /\ sent = 0
    /\ cb = [k \in Kinds |-> "unsent"]
    /\ tmp = [k \in Kinds |-> 0]
    /\ counter = 1
    /\ startDones = 0
    /\ clientCmd = "none"

Init ==
    /\ phase = "starting"      \* configure and init are done by DefaultExtension
    /\ sent = 0
    /\ cb = [k \in Kinds |-> "unsent"]
    /\ tmp = [k \in Kinds |-> 0]
    /\ counter = 0             \* newAExtension: &aExtension{counter: 0}
    /\ startDones = 0
    /\ clientCmd = "none"

\* A callback mid-way through its three steps.
Busy == \E k \in Kinds : cb[k] \in {"read", "written"}

(* The extension's thread can run a callback: always, if callbacks run on *)
(* any context; else only once OnStart has returned and no other callback *)
(* or handler is running on it.                                           *)
ThreadFree == ~Serialized \/ (sent = Len(Sends) /\ ~Busy)

\* tenEnv.OnStartDone: the native core starts A on the first signal and
\* rejects a repeated one (spec 4.5).
OnStartDone ==
    /\ startDones' = IF startDones < MaxStartDone THEN startDones + 1 ELSE startDones
    /\ phase' = IF phase = "starting" THEN "started" ELSE phase

\* OnStart: NewCmd/NewData/NewVideoFrame/NewAudioFrame and the send with
\* its callback; the native core finds no destination for it.
OnStartSend ==
    /\ sent < Len(Sends)
    /\ sent' = sent + 1
    /\ cb' = [cb EXCEPT ![Sends[sent + 1]] = "pending"]
    /\ UNCHANGED <<phase, tmp, counter, startDones, clientCmd>>

\* Callback k with err = NoDestination (err != nil, so no panic): reads ext.counter.
CbRead(k) ==
    /\ cb[k] = "pending"
    /\ ThreadFree
    /\ tmp' = [tmp EXCEPT ![k] = counter]
    /\ cb' = [cb EXCEPT ![k] = "read"]
    /\ UNCHANGED <<phase, sent, counter, startDones, clientCmd>>

\* A plausible bug: the increment is lost (the callback forgets counter++).
CbWriteNoIncrement(k) ==
    /\ cb[k] = "read"
    /\ counter' = tmp[k]
    /\ cb' = [cb EXCEPT ![k] = "written"]
    /\ UNCHANGED <<phase, sent, tmp, startDones, clientCmd>>

\* ... writes back the value it read plus one.
CbWrite(k) ==
    /\ cb[k] = "read"
    /\ counter' = tmp[k] + 1
    /\ cb' = [cb EXCEPT ![k] = "written"]
    /\ UNCHANGED <<phase, sent, tmp, startDones, clientCmd>>

\* A plausible bug: off by one in the number of sends awaited.
StartThreshold3 == 3

\* The number of callbacks to wait for: if ext.counter == 4.
StartThreshold == 4

\* ... and reads ext.counter again: at 4 it calls OnStartDone.
CbTest(k) ==
    /\ cb[k] = "written"
    /\ cb' = [cb EXCEPT ![k] = "done"]
    /\ IF counter = StartThreshold THEN OnStartDone ELSE UNCHANGED <<phase, startDones>>
    /\ UNCHANGED <<sent, tmp, counter, clientCmd>>

\* The test client sends a command once A has started.
ClientSendCmd ==
    /\ phase = "started"
    /\ clientCmd = "none"
    /\ clientCmd' = "queued"
    /\ UNCHANGED <<phase, sent, cb, tmp, counter, startDones>>

(* OnCmd, called by the native core on A's thread while A is started:   *)
(* ReturnResult(OK "okok", cmd), which the core accepts (A's first and   *)
(* only answer to it), so the panic branch is never taken.               *)
OnCmd ==
    /\ phase = "started"
    /\ clientCmd = "queued"
    /\ ThreadFree
    /\ clientCmd' = "answered"
    /\ UNCHANGED <<phase, sent, cb, tmp, counter, startDones>>

\* App close: OnStop calls OnStopDone at once; the core then deinits A.
OnStop ==
    /\ phase = "started"
    /\ ThreadFree
    /\ phase' = "deinited"
    /\ UNCHANGED <<sent, cb, tmp, counter, startDones, clientCmd>>

Next ==
    \/ OnStartSend
    \/ \E k \in Kinds : CbRead(k) \/ CbWrite(k) \/ CbTest(k)
    \/ ClientSendCmd
    \/ OnCmd
    \/ OnStop
    \/ phase = "deinited" /\ UNCHANGED vars

\* OnStart runs to its end; the core calls every callback, and the
\* scheduler runs every callback that has started; the app is closed.
Fairness ==
    /\ WF_vars(OnStartSend)
    /\ \A k \in Kinds : WF_vars(CbRead(k)) /\ WF_vars(CbWrite(k)) /\ WF_vars(CbTest(k))
    /\ WF_vars(OnCmd)
    /\ WF_vars(OnStop)

Spec == Init /\ [][Next]_vars /\ Fairness

-----------------------------------------------------------------------------
TypeOK ==
    /\ phase \in {"starting", "started", "deinited"}
    /\ sent \in 0..Len(Sends)
    /\ cb \in [Kinds -> {"unsent", "pending", "read", "written", "done"}]
    /\ tmp \in [Kinds -> 0..Len(Sends)]
    /\ counter \in 0..Len(Sends)
    /\ startDones \in 0..MaxStartDone
    /\ clientCmd \in {"none", "queued", "answered"}

(* Spec 8, no-destination fan-out: OnStartDone is called exactly once, and *)
(* only after all four NoDestination callbacks have run to completion.     *)
StartDoneOnceAfterAll ==
    /\ startDones <= 1
    /\ startDones = 1 => \A k \in Kinds : cb[k] = "done"

(* OnStart of A eventually completes: the callbacks count to 4 and one of *)
(* them calls OnStartDone, so the app does not hang in start.             *)
EventuallyStarted == <>(startDones > 0)

=============================================================================
