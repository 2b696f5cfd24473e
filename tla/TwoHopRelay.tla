---------------------------- MODULE TwoHopRelay ----------------------------
(***************************************************************************)
(* The three two-extension relays: return_result_go, handle_error_go and  *)
(* transfer_pointer_go, one lane each, side by side. In every lane the    *)
(* client sends a command to A; A's OnCmd goroutine creates "B" (with     *)
(* pointer properties in transfer_pointer) and sends it to B; B's OnCmd   *)
(* goroutine answers it; A's send callback reads that result and answers  *)
(* the client's command.                                                   *)
(*                                                                         *)
(* Pointer properties hold a Go pointer: the native core keeps its handle, *)
(* and the receiver reads the Go object it points to. heap is that Go      *)
(* memory: A writes data.Uid = 3 after SetProperty("struct", data).        *)
(***************************************************************************)
EXTENDS MsgProps, Sequences

RelayApps == {"return_result", "handle_error", "transfer_pointer"}

\* The Go objects transfer_pointer's A points its properties at.
Addrs == {"array", "map", "struct"}

\* A's own properties in handle_error_go: its property.json is not in the
\* repository, and the test relies on "agora" not being among them.
AEnvProps == NoProps

\* The error string err.Error() of a failed getter carries.
ErrText(e) == e

VARIABLES
    rcmd,       \* rcmd[a]: the client's command in lane a: [st, res]
    bcmd,       \* bcmd[a]: A's command "B": [st, props, res]
    heap,       \* Go objects reachable through pointer properties
    rpanicked   \* a goroutine of some lane has panicked

rvars == <<rcmd, bcmd, heap, rpanicked>>

NoRes == [status |-> "none", props |-> NoProps]

RInit ==
    /\ rcmd = [a \in RelayApps |-> [st |-> "unsent", res |-> NoRes]]
    /\ bcmd = [a \in RelayApps |-> [st |-> "unsent", props |-> NoProps, res |-> NoRes]]
    /\ heap = [x \in {} |-> "none"]
    /\ rpanicked = FALSE

\* NewCmdResult(status) with a detail string set.
Result(status, detail) ==
    [status |-> status, props |-> SetProperty(NoProps, "detail", "string", detail)]

ClientSendA(a) ==
    /\ rcmd[a].st = "unsent"
    /\ rcmd' = [rcmd EXCEPT ![a].st = "queued"]
    /\ UNCHANGED <<bcmd, heap, rpanicked>>

\* The core calls A's OnCmd, which spawns its goroutine.
DeliverA(a) ==
    /\ rcmd[a].st = "queued"
    /\ rcmd' = [rcmd EXCEPT ![a].st = "delivered"]
    /\ UNCHANGED <<bcmd, heap, rpanicked>>

\* A plausible bug: SetProperty of a pointer stores a copy of the object.
StorePtrCopy(hp, x) == [val |-> x \o " copy", heap |-> ((x \o " copy") :> hp[x]) @@ hp]

\* SetProperty(key, ptr): the property holds the pointer itself.
StorePtr(hp, x) == [val |-> x, heap |-> hp]

(* transfer_pointer A: strArray, propMap and data{Uid: 2, Name: "str"} are *)
(* set as the pointer properties "array", "map", "struct"; then            *)
(* data.Uid = 3. The result: the props of cmdB and the heap after.        *)
PointerProps ==
    LET h0 == [array |-> <<"hello", "world", "aptima">>, map |-> [paramA |-> "A"],
               struct |-> [Uid |-> 2, Name |-> "str"]]
        s1 == StorePtr(h0, "array")
        s2 == StorePtr(s1.heap, "map")
        s3 == StorePtr(s2.heap, "struct")
    IN [props |-> SetProperty(SetProperty(SetProperty(NoProps,
                    "array", "ptr", s1.val), "map", "ptr", s2.val), "struct", "ptr", s3.val),
        heap |-> [s3.heap EXCEPT !["struct"] = [@ EXCEPT !.Uid = 3]]]

\* A's goroutine: NewCmd("B"), its properties, tenEnv.SendCmd(cmdB, cb).
AGo(a) ==
    LET p == IF a = "transfer_pointer" THEN PointerProps
             ELSE [props |-> NoProps, heap |-> heap]
    IN /\ rcmd[a].st = "delivered"
       /\ rcmd' = [rcmd EXCEPT ![a].st = "handled"]
       /\ bcmd' = [bcmd EXCEPT ![a] = [@ EXCEPT !.st = "queued", !.props = p.props]]
       /\ heap' = p.heap
       /\ UNCHANGED rpanicked

DeliverB(a) ==
    /\ bcmd[a].st = "queued"
    /\ bcmd' = [bcmd EXCEPT ![a].st = "delivered"]
    /\ UNCHANGED <<rcmd, heap, rpanicked>>

\* transfer_pointer B: GetPropertyPtr of each key and the checks on what it
\* points to; any failure panics.
PointeesOK(props) ==
    LET g(k) == GetProperty(props, k, "ptr") IN
    /\ \A k \in Addrs : g(k).err = "ok"
    /\ heap[g("array").val] = <<"hello", "world", "aptima">>
    /\ heap[g("map").val].paramA = "A"
    /\ heap[g("struct").val] = [Uid |-> 3, Name |-> "str"]

(* B's goroutine, when cmd.GetName() is "B": the result it returns with   *)
(* ReturnResult(res, cmd), and whether it panics.                          *)
BHandle(a, props) ==
    CASE a = "return_result" ->
           [ok |-> TRUE, res |-> [status |-> "OK", props |->
               SetProperty(Result("OK", "this is extensionB.").props,
                           "password", "string", "password")]]
      [] a = "handle_error" ->
           LET g == GetProperty(props, "agora", "string") IN
           [ok |-> TRUE, res |-> IF g.err # "ok" THEN Result("Error", ErrText(g.err))
                                 ELSE Result("OK", g.val)]
      [] OTHER ->
           [ok |-> PointeesOK(props), res |-> Result("OK", "aptima")]

\* A plausible bug: B compares the command name with "b".
IsCmdBLower(name) == name = "b"

\* if cmdName == "B" { ... }; any other name is ignored.
IsCmdB(name) == name = "B"

BGo(a) ==
    LET h == BHandle(a, bcmd[a].props) IN
    /\ bcmd[a].st = "delivered"
    /\ bcmd' = [bcmd EXCEPT ![a] = IF IsCmdB("B") /\ h.ok
                                    THEN [@ EXCEPT !.st = "answered", !.res = h.res]
                                    ELSE [@ EXCEPT !.st = "handled"]]
    /\ rpanicked' = (IsCmdB("B") /\ ~h.ok)
    /\ UNCHANGED <<rcmd, heap>>

\* statusCode, _ := cs.GetStatusCode()
StatusOf(res) == res.status

(* A's send callback: the result it returns on the client's command.      *)
(* return_result: detail must be "this is extensionB.", then the password  *)
(* is the detail. handle_error: the result keeps cs's status code.        *)
(* transfer_pointer: the detail is forwarded, OK.                         *)
AResult(a, res) ==
    LET d == GetProperty(res.props, "detail", "string")
        p == GetProperty(res.props, "password", "string")
    IN CASE d.err # "ok"                   -> Result("Error", ErrText(d.err))
         [] a = "return_result" /\ d.val # "this is extensionB."
                                          -> Result("Error", "wrong detail")
         [] a = "return_result" /\ p.err # "ok" -> Result("Error", ErrText(p.err))
         [] a = "return_result"            -> Result("OK", p.val)
         [] a = "handle_error"             -> Result(StatusOf(res), d.val)
         [] OTHER                          -> Result("OK", d.val)

(* handle_error A, once cs's detail was read: GetPropertyString("agora")  *)
(* on its own tenEnv, twice; if the second one succeeds, it panics.        *)
AgoraPanics(a, res) ==
    /\ a = "handle_error"
    /\ GetProperty(res.props, "detail", "string").err = "ok"
    /\ GetProperty(AEnvProps, "agora", "string").err = "ok"

\* The core runs A's callback with B's result; ReturnResult(cmdResult, cmd)
\* unless the callback panicked first.
ACallback(a) ==
    LET panics == AgoraPanics(a, bcmd[a].res) IN
    /\ bcmd[a].st = "answered"
    /\ bcmd' = [bcmd EXCEPT ![a].st = "closed"]
    /\ rcmd' = IF panics THEN rcmd
               ELSE [rcmd EXCEPT ![a] = [st |-> "answered", res |-> AResult(a, bcmd[a].res)]]
    /\ rpanicked' = panics
    /\ UNCHANGED heap

\* The client receives its result.
ClientReceive(a) ==
    /\ rcmd[a].st = "answered"
    /\ rcmd' = [rcmd EXCEPT ![a].st = "closed"]
    /\ UNCHANGED <<bcmd, heap, rpanicked>>

Quiet == rpanicked \/ \A a \in RelayApps : rcmd[a].st = "closed"

RNext ==
    \/ /\ ~rpanicked
       /\ \E a \in RelayApps :
            \/ ClientSendA(a) \/ DeliverA(a) \/ AGo(a) \/ DeliverB(a)
            \/ BGo(a) \/ ACallback(a) \/ ClientReceive(a)
    \/ Quiet /\ UNCHANGED rvars

\* The core delivers and calls back, goroutines run, the client sends.
RFairness == \A a \in RelayApps :
    /\ WF_rvars(~rpanicked /\ (ClientSendA(a) \/ DeliverA(a) \/ AGo(a) \/ DeliverB(a)))
    /\ WF_rvars(~rpanicked /\ (BGo(a) \/ ACallback(a) \/ ClientReceive(a)))

RSpec == RInit /\ [][RNext]_rvars /\ RFairness

-----------------------------------------------------------------------------
\* What each app's client checks on the result of its command.
Expected == [return_result    |-> Result("OK", "password"),
             handle_error     |-> Result("Error", "PropertyNotFound"),
             transfer_pointer |-> Result("OK", "aptima")]

(* No goroutine of any relay panics, and the result a client receives is  *)
(* the one its test expects: B's password forwarded as the detail; B's    *)
(* PropertyNotFound error with B's Error status kept by A's callback; B's *)
(* "aptima" after B read, through the pointers A set, the struct A        *)
(* changed (Uid = 3) after SetProperty.                                   *)
RelayResults ==
    /\ ~rpanicked
    /\ \A a \in RelayApps : rcmd[a].st = "closed" => rcmd[a].res = Expected[a]

\* The two calls of each lane: the client's command and A's command "B".
RelayCalls == RelayApps \X {"client", "B"}

HopState(st) == CASE st = "unsent" -> "unsent"
                  [] st = "closed" -> "completed"
                  [] OTHER         -> "sent"

RPC == INSTANCE PendingCalls WITH
    Calls <- RelayCalls,
    call  <- [c \in RelayCalls |->
                HopState(IF c[2] = "client" THEN rcmd[c[1]].st ELSE bcmd[c[1]].st)]

(* Each relay implements the pending-call protocol: the client's command  *)
(* and A's command "B" are each completed once, and every one sent is     *)
(* eventually completed: B answers "B", and A answers from B's callback.  *)
RelayCallsRefined == RPC!Spec

=============================================================================
