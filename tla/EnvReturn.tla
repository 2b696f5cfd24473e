------------------------------ MODULE EnvReturn ------------------------------
(***************************************************************************)
(* tenEnv.ReturnResult and tenEnv.ReturnResultDirectly (axis_env_return.go)*)
(* called concurrently by several goroutines of one extension, together    *)
(* with the two collaborators they race with:                              *)
(*   - the Go garbage collector, which runs the finalizer of a message     *)
(*     wrapper (releasing its native message) as soon as no goroutine      *)
(*     keeps the wrapper reachable;                                        *)
(*   - the native core, which accepts or rejects the result and, when it   *)
(*     accepted one with an ack handler, later invokes that handler        *)
(*     through its Go handle and deletes the handle.                       *)
(* A goroutine's call is split at the cgo boundary: the Go prologue (nil   *)
(* checks, newGoHandle, deferred keepAlive, entering C) and the return     *)
(* from C (native reads the pointers, then Go cleans up on error).         *)
(***************************************************************************)
EXTENDS Naturals, FiniteSets

CONSTANTS
  Callers,  \* goroutines that each answer one command (the `go func()` of OnCmd)
  Cmds,     \* commands the extension received and may answer
  Nil       \* nil interface value and goHandleNil

ASSUME Nil \notin Cmds

\* The CmdResult goroutine g made with NewCmdResult before returning it.
Res(g) == <<"result", g>>

\* Message wrappers whose finalizer releases a native message.
Objects == {Res(g) : g \in Callers} \cup Cmds

\* Handle values newGoHandle can hand out: one per call at most.
MaxHandle == Cardinality(Callers)

Kinds == {"ReturnResult", "ReturnResultDirectly"}

Errs == {"none", "InvalidArgument", "NativeCallFailure"}

VARIABLES
  pc,          \* per goroutine: "idle", "cgo" (inside the C call), "done"
  call,        \* per goroutine: the arguments of its call, its handle, its error
  held,        \* per goroutine: the wrappers it keeps reachable
  finalized,   \* wrappers whose finalizer has run (native message released)
  handles,     \* the Go handle table: handles currently registered
  nextHandle,  \* the next fresh handle value
  answered,    \* native: commands that already got their final result
  ackPending,  \* native: ack handles it accepted and has not invoked yet
  expired      \* native: the extension's tenEnv is closed

vars == <<pc, call, held, finalized, handles, nextHandle, answered,
          ackPending, expired>>

NoCall == [kind |-> "ReturnResult", res |-> Nil, cmd |-> Nil, cb |-> Nil,
           err |-> "none"]

Init ==
  /\ pc = [g \in Callers |-> "idle"]
  /\ call = [g \in Callers |-> NoCall]
  /\ held = [g \in Callers |-> {Res(g)} \cup Cmds]
  /\ finalized = {}
  /\ handles = {}
  /\ nextHandle = 1
  /\ answered = {}
  /\ ackPending = {}
  /\ expired = FALSE

-----------------------------------------------------------------------------
(* Helpers of the Go binding.                                              *)

\* Mutant: handles numbered from 0, the value goHandleNil also has.
NewGoHandleFromZero(hasHandler) == IF hasHandler THEN nextHandle - 1 ELSE Nil

\* newGoHandle(handler): register the handler, return a fresh handle;
\* goHandleNil when there is no handler.
NewGoHandle(hasHandler) == IF hasHandler THEN nextHandle ELSE Nil

\* loadAndDeleteGoHandle(cb): remove cb from the table (no-op for nil).
LoadAndDeleteGoHandle(hs, cb) == hs \ {cb}

\* Mutant: no deferred keepAlive; the wrappers are dead once their C
\* pointers have been read.
PinnedNone(objs) == {}

\* The deferred p.keepAlive(), cmd.keepAlive(), statusCmd.keepAlive(): the
\* wrappers passed to C stay reachable until the function returns.
PinnedDuringCall(objs) == objs

\* The wrappers whose C pointers a call hands to the native core.
Passed(c) == {c.res} \cup (IF c.kind = "ReturnResult" THEN {c.cmd} ELSE {})

\* Enter the C call with the handle cb: register it, pin the arguments.
EnterCgo(g, c) ==
  /\ pc' = [pc EXCEPT ![g] = "cgo"]
  /\ call' = [call EXCEPT ![g] = c]
  /\ held' = [held EXCEPT ![g] = PinnedDuringCall(Passed(c))]
  /\ handles' = IF c.cb = Nil THEN handles ELSE handles \cup {c.cb}
  /\ nextHandle' = IF c.cb = Nil THEN nextHandle ELSE nextHandle + 1

\* Mutant: newGoHandle hoisted above the nil checks, so an early return
\* leaves the handle registered.
FailInvalidAfterHandle(g, c) ==
  /\ pc' = [pc EXCEPT ![g] = "done"]
  /\ call' = [call EXCEPT ![g] = [c EXCEPT !.err = "InvalidArgument"]]
  /\ held' = [held EXCEPT ![g] = {}]
  /\ handles' = IF c.cb = Nil THEN handles ELSE handles \cup {c.cb}
  /\ nextHandle' = IF c.cb = Nil THEN nextHandle ELSE nextHandle + 1

\* An early `return newTenError(ErrnoInvalidArgument, ...)`.
FailInvalid(g, c) ==
  /\ pc' = [pc EXCEPT ![g] = "done"]
  /\ call' = [call EXCEPT ![g] = [c EXCEPT !.err = "InvalidArgument"]]
  /\ held' = [held EXCEPT ![g] = {}]
  /\ UNCHANGED <<handles, nextHandle>>

-----------------------------------------------------------------------------
(* Go side: the two entry points up to the C call.                         *)

\* ReturnResult(statusCmd, cmd, handler): nil checks, then the handle, the
\* deferred keepAlive and the call into C.
ReturnResult(g, hasRes, cmd, hasHandler) ==
  LET c == [kind |-> "ReturnResult", res |-> IF hasRes THEN Res(g) ELSE Nil,
            cmd |-> cmd, cb |-> NewGoHandle(hasHandler), err |-> "none"]
  IN
  /\ pc[g] = "idle"
  /\ IF ~hasRes \/ cmd = Nil THEN FailInvalid(g, c) ELSE EnterCgo(g, c)
  /\ UNCHANGED <<finalized, answered, ackPending, expired>>

\* ReturnResultDirectly(statusCmd, handler): the result already carries the
\* command it answers (cmd), so only statusCmd is checked and passed.
ReturnResultDirectly(g, hasRes, cmd, hasHandler) ==
  LET c == [kind |-> "ReturnResultDirectly",
            res |-> IF hasRes THEN Res(g) ELSE Nil,
            cmd |-> cmd, cb |-> NewGoHandle(hasHandler), err |-> "none"]
  IN
  /\ pc[g] = "idle"
  /\ IF ~hasRes THEN FailInvalid(g, c) ELSE EnterCgo(g, c)
  /\ UNCHANGED <<finalized, answered, ackPending, expired>>

-----------------------------------------------------------------------------
(* Native core and Go side: the C call returns.                            *)

\* axis_go_axis_env_return_result(_directly): the native core reads the
\* passed messages and accepts the result unless the command was already
\* answered or the tenEnv is closed; it keeps an accepted ack handle.
NativeAccepts(c) == c.cmd \notin answered /\ ~expired

\* Mutant: the error path forgets loadAndDeleteGoHandle.
CleanupNever(hs, ok, cb) == hs

\* `if err != nil { loadAndDeleteGoHandle(cb) }`: the native core never took
\* the handle, so Go deletes it.
CleanupOnError(hs, ok, cb) ==
  IF ok THEN hs ELSE LoadAndDeleteGoHandle(hs, cb)

\* ReturnResultDirectly's own `if err != nil { loadAndDeleteGoHandle(cb) }`.
CleanupOnErrorDirectly(hs, ok, cb) ==
  IF ok THEN hs ELSE LoadAndDeleteGoHandle(hs, cb)

\* Back in Go: withCGoError, and the entry point's loadAndDeleteGoHandle(cb)
\* on error; the function returns and the deferred keepAlive ends.
CgoReturn(g) ==
  LET c  == call[g]
      ok == NativeAccepts(c)
  IN
  /\ pc[g] = "cgo"
  /\ pc' = [pc EXCEPT ![g] = "done"]
  /\ call' = [call EXCEPT ![g].err = IF ok THEN "none" ELSE "NativeCallFailure"]
  /\ answered' = IF ok THEN answered \cup {c.cmd} ELSE answered
  /\ ackPending' = IF ok /\ c.cb # Nil THEN ackPending \cup {c.cb}
                                       ELSE ackPending
  /\ handles' = IF c.kind = "ReturnResult" THEN CleanupOnError(handles, ok, c.cb)
                                        ELSE CleanupOnErrorDirectly(handles, ok, c.cb)
  /\ held' = [held EXCEPT ![g] = {}]
  /\ UNCHANGED <<finalized, nextHandle, expired>>

\* The native core reports the outcome of a returned result: it resolves the
\* ack handle, runs the handler and deletes the handle.
AckHandler(h) ==
  /\ h \in ackPending
  /\ ackPending' = ackPending \ {h}
  /\ handles' = LoadAndDeleteGoHandle(handles, h)
  /\ UNCHANGED <<pc, call, held, finalized, nextHandle, answered, expired>>

\* The extension finishes deinit: its tenEnv expires.
Expire ==
  /\ ~expired
  /\ expired' = TRUE
  /\ UNCHANGED <<pc, call, held, finalized, handles, nextHandle, answered,
                 ackPending>>

\* The garbage collector finds wrapper o unreachable and runs its finalizer.
Finalize(o) ==
  /\ o \notin finalized
  /\ \A g \in Callers : o \notin held[g]
  /\ finalized' = finalized \cup {o}
  /\ UNCHANGED <<pc, call, held, handles, nextHandle, answered, ackPending,
                 expired>>

\* Every call returned, every ack ran, every wrapper was collected.
Quiescent ==
  /\ \A g \in Callers : pc[g] = "done"
  /\ ackPending = {}
  /\ finalized = Objects

Next ==
  \/ \E g \in Callers, hasRes, hasHandler \in BOOLEAN, c \in Cmds \cup {Nil} :
        ReturnResult(g, hasRes, c, hasHandler)
  \/ \E g \in Callers, hasRes, hasHandler \in BOOLEAN, c \in Cmds :
        ReturnResultDirectly(g, hasRes, c, hasHandler)
  \/ \E g \in Callers : CgoReturn(g)
  \/ \E h \in 1..MaxHandle : AckHandler(h)
  \/ Expire
  \/ \E o \in Objects : Finalize(o)
  \/ Quiescent /\ UNCHANGED vars

\* cgo calls return, the native core runs every accepted ack handler.
Fairness ==
  /\ \A g \in Callers : WF_vars(CgoReturn(g))
  /\ \A h \in 1..MaxHandle : WF_vars(AckHandler(h))

Spec == Init /\ [][Next]_vars /\ Fairness

-----------------------------------------------------------------------------
(* Properties                                                              *)

TypeOK ==
  /\ pc \in [Callers -> {"idle", "cgo", "done"}]
  /\ \A g \in Callers :
       /\ call[g].kind \in Kinds
       /\ call[g].res \in {Res(g), Nil}
       /\ call[g].cmd \in Cmds \cup {Nil}
       /\ call[g].cb \in (1..MaxHandle) \cup {Nil}
       /\ call[g].err \in Errs
       /\ held[g] \subseteq Objects
  /\ finalized \subseteq Objects
  /\ handles \subseteq 1..MaxHandle
  /\ nextHandle \in 1..MaxHandle + 1
  /\ answered \subseteq Cmds
  /\ ackPending \subseteq 1..MaxHandle
  /\ expired \in BOOLEAN

\* No use after free across cgo: while the native core holds the C pointers
\* of a ReturnResult call, the garbage collector has not finalized (and so
\* released the native message of) any wrapper passed to it. This is what
\* the deferred keepAlive calls are for.
NoUseAfterFinalize ==
  \A g \in Callers : pc[g] = "cgo" => Passed(call[g]) \cap finalized = {}

\* Every registered ack handle has exactly one owner: either the goroutine
\* still inside the C call, or the native core that accepted it and has not
\* yet invoked it. A handle with no owner is a leak (LeakObjSize > 0), an
\* owner whose handle is gone loses the handler call.
HandleOwnership ==
  LET inCall == {call[g].cb : g \in {x \in Callers : pc[x] = "cgo"}} \ {Nil}
  IN  /\ handles = inCall \cup ackPending
      /\ inCall \cap ackPending = {}

\* Once everything has been returned, acknowledged and collected, the handle
\* table is empty: the "leak obj Size" the integration apps print is 0.
EventuallyNoLeak == <>[](handles = {})

=============================================================================
