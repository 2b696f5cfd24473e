---------------------------- MODULE ValueBinding ----------------------------
(***************************************************************************)
(* value.go: the Go wrapper of a native value and its handle.             *)
(*                                                                         *)
(* The native core creates a value and calls tenGoCreateValue, which makes *)
(* a Go wrapper, sets its finalizer (axis_go_value_finalize of cPtr) and   *)
(* registers it with newhandle; the native core keeps the handle. It may  *)
(* pass that handle to Go code, whose goroutines resolve it, then call C   *)
(* with the wrapper's cPtr, pinned for the call (spec 4.2). When the      *)
(* native core drops its reference it calls tenGoUnrefObj, which frees    *)
(* the handle. The collector finalizes the wrapper once nothing reaches   *)
(* it: not the table, not a goroutine that holds it, not a pinned call.   *)
(***************************************************************************)
EXTENDS Naturals, FiniteSets, TLC

CONSTANTS
    Values,     \* the native values the core creates (one wrapper each)
    Goroutines, \* Go goroutines that resolve handles passed to them
    NoObj

\* Each value is registered once, so this many handles are ever handed out.
MaxHandle == Cardinality(Values)
Handles == 1..MaxHandle

VARIABLES
    nat,        \* nat[v]: the native value: "none", "live", "finalized"
    natRef,     \* natRef[v]: the native core still holds v's handle
    natId,      \* natId[v]: the handle tenGoCreateValue returned for v (0: none)
    wrap,       \* wrap[v]: the Go wrapper: "none", "alive", "finalized"
    finalizes,  \* finalizes[v]: calls of axis_go_value_finalize for v
    table,      \* the Go handle table: handle -> wrapper
    nextHandle, \* the next handle newhandle hands out
    passed,     \* handles the native core has passed to Go, not yet resolved
    gst,        \* gst[g]: "idle", "holding" (resolved), "inC" (calling C)
    held,       \* held[g]: the wrapper g holds, or NoObj
    pinned      \* pinned[g]: g's call keeps the wrapper reachable (keepAlive)

vars == <<nat, natRef, natId, wrap, finalizes, table, nextHandle, passed, gst, held, pinned>>

\* type value struct { baseTenObject[*C.axis_go_value_t] }: no wrapper yet.
Init ==
    /\ nat = [v \in Values |-> "none"]
    /\ natRef = [v \in Values |-> FALSE]
    /\ natId = [v \in Values |-> 0]
    /\ wrap = [v \in Values |-> "none"]
    /\ finalizes = [v \in Values |-> 0]
    /\ table = [h \in {} |-> NoObj]
    /\ nextHandle = 1
    /\ passed = {}
    /\ gst = [g \in Goroutines |-> "idle"]
    /\ held = [g \in Goroutines |-> NoObj]
    /\ pinned = [g \in Goroutines |-> FALSE]

\* A plausible bug: handles are numbered from 0.
NewHandleFromZero(n) == n - 1

\* newhandle(obj): the next fresh handle.
NewHandle(n) == n

\* The wrapper can be reached by the collector's roots.
Reachable(v) ==
    \/ \E h \in DOMAIN table : table[h] = v
    \/ \E g \in Goroutines : held[g] = v /\ (gst[g] = "holding" \/ pinned[g])

(* tenGoCreateValue(cInstance): valueInstance := &value{cPtr}, SetFinalizer, *)
(* id := newhandle(valueInstance), goObjID = id, return id to the core.     *)
CreateValue(v) ==
    LET id == NewHandle(nextHandle) IN
    /\ nat[v] = "none"
    /\ nat' = [nat EXCEPT ![v] = "live"]
    /\ wrap' = [wrap EXCEPT ![v] = "alive"]
    /\ table' = (id :> v) @@ table
    /\ nextHandle' = id + 1
    /\ natId' = [natId EXCEPT ![v] = id]
    /\ natRef' = [natRef EXCEPT ![v] = TRUE]
    /\ UNCHANGED <<finalizes, passed, gst, held, pinned>>

\* The native core passes v's handle to a Go callback while it holds it.
PassHandle(v) ==
    /\ natRef[v]
    /\ natId[v] \notin passed
    /\ passed' = passed \cup {natId[v]}
    /\ UNCHANGED <<nat, natRef, natId, wrap, finalizes, table, nextHandle, gst, held, pinned>>

\* A goroutine resolves a passed handle: the wrapper, or NotFound if it has
\* been freed since (then it holds nothing).
GoResolve(g, id) ==
    /\ gst[g] = "idle"
    /\ id \in passed
    /\ passed' = passed \ {id}
    /\ IF id \in DOMAIN table
         THEN gst' = [gst EXCEPT ![g] = "holding"] /\ held' = [held EXCEPT ![g] = table[id]]
         ELSE UNCHANGED <<gst, held>>
    /\ UNCHANGED <<nat, natRef, natId, wrap, finalizes, table, nextHandle, pinned>>

\* A plausible bug: the call into C is made without keepAlive, so the
\* wrapper's last use is before the call.
GoEnterCUnpinned(g) ==
    /\ gst[g] = "holding"
    /\ gst' = [gst EXCEPT ![g] = "inC"]
    /\ UNCHANGED <<nat, natRef, natId, wrap, finalizes, table, nextHandle, passed, held, pinned>>

\* The goroutine calls C with the wrapper's cPtr, with a deferred keepAlive.
GoEnterC(g) ==
    /\ gst[g] = "holding"
    /\ gst' = [gst EXCEPT ![g] = "inC"]
    /\ pinned' = [pinned EXCEPT ![g] = TRUE]
    /\ UNCHANGED <<nat, natRef, natId, wrap, finalizes, table, nextHandle, passed, held>>

\* The C call returns; the goroutine drops the wrapper.
GoReturn(g) ==
    /\ gst[g] = "inC"
    /\ gst' = [gst EXCEPT ![g] = "idle"]
    /\ held' = [held EXCEPT ![g] = NoObj]
    /\ pinned' = [pinned EXCEPT ![g] = FALSE]
    /\ UNCHANGED <<nat, natRef, natId, wrap, finalizes, table, nextHandle, passed>>

\* handle(id).free(): remove id from the table.
FreeHandle(id) == [h \in DOMAIN table \ {id} |-> table[h]]

\* A plausible bug: tenGoUnrefObj forgets handle(id).free().
UnrefNoFree(v) ==
    /\ natRef[v]
    /\ natRef' = [natRef EXCEPT ![v] = FALSE]
    /\ UNCHANGED <<nat, natId, wrap, finalizes, table, nextHandle, passed, gst, held, pinned>>

\* A plausible bug: tenGoUnrefObj also finalizes the native value itself.
UnrefFinalizesEagerly(v) ==
    /\ natRef[v]
    /\ natRef' = [natRef EXCEPT ![v] = FALSE]
    /\ table' = FreeHandle(natId[v])
    /\ nat' = [nat EXCEPT ![v] = "finalized"]
    /\ finalizes' = [finalizes EXCEPT ![v] = @ + 1]
    /\ UNCHANGED <<natId, wrap, nextHandle, passed, gst, held, pinned>>

\* tenGoUnrefObj(id): handle(id).free(); the core drops its reference.
UnrefObj(v) ==
    /\ natRef[v]
    /\ natRef' = [natRef EXCEPT ![v] = FALSE]
    /\ table' = FreeHandle(natId[v])
    /\ UNCHANGED <<nat, natId, wrap, finalizes, nextHandle, passed, gst, held, pinned>>

\* The collector runs the finalizer of an unreachable wrapper once:
\* C.axis_go_value_finalize(p.cPtr) releases the native value.
Finalize(v) ==
    /\ wrap[v] = "alive"
    /\ ~Reachable(v)
    /\ wrap' = [wrap EXCEPT ![v] = "finalized"]
    /\ nat' = [nat EXCEPT ![v] = "finalized"]
    /\ finalizes' = [finalizes EXCEPT ![v] = @ + 1]
    /\ UNCHANGED <<natRef, natId, table, nextHandle, passed, gst, held, pinned>>

\* The core holds no handle and no goroutine works: the process may idle.
Idle == /\ \A v \in Values : ~natRef[v]
        /\ \A g \in Goroutines : gst[g] = "idle"
        /\ passed = {}

Next ==
    \/ \E v \in Values : CreateValue(v) \/ PassHandle(v) \/ UnrefObj(v) \/ Finalize(v)
    \/ \E g \in Goroutines : GoEnterC(g) \/ GoReturn(g) \/ \E id \in Handles : GoResolve(g, id)
    \/ Idle /\ UNCHANGED vars

(* The native core eventually drops every reference it holds, goroutines  *)
(* finish their calls, and the collector finalizes unreachable wrappers   *)
(* (spec 4.2: the hook runs when the wrapper becomes unreachable).        *)
Fairness ==
    /\ \A v \in Values : WF_vars(UnrefObj(v)) /\ WF_vars(Finalize(v))
    /\ \A g \in Goroutines : WF_vars(GoEnterC(g)) /\ WF_vars(GoReturn(g))
    /\ \A g \in Goroutines : \A id \in Handles : WF_vars(GoResolve(g, id))

Spec == Init /\ [][Next]_vars /\ Fairness

-----------------------------------------------------------------------------
TypeOK ==
    /\ nat \in [Values -> {"none", "live", "finalized"}]
    /\ natRef \in [Values -> BOOLEAN]
    /\ natId \in [Values -> 0..MaxHandle]
    /\ wrap \in [Values -> {"none", "alive", "finalized"}]
    /\ finalizes \in [Values -> 0..2]
    /\ DOMAIN table \subseteq Handles
    /\ \A h \in DOMAIN table : table[h] \in Values
    /\ nextHandle \in 1..MaxHandle + 1
    /\ passed \subseteq Handles
    /\ gst \in [Goroutines -> {"idle", "holding", "inC"}]
    /\ held \in [Goroutines -> Values \cup {NoObj}]
    /\ pinned \in [Goroutines -> BOOLEAN]

(* No goroutine is inside a C call with the cPtr of a native value that    *)
(* the wrapper's finalizer has already released: resolving, pinning and    *)
(* unref by the core may interleave in any order.                          *)
NoUseAfterFinalize ==
    \A g \in Goroutines : gst[g] = "inC" => nat[held[g]] = "live"

(* axis_go_value_finalize runs at most once per value, and only after the *)
(* native core has released the handle with tenGoUnrefObj.                 *)
FinalizedOnceAfterUnref ==
    \A v \in Values : /\ finalizes[v] <= 1
                      /\ nat[v] = "finalized" => ~natRef[v]

(* Every value the core creates is eventually released on the native side: *)
(* the handle is freed and the finalizer runs.                             *)
ValuesEventuallyFinalized ==
    \A v \in Values : nat[v] = "live" ~> nat[v] = "finalized"

=============================================================================
