# TLA+ models of the APTIMA Go binding

This directory holds TLA+ models of the Go side of the APTIMA framework's
extension runtime: the Go binding under `src/core/.../binding/go/interface/axis`
and the Go extensions and apps in `src/packages` and `src/tests/*/integration/go`.
The native core (the C runtime behind cgo) is not in the repository slice. It
is modelled from `spec.md` as the collaborator the Go code calls and is called
back by. Every definition modelled that way is marked `spec_modelled` in
`PROJECT.json`.

## 1. Inventory

### Components and their state

| Component | Source | State | Operations |
|---|---|---|---|
| Result return | `axis_env_return.go` | the ack-handler handle `cb`, the wrappers pinned by `keepAlive` | `ReturnResult`, `ReturnResultDirectly` |
| Handle table | outside `src/`; used by `value.go` and `axis_env_return.go` | live handles and the objects they name | `newhandle`, `newGoHandle`, `loadAndDeleteGoHandle`, `handle.free` |
| Value binding | `value.go` | a wrapper per native value, its handle, its finalizer | `tenGoCreateValue`, `tenGoUnrefObj`, the finalizer |
| Byte and handle arrays | `common.go` | none: `unsafe.Slice` views of native memory | `convertCArrayToGoSlice`, `convertCByteArrayToGoSlice` |
| Native core (spec-modelled) | `spec.md` 4-6 | each extension's lifecycle phase, messages in flight, pending results, accepted ack handles | drive the lifecycle, deliver commands/data/frames, deliver results to callbacks, reject messages for closed extensions |
| Extensions (test and package code) | `src/tests/**/extension*.go`, `src/packages/**` | per extension: `isStopped`, `stopChan`, `respChan`, `counter`, `cachedCmd`, ... | `OnConfigure`/`OnInit`/`OnStart`/`OnStop`/`OnDeinit`, `OnCmd`, `OnData`, `OnVideoFrame`, send callbacks |
| Apps | `default_app_go`, `close_app_go`, `start_app_sync_go` | the app and its property store | `NewApp`, `Run`, `Wait`, `Close`, app `OnInit`/`OnDeinit` |
| Addon registration, log levels | `init()` functions, `log_level.go` | a name-to-factory registry, constants | `RegisterAddonAsExtension` |

### How the components interact

The native core calls the Go side through cgo exports. Examples are
`tenGoCreateValue` and `tenGoUnrefObj` in `value.go`, and the lifecycle and
message handlers. Go calls back into C with raw pointers taken from Go wrappers
(`getCPtr()`). Go objects that C must call back, such as ack handlers and send
callbacks, cross the boundary only as integers from the handle table. A wrapper
that is no longer reachable is collected by the Go garbage collector, and its
finalizer releases the native object. An extension handler usually starts a
goroutine (`go func()`) and returns at once. That goroutine, and the result
callbacks the native core runs on the extension's thread, then call `tenEnv`
(`SendCmd`, `ReturnResult`, `ReturnResultDirectly`, `On*Done`) at any later
time. This can happen after the extension has moved on in its lifecycle, or
after its `tenEnv` has expired.

### What is hard

- **GC against cgo.** A wrapper whose pointer is inside a C call must stay
  reachable. This is the job of the deferred `keepAlive` calls
  (`axis_env_return.go:37`).
- **Handle ownership across a failing call.** The handle for an ack handler is
  owned by Go until C accepts it. If the call fails, Go must delete it
  (`:55`). If it succeeds, C owns it and deletes it after calling the handler.
- **Concurrent results for one command.** Goroutines and cached commands
  (`send_video_frame_go`) can answer the same command twice, or answer the
  wrong one.
- **Stopping that waits for work.** In `prepare_to_stop_go`, `OnStop` of B and
  C blocks until a command sent by A's `OnStop` has been handled. Progress
  depends on the native core still delivering commands while an extension is
  stopping, and on the order in which the three extensions are stopped.
- **Expired environments.** A goroutine can outlive its extension
  (`expired_ten_go`). Its `tenEnv` calls must then fail synchronously, and no
  callback may run.
- **Counting callbacks.** `no_dest_go` counts four failure callbacks before
  `OnStartDone`. A lost update means start never completes.
- **Buffers.** `LockBuf`/`UnlockBuf` follow a fixed discipline. Received
  payloads are copies, but `common.go` builds slices that alias native memory.

### What makes each component correct

- **Result return:** no wrapper is finalized while C uses it. Every ack handle
  has exactly one owner at any time, so none leaks and none is lost. In the
  end the handle table is empty; the integration apps print this as
  `LeakObjSize`.
- **Value binding:** a handle the core has unreffed is never used again: no
  goroutine is in C with a finalized value, and each finalizer runs once.
- **Lifecycle:** each phase runs after the previous phase's done signal.
  `OnDeinit` runs exactly once. Stop drains in-flight work first. Every
  extension eventually reaches deinit once the app closes.
- **Correlation:** each sent command's callback runs at most once, and exactly
  once when the command is answered. Results travel back along the route they
  came. A send on an expired `tenEnv` fails at once and runs no callback.
- **Buffers:** a payload written and unlocked is read back unchanged. A
  receiver's change to its copy is never seen by another read.

## 2. Plan

Modules are listed in order of importance. Those marked ✓ exist.

1. ✓ `EnvReturn`: `ReturnResult`/`ReturnResultDirectly`, called by concurrent
   goroutines. They race the garbage collector, the native accept/reject and
   ack, and `tenEnv` expiry.
2. ✓ `PrepareToStop`: the lifecycle of three extensions that drain a "stop"
   command through A → B → C before `OnStopDone`.
3. ✓ `LifecycleSpec` (abstract) and `Lifecycle`: the native lifecycle driver
   with the handlers of `two_exaxission_one_group_cmd_go`, refining
   `LifecycleSpec` through `INSTANCE ... WITH`. `PrepareToStop` is not
   mapped onto `LifecycleSpec`, for two reasons. Its phases are coarser: init
   goes straight to started. And its `OnCmd` while stopping breaks the rule
   that handlers run only in Started, which is what run
   `prepare_to_stop_spec_rule` records.
4. ✓ `PendingCalls` (abstract) and `CmdRelay`: `SendCmd` with callbacks in
   `three_extension_cmd_go` (data 2 → 6 → 30), refining `PendingCalls`; and
   ✓ `TwoHopRelay`: the relays of `return_result_go`, `handle_error_go` and
   `transfer_pointer_go`, which reuse `MsgProps` and `PendingCalls`.
5. ✓ `NoDest`: the four no-destination sends and `counter` in `no_dest_go`.
6. ✓ `ExpiredEnv`: `expired_ten_go`'s goroutine that outlives the extension.
7. ✓ `MsgBuffer`: `AllocBuf`/`LockBuf`/`UnlockBuf`/`GetBuf` with
   copy-on-receive, and the `cachedCmd` loopback of `send_video_frame_go`.
8. ✓ `ValueBinding`: `value.go`'s create/unref/finalize over the Go handle
   table.
9. ✓ `DefaultApp`: `default_app_go`'s `main` and app, with the packaged
   `defaultExtension` and `httpExtension`, refining `LifecycleSpec`.
10. ✓ `CloseApp`: `close_app_go`'s `main`, `appRoutine` and `appTimeout`,
    closing the app from a second goroutine; composed with `DefaultApp`.

`MsgProps` is shared: the typed property store of spec 5 (`SetProperty`,
`GetProperty` with `PropertyNotFound` and `TypePropertyMismatch`). Each
scenario module states, in its `TypeOK`, the kind each property key has in
that app (`KindOf`), so that storing a property with the wrong kind is a type
error the checker finds.

## 3. Modules and runs

### EnvReturn (`EnvReturn.tla`, `MCEnvReturn.tla`)

**State.**
- `pc[g]`, `call[g]` and `held[g]` describe goroutine `g`: where it is in its
  call, the call's arguments, its handle `cb` and its error, and the wrappers it
  keeps reachable.
- `finalized` is the set of wrappers whose finalizer has run.
- `handles` and `nextHandle` are the Go handle table.
- The native core's side is `answered` (commands that already have their final
  result), `ackPending` (accepted ack handles) and `expired`.

**Actions.**
- `ReturnResult` and `ReturnResultDirectly` are the Go prologue: the nil checks
  (`FailInvalid`), `newGoHandle`, the deferred `keepAlive` (`PinnedDuringCall`)
  and entering C.
- `CgoReturn` is the native accept or reject (`NativeAccepts`). It is
  followed by the entry point's own `loadAndDeleteGoHandle` on error and by
  the return, which ends the pinning. The code has two copies of that
  cleanup: `CleanupOnError` for `ReturnResult` and `CleanupOnErrorDirectly`
  for `ReturnResultDirectly`. Dropping either one breaks `HandleOwnership`.
- `AckHandler` is the native core invoking and deleting an accepted ack handle.
- `Finalize(o)` is the collector finalizing a wrapper no goroutine holds.
- `Expire` is the extension finishing deinit.

**Runs.**
- `env_return` (`EnvReturn.cfg`): 2 goroutines and 2 commands, no symmetry
  (the run checks liveness). Two goroutines can answer the same command, so
  the second is rejected, and every mix of nil arguments and handlers is
  tried. It checks:
  - `NoUseAfterFinalize`: no passed wrapper is finalized while its call is in C.
  - `HandleOwnership`: every registered handle is owned either by a goroutine
    in C or by the native core, never both and never neither.
  - `EventuallyNoLeak`: the handle table ends empty. This assumes weak
    fairness of the cgo return and of the native ack, because a C call
    returns and the core delivers every ack.

### PrepareToStop (`PrepareToStop.tla`, `MCPrepareToStop.tla`)

**State.**
- `phase[e]` is the native lifecycle phase of A, B and C. `init` stands for
  configure/init/start, which `DefaultExtension` completes at once.
- `closing` records whether the app is closing.
- `cmd[i]` describes each of the two commands "start" and "stop": its state,
  where it is, and its route of senders waiting for the result.
- The extension state is A's stop goroutine and `respChan`/`isStopped`, B's
  and C's `stopChan` and blocked `OnStop` goroutine, and C's sleeping "stop"
  goroutine.
- `panicked` records whether any goroutine has panicked.

**Actions.**
- Every `go func()` body is its own step: `RunOnCmd`, `AStopSend`/`AStopRecv`,
  `CReplyStop`/`CCloseStopChan`, `StopChanDone`. It runs after the handler that
  spawned it has returned.
- Result callbacks are `DeliverResult`, run on the sender's thread unless the
  sender has been deinited.
- The constant `DeliverPhases` says in which phases the native core calls
  `OnCmd`.

**Runs.**
- `prepare_to_stop` (`PrepareToStop.cfg`) uses
  `DeliverPhases = {started, stopping}`, which is what the test code relies on.
  It checks four properties:
  - `NoPanic`: A's `OnDeinit` finds `isStopped`, A's stop result is OK, and no
    `stopChan` is closed twice.
  - `StopAfterDrain`: B and C leave stopping only after C has answered "stop".
  - `EventuallyAllDeinited`: all three extensions reach deinit.
  - `StartSettles`: the client's "start" is eventually answered or fails for
    good. It fails only after the app has closed: A's goroutine sends on an
    expired `tenEnv`, or a callback of a deinited extension never runs. The
    app may close at any time, so the command is never left pending by the
    close.

  The fairness is weak fairness on every native step and goroutine step, and on
  the app eventually closing. The client's "start" is optional, so it may race
  the close or never be sent.
- `prepare_to_stop_spec_rule` (`PrepareToStopSpecRule.cfg`) is expected to
  fail. It uses `DeliverPhases = {started}`, the rule of `spec.md` 4.5. TLC
  finds a behaviour in which B and C enter stopping before A's "stop" reaches
  them, and nothing progresses again. This is recorded as a
  spec/code divergence in `PROJECT.json`.

### Lifecycle (`LifecycleSpec.tla`, `Lifecycle.tla`, `MCLifecycle.tla`)

`LifecycleSpec` is what spec 4.5 promises of one extension: its phase moves
Unconfigured → Configured → Initialized → Started → Stopping → Deinitialized,
one step at a time, message handlers run only in Started, and (weak fairness
on `Advance`) every extension reaches Deinitialized.

`Lifecycle` models `two_exaxission_one_group_cmd_go` under the native driver.
`stage[e]` is A's or B's stage; each handler and the done signal it calls
synchronously (`baseExtension.OnStart`/`OnStop`, `aExtension.OnInit`,
`DefaultExtension`'s others) is one action. `AGo(k)` is the whole goroutine of
A's `OnCmd`: the two `SetPropertyBytes` checks (an empty slice must be
refused), `SendData` and `ReturnResult`, with a panic on each unexpected
outcome. `OnDataB(k)` reads `test_data_path` back as bytes. `DropData(k)` is
the core dropping a data whose destination has left started; `CloseApp` is the
client closing once all answers are in.

Run `lifecycle` (`Lifecycle.cfg`, two client commands) checks `TypeOK`,
`NoPanic` (the `aName` set by `OnInit` reaches B's `OnData` as "after start")
and `LifecycleRefined`, the refinement: `PhaseOf` maps stages onto the
abstract phases, and `handled` is the commands A has received and the data B
has handled. Fairness is weak fairness on the whole next-state relation while
nothing has panicked: the driver, the goroutines and the test client all make
progress.

### CmdRelay (`PendingCalls.tla`, `CmdRelay.tla`, `MCCmdRelay.tla`)

`cmd[id]` is a command and its pending call: the client's command `k`, and
`<<"B", k>>`, `<<"C", k>>` that A's and B's goroutines derive from it. Its
stages are unsent, queued, delivered (goroutine spawned), handled, answered
and closed (callback ran). `ReturnResult` accepts one result per command.
Callbacks forward the detail to the command the goroutine received.

Run `cmd_relay` (two client commands) checks `TypeOK`, `NoPanic`,
`RelayedUnchanged` (every result in the chain is OK with detail
`{"result":30}`) and `PendingCallsRefined`: the relay implements
`PendingCalls`, in which each call is sent, then completed exactly once, and
every sent call is eventually completed. Fairness is weak fairness per
delivery, goroutine and callback.

### TwoHopRelay (`TwoHopRelay.tla`, composed in `MCCmdRelay.tla`)

One lane per app: `return_result`, `handle_error` and `transfer_pointer`. In
each lane the client's command `rcmd[a]` goes to A. A's `OnCmd` goroutine
(`AGo`) sends the command "B", `bcmd[a]`. B's goroutine (`BGo`) answers it with
`BHandle`, and A's send callback (`ACallback`) answers the client with
`AResult`. The callback keeps every early return of the code: a missing
`detail`, a wrong detail, a missing `password`. In handle_error, once B's detail is read, A
reads "agora" from its own properties and panics if that succeeds
(`AgoraPanics`). A's `property.json` is not in the repository, so `AEnvProps`
is the empty store the test relies on.

`heap` is the Go memory that transfer_pointer's pointer properties point at.
`StorePtr` stores the pointer itself. A's `data.Uid = 3` comes after
`SetProperty("struct", data)`, and B reads the struct through the pointer
(`PointeesOK`). Any failed check panics B's goroutine (`rpanicked`).

The module's names carry an `R` prefix where `CmdRelay` uses the same ones,
because `MCCmdRelay` extends both. The two processes share no state, so
`MCNext` takes a step of one of them and leaves the other unchanged. Each
keeps its own fairness.

Run `cmd_relay` also checks two properties of this module:
- `RelayResults`: no goroutine panics, and every client gets what its test
  expects. For return_result that is the password. For handle_error it is
  B's `PropertyNotFound` with B's Error status, which A's callback keeps
  (`StatusOf`). For transfer_pointer it is `"aptima"`.
- `RelayCallsRefined`: the two calls of each lane refine `PendingCalls`.

The mutants show what each property catches:
- `RelayResults`: a `SetProperty` that stores a copy of the pointee. B then
  reads `Uid = 2` and panics.
- `RelayCallsRefined`: B compares the command name with `"b"`, so nothing
  answers.

### NoDest (`NoDest.tla`)

`OnStart` of A sends four messages with no destination; each callback does
`counter++` and calls `OnStartDone` at 4. The increment is split into read,
write and test, because it is unsynchronised. The constant `Serialized` says
whether the callbacks run one at a time on A's thread after `OnStart` returns.

- `no_dest` (`Serialized = TRUE`) checks `StartDoneOnceAfterAll` (one
  `OnStartDone`, after all four callbacks), and passes.
- `no_dest_concurrent` (`Serialized = FALSE`, spec 4.4's rule) checks
  `EventuallyStarted` and is violated by a lost update (a finding).

### ExpiredEnv (`ExpiredEnv.tla`, `MCExpiredEnv.tla`)

Three client commands; for each, A's goroutine sends "B", sleeps and sends it
again on its captured `tenEnv`, expecting failure. B answers with a pointer to
`UserData`; A's callback answers the client with its `Name`. `Deinit(e)`
expires an extension's `tenEnv`. `SleepOutlastsClose` says whether the sleep
ends only after A has expired. The test relies on this (a 3 s sleep against
the app close), and the run sets it `TRUE`. With `FALSE`, the re-send reaches
a live `tenEnv` and succeeds, and the goroutine panics. Neither the spec nor
the code bounds the close, so the test's timing is an assumption of the
model, stated as a constant rather than checked.

- `expired_env` checks `TypeOK`, `ClientGetsName` and
  `EventuallyQuiescent`, and passes. `panicked` is kept in the state so that a
  run with `SleepOutlastsClose = FALSE` shows the panic; under the test's
  timing the late send always meets an expired `tenEnv`, so no property
  about the panic is checked.

### MsgBuffer (`MsgBuffer.tla`, `MCMsgBuffer.tla`)

Two data commands and two video commands. Each message has a native buffer
with `AllocBuf`, `LockBuf`/`UnlockBuf` and a copying `GetBuf`. The data
loopback fills a buffer, sends it to itself, mutates the received copy and
checks the original; the video loopback caches the command and answers it
from `OnVideoFrame`. `VideoPipelined` says whether a second video command may
arrive before the first frame loops back.

`common.go`'s `convertCByteArrayToGoSlice` is `ConvertCByteArrayToGoSlice`: a
view with `alias = TRUE`, sharing the native bytes. `GetBuf` copies that view
(`CopySlice`), as spec 4.3 requires. The handlers then zero the slice they
got (`ZeroSlice`), and the zeroing reaches the native buffer only through an
alias. A `GetBuf` that returns the view without the copy breaks both `NoPanic`
and `PayloadIntact`.

- `msg_buffer` checks `TypeOK`, `NoPanic`, `PayloadIntact` and
  `VideoCmdsAnswered`, and passes.
- `msg_buffer_pipelined` finds `NoPanic` violated: `cachedCmd` is
  overwritten, so one command is answered twice and the other never (a code
  bug when commands are pipelined, as spec 5 allows).

### ValueBinding (`ValueBinding.tla`, `MCValueBinding.tla`)

The handle table's code is outside `src/`; spec 4.1 promises that a handle
names one object until it is released. `ValueBinding` models `value.go`.

**State.**
- `nat[v]`, `natRef[v]` and `natId[v]` are the native value, whether the core
  still holds its handle, and that handle.
- `wrap[v]` and `finalizes[v]` are the Go wrapper and the number of runs of its
  finalizer.
- `table` and `nextHandle` are the Go handle table: a function whose domain
  grows on `newhandle` and shrinks on `free`.
- `passed` holds the handles the core has passed to Go callbacks.
- `gst[g]`, `held[g]` and `pinned[g]` are a goroutine's step, the wrapper it
  resolved, and whether its C call pins it.

**Actions.**
- `CreateValue(v)` is `tenGoCreateValue`: the wrapper, `SetFinalizer`,
  `newhandle`, and the id returned to the core.
- `UnrefObj(v)` is `tenGoUnrefObj`: `handle(id).free()`.
- `Finalize(v)` is the collector running the finalizer of an unreachable
  wrapper (`axis_go_value_finalize`).
- `PassHandle`, `GoResolve`, `GoEnterC` and `GoReturn` are the Go code that
  resolves a handle and calls C with the wrapper's `cPtr` under `keepAlive`
  (spec 4.2).

**Run `value_binding`.** Two values and two goroutines. It checks:
- `NoUseAfterFinalize`: no goroutine is in C with a finalized value.
- `FinalizedOnceAfterUnref`: the finalizer runs at most once, and only after
  the core's unref.
- `ValuesEventuallyFinalized`: every live value is eventually finalized. This
  assumes weak fairness of the core's unref, of the goroutines, and of the
  collector. The last of these is the spec 4.2 promise that the hook runs
  once the wrapper is unreachable.

### DefaultApp (`DefaultApp.tla`, `MCDefaultApp.tla`)

This module models `default_app_go/main.go` (`main`, `defaultApp`), the
packaged `default_exaxission_go` (`defaultExtension`), and
`simple_http_server_go`'s `httpExtension`, under the native lifecycle driver.

**State.**
- `main` is main's goroutine.
- `appNil` says whether `NewApp` failed.
- `app` is the app's lifecycle.
- `stage[e]` is each extension's stage.
- `server[e]` is `httpExtension.server`: nil, running or stopped. `Stop` does
  not reset the pointer.
- `cmd` and `res` are the client's commands and their results.

**Actions.**
- `NewApp`, `RunAndWait` (`Run(true)` then `Wait()`), `AppOnInit`,
  `AppOnDeinit`, `WaitReturns`.
- Per extension: `ConfigureInit`, then `OnStartDefault` or `OnStartHttp`,
  `EndpointStartDone`, `OnStopDefault`/`OnStopHttp`, `Deinit`.
- `ClientSend`, `OnCmd` (the result, with the http `detail` string), and
  `CloseApp`.
- `RegisterDefault` and `RegisterHttp` are the two packages' `init()`. Each
  registers its addon (`addons`) before `main`. `NewApp` requires both, and
  `CreateExtension` builds each extension of the graph from the factory of
  its registered addon (`AddonOf`).

**CloseApp (`CloseApp.tla`).** This models `close_app_go/main.go`:
- `main` starts `appRoutine` and `appTimeout` and waits on `stopped`
  (`CMainStart`, `CMainExit`).
- `appRoutine` runs `Run(false)`, and when that returns it sends on `stopped`
  (`CRun`, `CRunReturns`, `CRoutineSignal`).
- `appTimeout` sleeps, then calls `Close` (`CTimeoutClose`).
- The app has only `OnDeinit` (`COnDeinit`).

The spec does not say what a `Close` does before `Run` has started the app.
`CTimeoutClose` therefore keeps or loses such a close nondeterministically.
`CloseAfterRunStarts` encodes the test's assumption that the 5 s sleep
outlasts the start, and the run sets it `TRUE`. With `FALSE`, TLC finds
`CloseAppExits` violated: the close is lost, `Run` never returns and `main`
hangs.

`main` only prints `NewApp`'s error (`CNewAppMayFail`). `appRoutine` then
calls `Run` and `appTimeout` calls `Close` on the nil app, and the first of
them to run panics (`cpanicked`), which ends the process while `main` still
waits on `stopped`.

`MCDefaultApp` composes the two apps. They share no state: `MCNext` takes a
step of one of them, and each has its own weak fairness.

**Constants for code that is not in the repository.**
- `httpExtension.OnStart` starts an endpoint and never calls `OnStartDone`
  itself. The endpoint package is missing, so `EndpointSignalsStart` says
  whether it does. Without it, the http extension never starts, its commands
  are never answered, and the app never closes.
- `NewAppMayFail`: on error `main` only prints, then calls `Run` on a nil app,
  which panics. The run sets it `TRUE`, so both outcomes of `NewApp` are
  explored.

**Run `default_app`.** One extension of each kind and two commands, one to
each, beside `close_app_go` (2106 distinct states). It checks `TypeOK` and:
- `ExitAfterCleanDeinit`: `main` returns only after the app's `OnDeinit`,
  hence after every extension's deinit.
- `ExtLifecycleRefined`: each extension, mapped by `PhaseOf`, refines
  `LifecycleSpec`'s `Safety`: phases in order, and `OnCmd` only while
  started. Unless `NewApp` failed, it also refines its `Liveness`: every
  extension is eventually deinited. When `NewApp` fails, no extension is
  ever created.
- `ProcessEnds`: the process always ends, with no hang in any case. It ends
  either when `main` returns from `Wait` or when `main` panics on the nil app.
  The check's mutant has the endpoint never signal `OnStartDone`, and TLC
  finds the hang. A `Run`/`Wait` that blocks on a nil app instead of
  panicking is caught as well.
- `CloseAppExits`: `close_app_go` eventually ends, by `main` exiting or by
  a panic on the nil app. When `main` exits, `OnDeinit` has run exactly once
  and `Run` has returned.

### Findings

| Run | Kind | What |
|---|---|---|
| `prepare_to_stop_spec_rule` | spec/code divergence | the code needs `OnCmd` while Stopping; spec 4.5 allows it only in Started |
| `no_dest_concurrent` | spec/code divergence | `counter++` is safe only if callbacks are serialised on A's thread, which spec 4.4 does not promise |
| `msg_buffer_pipelined` | code bug | `cachedCmd` holds one command; two in flight lose an answer |

### Bounds

- **EnvReturn.** Two goroutines and two commands. This covers a double
  answer, an answer to another command, and a goroutine in C while the other
  finishes and drops its references, which lets the collector act. Three
  goroutines add no new kind of case, and the run checks liveness without
  symmetry, which would take several minutes with a third goroutine.
- **PrepareToStop, NoDest.** The scenario is fixed by the test app: its
  extensions and messages are all there are. Every order of handler calls,
  deliveries and goroutine steps is explored.
- **TwoHopRelay.** One client command per app, as each test sends. A second
  command would replay the same lane.
- **CmdRelay, Lifecycle.** Two client commands: the smallest number at which
  two chains (goroutines, callbacks, data) interleave with each other and
  with the close.
- **ExpiredEnv.** Three commands, so that commands are answered before, during
  and after the other commands' sleeps and the per-extension expiry.
- **MsgBuffer.** Two of each kind of command: one more than the test sends,
  which is what pipelining needs.
- **ValueBinding.** Two values and two goroutines. With these, a goroutine can
  hold one value while the other is unreffed and finalized. Two goroutines can
  also resolve the same handle before and after its free. Every handle is
  used once, so `nextHandle` is bounded by the number of values.
- **DefaultApp.** One extension of each kind, as in the packaged graph, and
  one command to each.

## 4. Not modelled, and why

- **Log levels.** `log_level.go` declares constants only.
- **`start_app_sync_go`.** It has the same `appRoutine` as `close_app_go`,
  but the test client closes the app, so it adds nothing to `CloseApp`.
- **`tenValueDestroy`.** Nothing in the repository calls it.
- **`NewCmdResult` failing.** return_result_go's B has an error branch for
  it. The model takes result creation to succeed, because the core's
  allocator is outside the repository.
- **The HTTP example's endpoint.** Its code is not in the slice. Whether it
  signals `OnStartDone` is the `EndpointSignalsStart` constant of `DefaultApp`.
- **The native core's internals** (routing, scheduling, wire format). They are
  out of scope in `spec.md`, and only their interface is modelled.
- **`convertCArrayToGoSlice` in `common.go`.** Its callers are outside
  `src/`, and nothing in the repository uses the handle array it returns.
  `convertCByteArrayToGoSlice` is modelled in `MsgBuffer`.
- **The handle table's code.** It is outside `src/`. `ValueBinding` and `EnvReturn` model the calls that
  `value.go` and `axis_env_return.go` make on it.
