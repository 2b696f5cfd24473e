------------------------------ MODULE CloseApp ------------------------------
(***************************************************************************)
(* close_app_go: main creates the app, runs it with Run(false) in          *)
(* appRoutine, which signals `stopped` when Run returns, and closes it     *)
(* from appTimeout after a 5 s sleep; main waits on `stopped`, then prints *)
(* LeakObjSize. defaultApp has only OnDeinit; the app has no extensions.   *)
(*                                                                         *)
(* App.Run, App.Close and the default OnInit are outside src/: Run starts  *)
(* the app and blocks until it has deinitialized; Close asks the core to   *)
(* close it, which it does once the app is initialized. What Close does    *)
(* before Run has started the app is unspecified; CloseAfterRunStarts says *)
(* the 5 s sleep outlasts the start, which the test relies on.             *)
(***************************************************************************)
EXTENDS Integers

CONSTANTS
    CloseAfterRunStarts,
    CNewAppMayFail      \* aptima.NewApp may return an error (and a nil app)

VARIABLES
    cmain,      \* main: "init", "waiting" (on <-stopped), "exited"
    routine,    \* appRoutine: "none", "ready", "inRun", "returned", "done"
    timer,      \* appTimeout: "none", "sleeping", "closed"
    capp,       \* the app: "none", "running", "inited", "closing", "deinited"
    closeReq,   \* app.Close() has been called
    stopped,    \* values buffered in the `stopped` channel (capacity 1)
    deinits,    \* calls of defaultApp.OnDeinit
    cnil,       \* NewApp failed: app is nil
    cpanicked   \* a goroutine called a method of the nil app

cvars == <<cmain, routine, timer, capp, closeReq, stopped, deinits, cnil, cpanicked>>

CInit ==
    /\ cmain = "init"
    /\ routine = "none"
    /\ timer = "none"
    /\ capp = "none"
    /\ closeReq = FALSE
    /\ stopped = 0
    /\ deinits = 0
    /\ cnil = FALSE
    /\ cpanicked = FALSE

\* app, err := NewApp(&defaultApp{}) (an error is only printed);
\* stopped := make(chan struct{}, 1); go appRoutine(app, stopped);
\* go appTimeout(app, 5s); then <-stopped.
CMainStart ==
    /\ cmain = "init"
    /\ cnil' \in IF CNewAppMayFail THEN BOOLEAN ELSE {FALSE}
    /\ cmain' = "waiting"
    /\ routine' = "ready"
    /\ timer' = "sleeping"
    /\ UNCHANGED <<capp, closeReq, stopped, deinits, cpanicked>>

\* appRoutine: app.Run(false) starts the app and blocks; on a nil app the
\* call panics and the process dies.
CRun ==
    /\ routine = "ready"
    /\ routine' = IF cnil THEN routine ELSE "inRun"
    /\ capp' = IF cnil THEN capp ELSE "running"
    /\ cpanicked' = cnil
    /\ UNCHANGED <<cmain, timer, closeReq, stopped, deinits, cnil>>

\* DefaultApp's OnInit: OnInitDone.
CAppOnInit ==
    /\ capp = "running"
    /\ capp' = "inited"
    /\ UNCHANGED <<cmain, routine, timer, closeReq, stopped, deinits, cnil, cpanicked>>

(* appTimeout: time.Sleep(timeout); app.Close(). A Close before Run has    *)
(* started the app may be kept or lost: the spec does not say which. On a *)
(* nil app the call panics.                                               *)
CTimeoutClose ==
    /\ timer = "sleeping"
    /\ CloseAfterRunStarts /\ ~cnil => capp # "none"
    /\ timer' = IF cnil THEN timer ELSE "closed"
    /\ closeReq' \in IF cnil THEN {closeReq} ELSE IF capp = "none" THEN BOOLEAN ELSE {TRUE}
    /\ cpanicked' = cnil
    /\ UNCHANGED <<cmain, routine, capp, stopped, deinits, cnil>>

\* The core takes the close of an initialized app and calls OnDeinit.
CCloseTaken ==
    /\ closeReq
    /\ capp = "inited"
    /\ capp' = "closing"
    /\ UNCHANGED <<cmain, routine, timer, closeReq, stopped, deinits, cnil, cpanicked>>

\* defaultApp.OnDeinit: print, OnDeinitDone; the app has ended.
COnDeinit ==
    /\ capp = "closing"
    /\ capp' = "deinited"
    /\ deinits' = deinits + 1
    /\ UNCHANGED <<cmain, routine, timer, closeReq, stopped, cnil, cpanicked>>

\* Run returns once the app has ended.
CRunReturns ==
    /\ routine = "inRun"
    /\ capp = "deinited"
    /\ routine' = "returned"
    /\ UNCHANGED <<cmain, timer, capp, closeReq, stopped, deinits, cnil, cpanicked>>

\* A plausible bug: appRoutine returns without signalling `stopped`.
CSignalNever == stopped

\* appRoutine: stopped <- struct{}{} (the buffer has room).
CSignal == stopped + 1

CRoutineSignal ==
    /\ routine = "returned"
    /\ stopped < 1
    /\ routine' = "done"
    /\ stopped' = CSignal
    /\ UNCHANGED <<cmain, timer, capp, closeReq, deinits, cnil, cpanicked>>

\* main: <-stopped returns; it prints LeakObjSize and exits.
CMainExit ==
    /\ cmain = "waiting"
    /\ stopped > 0
    /\ stopped' = stopped - 1
    /\ cmain' = "exited"
    /\ UNCHANGED <<routine, timer, capp, closeReq, deinits, cnil, cpanicked>>

\* Every goroutine of the process has finished its work.
CQuiet == capp = "deinited" /\ timer = "closed" /\ routine = "done"

CNext ==
    \/ /\ ~cpanicked
       /\ \/ CMainStart \/ CRun \/ CAppOnInit \/ CTimeoutClose \/ CCloseTaken
          \/ COnDeinit \/ CRunReturns \/ CRoutineSignal \/ CMainExit
    \/ (cmain = "exited" \/ cpanicked \/ CQuiet) /\ UNCHANGED cvars

\* The goroutines are scheduled, the sleep ends, and the core progresses.
CSpec == CInit /\ [][CNext]_cvars /\ WF_cvars(CNext)

-----------------------------------------------------------------------------
(* The process ends: main, blocked on `stopped` while Run(false) runs in  *)
(* another goroutine and Close comes from a third, eventually exits, or,  *)
(* when NewApp failed, a goroutine panics on the nil app. When main exits, *)
(* the app's OnDeinit has run exactly once and Run has returned, so       *)
(* LeakObjSize is read after the app's teardown.                          *)
CloseAppExits ==
    /\ <>(cmain = "exited" \/ cpanicked)
    /\ [](cmain = "exited" => deinits = 1 /\ routine = "done")

=============================================================================
