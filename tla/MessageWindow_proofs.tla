------------------------ MODULE MessageWindow_proofs ------------------------
(***************************************************************************)
(* Proofs about WindowController and MessageWindow for any number of        *)
(* callers and threads, any retry limits and any faults: the hidden window  *)
(* is a WindowController, and every WindowController is a controller of the *)
(* base class, so what is proved of the base class holds for it.            *)
(*                                                                         *)
(* WorkerInv ties the point a window thread is at to whether it runs, to    *)
(* its context, its window, the window class and the result of its loop;    *)
(* HwndInv ties hwnd_ to the thread in data_; TrayInv adds when an icon     *)
(* exists, and how many hooks there can be at once.                         *)
(***************************************************************************)
EXTENDS MessageWindow, MessageLoopThreadController_proofs

-----------------------------------------------------------------------------
(* Each step is a step of the class above.                                 *)

\* A step of the window's thread that is not its exit leaves the base class alone.
LEMMA WindowThreadLeavesBase ==
  ASSUME NEW t \in Thread, WindowWorker(t) \/ WindowProc(t), ~EndThread(t)
  PROVE  UNCHANGED baseVars
BY DEF WindowWorker, WindowProc, RegisterClass, CreateWindow, NotifyFailure, NotifyWindow,
       CloseWindow, GetMessageFails, UnregisterClass

LEMMA WindowStepIsBaseStep == WindowTypeOK /\ [WindowNext]_vars => [Next]_baseVars
<1> SUFFICES ASSUME WindowTypeOK, [WindowNext]_vars
             PROVE  [Next]_baseVars
  OBVIOUS
<1>1. ASSUME NEW c \in Callers, process = "alive", WindowStart(c)
      PROVE  Next
  BY <1>1 DEF WindowStart, Next, StartStep
<1>2. ASSUME NEW c \in Callers, process = "alive", WindowStartContinues(c)
      PROVE  Next
  BY <1>2 DEF WindowStartContinues, Next, StartContinues, StopContinues
<1>3. ASSUME NEW c \in Callers, process = "alive", WindowStop(c)
      PROVE  Next
  BY <1>3 DEF WindowStop, Next, StopStep
<1>4. ASSUME NEW c \in Callers, process = "alive", WindowStopContinues(c)
      PROVE  Next
  BY <1>4 DEF WindowStopContinues, PostMessage, WindowReap, Next, StopContinues
<1>5. ASSUME NEW t \in Thread, process = "alive", WindowWorker(t) \/ WindowProc(t)
      PROVE  [Next]_baseVars
  <2>1. CASE EndThread(t)
    BY <1>5, <2>1 DEF EndThread, WindowTypeOK, Next, WorkerStep
  <2> QED BY <1>5, <2>1, WindowThreadLeavesBase
<1>6. ASSUME NEW t \in Thread, process = "alive", HandlerStop(t)
      PROVE  Next
  BY <1>6 DEF HandlerStop, Next, WorkerStep
<1>7. CASE process = "alive" /\ Destroy
  BY <1>7 DEF Next
<1>8. CASE Terminated
  BY <1>8 DEF Next
<1>9. CASE UNCHANGED vars
  BY <1>9 DEF vars
<1> QED BY <1>1, <1>2, <1>3, <1>4, <1>5, <1>6, <1>7, <1>8, <1>9 DEF WindowNext, WindowCaller

\* The messages of the hidden window stay within what WindowController leaves
\* to windowProc(); the shell and the menus are outside it.
LEMMA MessageStepIsWindowStep == [MessageNext]_allVars => [WindowNext]_vars
<1> SUFFICES ASSUME [MessageNext]_allVars
             PROVE  [WindowNext]_vars
  OBVIOUS
<1>1. ASSUME NEW t \in Thread, process = "alive", MessageWorker(t)
      PROVE  WindowNext
  <2>1. WindowWorker(t) \/ CreateWindow(t, FALSE)
    BY <1>1 DEF MessageWorker, WindowWorker
  <2> QED BY <1>1, <2>1 DEF WindowNext, WindowProc
<1>2. ASSUME NEW t \in Thread, process = "alive", MessageProc(t)
      PROVE  [WindowNext]_vars
  <2>1. CASE WM_CREATE(t)
    BY <1>2, <2>1 DEF WM_CREATE, WindowNext, WindowProc
  <2>2. CASE WM_DESTROY_AfterCreate(t)
    BY <1>2, <2>2 DEF WM_DESTROY_AfterCreate, WindowNext, WindowWorker
  <2>3. CASE WM_CLOSE(t)
    BY <1>2, <2>3 DEF WM_CLOSE, WindowNext, WindowProc
  <2>4. CASE WM_TaskbarCreated(t) \/ WM_CONTEXTMENU(t)
    BY <2>4 DEF WM_TaskbarCreated, WM_CONTEXTMENU
  <2> QED BY <1>2, <2>1, <2>2, <2>3, <2>4 DEF MessageProc
<1>3. ASSUME NEW t \in Thread, MenuEnds(t)
      PROVE  UNCHANGED vars
  BY <1>3 DEF MenuEnds
<1>4. CASE ExplorerRestarts \/ UNCHANGED allVars
  BY <1>4 DEF ExplorerRestarts, allVars
<1> QED BY <1>1, <1>2, <1>3, <1>4 DEF MessageNext, WindowNext

-----------------------------------------------------------------------------
(* What a window thread has done at each point of WindowWorker.            *)

WorkerMatches(t) ==
  /\ at[t] = "none" <=> worker[t] = "none"
  /\ at[t] \in {"begin", "registered", "created", "failed", "unregister"} => worker[t] = "running"
  /\ at[t] = "pump" => worker[t] \in {"running", "inStop"}
  /\ at[t] = "ended" => worker[t] \in {"running", "exited"}
  /\ at[t] \in {"none", "begin", "registered", "created", "failed"} => context[t] = "E_PENDING"
  /\ context[t] = "S_OK" => t \in contextHwnd
  /\ context[t] = "START_FAILED" => at[t] = "ended"
  /\ t \in contextHwnd => at[t] \in {"pump", "unregister", "ended"}
  /\ at[t] \notin {"unregister", "ended"} => loopHr[t] = "S_OK"
  /\ at[t] = "unregister" => loopHr[t] # "EXIT_FAILURE"
  /\ at[t] \in {"created", "pump"} => t \in windows
  /\ t \in windows => /\ worker[t] \in {"running", "inStop"}
                      /\ at[t] \in {"created", "pump", "unregister", "ended"}

\* The class is registered by a thread that will unregister it.
ClassOwned ==
  registered /\ (\A t \in Thread : loopHr[t] # "E_FAIL") =>
    \E t \in Thread : at[t] \in {"registered", "created", "pump", "unregister"}

WorkerInv == /\ WindowTypeOK
             /\ Targets
             /\ \A t \in Thread : WorkerMatches(t)
             /\ hwnd # NoThread => hwnd \in contextHwnd
             /\ ClassOwned
             /\ ContextAlive

\* Callers leave the worker alone, and go on from "started" only once the
\* worker has reported.
LEMMA CallerStepWorkerInv ==
  ASSUME WorkerInv, TypeOK', Targets', hwnd' \in contextHwnd \cup {NoThread},
         closing' \in SUBSET Thread,
         UNCHANGED <<at, context, contextHwnd, windows, registered, loopHr, worker>>,
         \A d \in Callers : At(d, "started") /\ context[call[d].hthread] = "E_PENDING"
                              => call'[d] = call[d]
  PROVE  WorkerInv'
<1>1. /\ WindowTypeOK'
      /\ \A t \in Thread : WorkerMatches(t)'
      /\ (hwnd # NoThread => hwnd \in contextHwnd)'
      /\ ClassOwned'
  BY DEF WorkerInv, WindowTypeOK, WorkerMatches, ClassOwned
<1>2. ContextAlive'
  <2> SUFFICES ASSUME NEW t \in Thread, at[t] \in {"begin", "registered", "created", "failed"}
               PROVE  \E c \in Callers : call'[c].pc = "started" /\ call'[c].hthread = t
    BY DEF ContextAlive, At
  <2>1. PICK c \in Callers : At(c, "started") /\ call[c].hthread = t
    BY DEF WorkerInv, ContextAlive
  <2>2. call'[c] = call[c]
    BY <2>1 DEF WorkerInv, WorkerMatches
  <2> QED BY <2>1, <2>2 DEF At
<1> QED BY <1>1, <1>2 DEF WorkerInv

\* A start() that begins a worker keeps its ThreadContext for it.
LEMMA WindowStartInv ==
  ASSUME WorkerInv, TypeOK', Targets', NEW c \in Callers, WindowStart(c)
  PROVE  WorkerInv'
<1>1. CASE (StartRejected(c) \/ BeginFails(c)) /\ UNCHANGED windowVars
  BY <1>1, CallerStepWorkerInv
  DEF StartRejected, BeginFails, AcquireFree, At, windowVars, WorkerInv, WindowTypeOK, TypeOK
<1>2. ASSUME NEW t \in Thread, BeginThread(c, t), Goto(t, "begin"),
             UNCHANGED <<context, contextHwnd, hwnd, windows, closing, registered, loopHr>>
      PROVE  WorkerInv'
  <2>1. /\ at[t] = "none" /\ at' = [at EXCEPT ![t] = "begin"]
        /\ worker' = [worker EXCEPT ![t] = "running"]
        /\ call'[c].pc = "started" /\ call'[c].hthread = t
        /\ \A d \in Callers : At(d, "started") => call'[d] = call[d]
    BY <1>2 DEF BeginThread, AcquireFree, Goto, At, WorkerInv, WindowTypeOK, TypeOK, Call,
                WorkerMatches
  <2>2. WindowTypeOK'
    BY <1>2, <2>1 DEF WorkerInv, WindowTypeOK, WorkerPoints
  <2>3. \A u \in Thread : WorkerMatches(u)'
    BY <1>2, <2>1 DEF WorkerInv, WindowTypeOK, TypeOK, WorkerMatches
  <2>4. ContextAlive'
    BY <2>1 DEF WorkerInv, WindowTypeOK, ContextAlive, At
  <2>5. ClassOwned'
    BY <1>2, <2>1 DEF WorkerInv, WindowTypeOK, ClassOwned
  <2> QED BY <1>2, <2>2, <2>3, <2>4, <2>5 DEF WorkerInv
<1> QED BY <1>1, <1>2 DEF WindowStart

\* Every other step of a caller leaves the worker alone, and a start() goes on
\* only after the worker stored its window and its result.
LEMMA WindowCallerInv ==
  ASSUME WorkerInv, TypeOK', Targets', NEW c \in Callers,
         WindowStartContinues(c) \/ WindowStop(c) \/ WindowStopContinues(c)
  PROVE  WorkerInv'
<1> USE DEF At, WorkerInv, WindowTypeOK, TypeOK
<1>1. CASE WindowStartContinues(c)
  BY <1>1, CallerStepWorkerInv
  DEF WindowStartContinues, ContextHwnd, StartSucceeds, FactoryAllocationFails, StartFails,
      StartFailureExited, StartFailureNotExited, GiveUp, Reap, CloseFails, Return, windowVars
<1>2. CASE WindowStop(c)
  BY <1>2, CallerStepWorkerInv
  DEF WindowStop, StopRejected, StopEnters, RetryAllocationFails, AcquireFree, windowVars
<1>3. CASE PostMessage(c)
  <2>1. /\ UNCHANGED <<at, context, contextHwnd, hwnd, windows, registered, loopHr, worker>>
        /\ \A d \in Callers \ {c} : call'[d] = call[d]
        /\ call[c].pc = "post"
    BY <1>3 DEF PostMessage, PostStopMessage
  <2>2. closing' \in SUBSET Thread
    BY <1>3 DEF PostMessage
  <2> QED BY <2>1, <2>2, CallerStepWorkerInv
<1>4. CASE (WaitSignaled(c) \/ WaitNotSignaled(c)) /\ UNCHANGED windowVars
  BY <1>4, CallerStepWorkerInv DEF WaitSignaled, WaitNotSignaled, GiveUp, Return, windowVars
<1>5. CASE WindowReap(c)
  BY <1>5, CallerStepWorkerInv DEF WindowReap, Reap, CloseFails, Return
<1> QED BY <1>1, <1>2, <1>3, <1>4, <1>5 DEF WindowStopContinues

\* The worker's own steps, those of windowProc() and those of a handler.
LEMMA WindowThreadInv ==
  ASSUME WorkerInv, TypeOK', Targets', NEW t \in Thread,
         WindowWorker(t) \/ WindowProc(t) \/ HandlerStop(t)
  PROVE  WorkerInv'
<1>1. UNCHANGED call
  BY DEF WindowWorker, WindowProc, HandlerStop, RegisterClass, CreateWindow, NotifyFailure,
         NotifyWindow, CloseWindow, GetMessageFails, UnregisterClass, EndThread,
         WorkerExits, WorkerCallsStop, WorkerStopRejected, baseVars
<1>2. ASSUME \A u \in Thread : at'[u] \in {"begin", "registered", "created", "failed"}
                                => at[u] \in {"begin", "registered", "created", "failed"}
      PROVE  ContextAlive'
  BY <1>1, <1>2 DEF WorkerInv, ContextAlive, At
<1>a. ASSUME WindowTypeOK', \A u \in Thread : WorkerMatches(u)', ClassOwned',
             UNCHANGED hwnd, contextHwnd \subseteq contextHwnd',
             \A u \in Thread : at'[u] \in {"begin", "registered", "created", "failed"}
                                => at[u] \in {"begin", "registered", "created", "failed"}
      PROVE  WorkerInv'
  BY <1>2, <1>a DEF WorkerInv
<1> USE DEF WindowTypeOK, TypeOK, Goto
<1>3. CASE RegisterClass(t)
  <2> USE <1>3 DEF RegisterClass, WorkerInv, baseVars
  <2>1. WindowTypeOK'
    BY DEF WorkerPoints
  <2>2. \A u \in Thread : WorkerMatches(u)'
    BY DEF WorkerMatches
  <2>3. ClassOwned'
    BY DEF ClassOwned
  <2> QED BY <1>a, <2>1, <2>2, <2>3
<1>4. ASSUME NEW created \in BOOLEAN, CreateWindow(t, created)
      PROVE  WorkerInv'
  <2> USE <1>4 DEF CreateWindow, WorkerInv, baseVars
  <2>1. WindowTypeOK'
    <3>1. at' \in [Thread -> WorkerPoints]
      BY DEF WorkerPoints
    <3>2. windows' \in SUBSET Thread /\ registered' \in BOOLEAN
      OBVIOUS
    <3> QED BY <3>1, <3>2
  <2>2. \A u \in Thread : WorkerMatches(u)'
    BY DEF WorkerMatches
  <2>3. ClassOwned'
    BY DEF ClassOwned
  <2> QED BY <1>a, <2>1, <2>2, <2>3
<1>5. CASE NotifyFailure(t)
  <2> USE <1>5 DEF NotifyFailure, WorkerInv, baseVars, StartError
  <2>1. WindowTypeOK'
    BY DEF WorkerPoints, ExitCodes
  <2>2. \A u \in Thread : WorkerMatches(u)'
    BY DEF WorkerMatches
  <2>3. ClassOwned'
    BY DEF ClassOwned, WorkerMatches
  <2> QED BY <1>a, <2>1, <2>2, <2>3
<1>6. CASE NotifyWindow(t)
  <2> USE <1>6 DEF NotifyWindow, WorkerInv, baseVars
  <2>1. WindowTypeOK'
    BY DEF WorkerPoints
  <2>2. \A u \in Thread : WorkerMatches(u)'
    BY DEF WorkerMatches
  <2>3. ClassOwned'
    BY DEF ClassOwned
  <2> QED BY <1>a, <2>1, <2>2, <2>3
<1>7. ASSUME NEW hr \in {"S_OK", "E_FAIL"}, CloseWindow(t, hr)
      PROVE  WorkerInv'
  <2> USE <1>7 DEF CloseWindow, WorkerInv, baseVars
  <2>1. WindowTypeOK'
    BY DEF WorkerPoints, ExitCodes
  <2>2. \A u \in Thread : WorkerMatches(u)'
    BY DEF WorkerMatches
  <2>3. ClassOwned'
    BY DEF ClassOwned
  <2> QED BY <1>a, <2>1, <2>2, <2>3
<1>8. CASE GetMessageFails(t)
  <2> USE <1>8 DEF GetMessageFails, WorkerInv, baseVars
  <2>1. WindowTypeOK'
    BY DEF WorkerPoints, ExitCodes
  <2>2. \A u \in Thread : WorkerMatches(u)'
    BY DEF WorkerMatches
  <2>3. ClassOwned'
    BY DEF ClassOwned
  <2> QED BY <1>a, <2>1, <2>2, <2>3
<1>9. CASE UnregisterClass(t)
  <2> USE <1>9 DEF UnregisterClass, WorkerInv, baseVars, FirstFailure
  <2>1. WindowTypeOK'
    BY DEF WorkerPoints, ExitCodes
  <2>2. \A u \in Thread : WorkerMatches(u)'
    BY DEF WorkerMatches
  <2>3. ClassOwned'
    <3>1. CASE t \in windows
      <4>1. loopHr[t] \in {"S_OK", "E_FAIL"}
        BY DEF WorkerMatches, ExitCodes
      <4>2. loopHr'[t] = "E_FAIL"
        BY <3>1, <4>1
      <4> QED BY <4>2 DEF ClassOwned
    <3>2. CASE t \notin windows
      BY <3>2 DEF ClassOwned
    <3> QED BY <3>1, <3>2
  <2> QED BY <1>a, <2>1, <2>2, <2>3
<1>10. CASE EndThread(t)
  <2> USE <1>10 DEF EndThread, WorkerExits, WorkerInv
  <2>1. WindowTypeOK'
    OBVIOUS
  <2>2. \A u \in Thread : WorkerMatches(u)'
    BY DEF WorkerMatches
  <2>3. ClassOwned'
    BY DEF ClassOwned
  <2> QED BY <1>a, <2>1, <2>2, <2>3
<1>11. CASE HandlerStop(t)
  <2> USE <1>11 DEF HandlerStop, WorkerCallsStop, WorkerStopRejected, WorkerInv, windowVars
  <2>1. WindowTypeOK'
    OBVIOUS
  <2>2. \A u \in Thread : WorkerMatches(u)'
    BY DEF WorkerMatches, WorkerPoints
  <2>3. ClassOwned'
    BY DEF ClassOwned
  <2> QED BY <1>a, <2>1, <2>2, <2>3
<1> QED BY <1>3, <1>4, <1>5, <1>6, <1>7, <1>8, <1>9, <1>10, <1>11 DEF WindowWorker, WindowProc

LEMMA WorkerInvStep == WorkerInv /\ [WindowNext]_vars => WorkerInv'
<1> SUFFICES ASSUME WorkerInv, [WindowNext]_vars
             PROVE  WorkerInv'
  OBVIOUS
<1>1. TypeOK' /\ Targets'
  BY WindowStepIsBaseStep, TypeStep, TargetsStep DEF WorkerInv, WindowTypeOK
<1>2. CASE UNCHANGED <<call, worker, windowVars>>
  BY <1>1, <1>2, CallerStepWorkerInv DEF windowVars, WorkerInv, WindowTypeOK
<1> QED BY <1>1, <1>2, WindowStartInv, WindowCallerInv, WindowThreadInv
        DEF WindowNext, WindowCaller, Destroy, Terminated, vars, baseVars

LEMMA WorkerInvCorrect == WindowSpec => []WorkerInv
<1>1. WindowInit => WorkerInv
  <2> SUFFICES ASSUME WindowInit
               PROVE  WorkerInv
    OBVIOUS
  <2>1. TypeOK
    BY ControllerAssumption DEF WindowInit, Init, TypeOK, Returned, Call, Points, Results, ExitCodes
  <2> QED BY <2>1 DEF WindowInit, Init, WorkerInv, WindowTypeOK, Targets, WorkerMatches, ClassOwned,
                      ContextAlive, Returned, WorkerPoints, ExitCodes
<1> QED BY <1>1, WorkerInvStep, PTL DEF WindowSpec

\* A window controller is a controller of the base class.
LEMMA WindowImplementsBase == WindowSpec => ImplementsBase
<1>1. WindowInit => Init
  BY DEF WindowInit
<1>2. WorkerInv /\ [WindowNext]_vars => [Next]_baseVars
  BY WindowStepIsBaseStep DEF WorkerInv
<1> QED BY <1>1, <1>2, WorkerInvCorrect, PTL DEF WindowSpec, ImplementsBase, Spec

\* The hidden window is a WindowController, and through it a controller of the
\* base class, whatever the shell, its icon and its menus do.
THEOREM ImplementsWindowControllerCorrect == MessageSpec => ImplementsWindowController
<1>1. MessageInit => WindowInit
  BY DEF MessageInit
<1>2. MessageSpec => WindowSpec
  BY <1>1, MessageStepIsWindowStep, PTL DEF MessageSpec, WindowSpec
<1> QED BY <1>2, WindowImplementsBase, PTL DEF ImplementsWindowController

-----------------------------------------------------------------------------
(* hwnd_ is the window of the thread in data_.                             *)

\* While a controller runs, hwnd_ is that of its thread, apart from the time
\* start() is between its two halves; it may be stale or empty while it stops,
\* but only for a worker whose start failed.
HwndInv ==
  /\ state = "kRunning" => hwnd = data \/ ~NoUnfinishedStart
  /\ state = "kStopping" => hwnd = data \/ context[data] = "START_FAILED"

\* What a worker reported stays reported.
LEMMA FailureStays ==
  ASSUME WorkerInv, NEW t \in Thread, WindowWorker(t) \/ WindowProc(t) \/ HandlerStop(t)
  PROVE  \A u \in Thread : context[u] = "START_FAILED" => context'[u] = "START_FAILED"
<1> USE DEF WorkerInv, WindowTypeOK, WorkerMatches
<1>1. CASE NotifyFailure(t)
  BY <1>1 DEF NotifyFailure
<1>2. CASE NotifyWindow(t)
  BY <1>2 DEF NotifyWindow
<1>3. CASE ~NotifyFailure(t) /\ ~NotifyWindow(t)
  BY <1>3 DEF WindowWorker, WindowProc, HandlerStop, RegisterClass, CreateWindow, CloseWindow,
              GetMessageFails, UnregisterClass, EndThread, windowVars
<1> QED BY <1>1, <1>2, <1>3

\* A step that keeps the thread, its window and an unfinished start().
LEMMA HwndKept ==
  ASSUME HwndInv, TypeOK, UNCHANGED <<state, data, hwnd>>,
         \A u \in Thread : context[u] = "START_FAILED" => context'[u] = "START_FAILED",
         state = "kRunning" /\ ~NoUnfinishedStart => ~NoUnfinishedStart',
         state # "kReady" => data \in Thread
  PROVE  HwndInv'
BY DEF HwndInv, TypeOK

LEMMA HwndInvStep == WorkerInv /\ ControllerInv /\ HwndInv /\ [WindowNext]_vars => HwndInv'
<1> SUFFICES ASSUME WorkerInv, ControllerInv, HwndInv, [WindowNext]_vars
             PROVE  HwndInv'
  OBVIOUS
<1> USE DEF At, WorkerInv, WindowTypeOK
<1>a. state # "kReady" => data \in Thread
  BY DEF ControllerInv, HandleMatchesState, TypeOK
<1>b. ASSUME NEW c \in Callers, ~At(c, "started"), \A d \in Callers \ {c} : call'[d] = call[d],
             UNCHANGED <<state, data, hwnd, context>>
      PROVE  HwndInv'
  BY <1>a, <1>b, HwndKept DEF NoUnfinishedStart
<1>s. ASSUME UNCHANGED <<state, data, hwnd, context>>, state = "kStopping"
      PROVE  HwndInv'
  BY <1>a, <1>s, HwndKept
<1>c. ASSUME UNCHANGED <<state, data, hwnd, context, call>>
      PROVE  HwndInv'
  BY <1>a, <1>c, HwndKept DEF NoUnfinishedStart
<1>1. ASSUME NEW c \in Callers, WindowStart(c)
      PROVE  HwndInv'
  <2>1. CASE (StartRejected(c) \/ BeginFails(c)) /\ UNCHANGED windowVars
    BY <2>1, <1>b DEF StartRejected, BeginFails, AcquireFree, TypeOK, windowVars
  <2>2. ASSUME NEW t \in Thread, BeginThread(c, t)
        PROVE  HwndInv'
    <3>1. state' = "kRunning" /\ call'[c].pc = "started"
      BY <2>2 DEF BeginThread, TypeOK, Call
    <3> QED BY <3>1 DEF HwndInv, NoUnfinishedStart
  <2> QED BY <1>1, <2>1, <2>2 DEF WindowStart
<1>2. ASSUME NEW c \in Callers, WindowStartContinues(c)
      PROVE  HwndInv'
  <2> DEFINE t == call[c].hthread
  <2>1. CASE At(c, "started") /\ context[t] = "S_OK" /\ StartSucceeds(c) /\ hwnd' = ContextHwnd(t)
    <3>1. t = data /\ state = "kRunning" /\ data \in Thread
      BY <1>a, <2>1 DEF ControllerInv, CallsOwnTheirThread
    <3>2. data \in contextHwnd
      BY <2>1, <3>1 DEF WorkerMatches
    <3> QED BY <2>1, <3>1, <3>2 DEF HwndInv, StartSucceeds, ContextHwnd
  <2>2. CASE FactoryAllocationFails(c) /\ UNCHANGED windowVars
    BY <1>c, <2>2 DEF FactoryAllocationFails, windowVars
  <2>3. CASE At(c, "started") /\ context[t] \notin {"E_PENDING", "S_OK"} /\ StartFails(c)
               /\ UNCHANGED windowVars
    <3>1. t = data /\ data \in Thread
      BY <1>a, <2>3 DEF ControllerInv, CallsOwnTheirThread
    <3>2. context[data] = "START_FAILED"
      BY <2>3, <3>1
    <3> QED BY <2>3, <3>2 DEF HwndInv, StartFails, windowVars
  <2>4. CASE (StartFailureExited(c) \/ StartFailureNotExited(c)) /\ UNCHANGED windowVars
    <3>1. state = "kStopping"
      BY <2>4 DEF StartFailureExited, StartFailureNotExited, ControllerInv, CallsOwnTheirThread, Locked
    <3> QED BY <1>s, <2>4, <3>1 DEF StartFailureExited, StartFailureNotExited, GiveUp, windowVars
  <2>5. CASE Reap(c)
    BY <2>5 DEF Reap, ReleaseThread, HwndInv
  <2>6. CASE CloseFails(c) /\ UNCHANGED windowVars
    <3>1. state = "kStopping"
      BY <2>6 DEF CloseFails, ControllerInv, CallsOwnTheirThread, Locked
    <3> QED BY <1>s, <2>6, <3>1 DEF CloseFails, windowVars
  <2> QED BY <1>2, <2>1, <2>2, <2>3, <2>4, <2>5, <2>6 DEF WindowStartContinues
<1>3. ASSUME NEW c \in Callers, WindowStop(c)
      PROVE  HwndInv'
  <2>1. CASE StopRejected(c) /\ UNCHANGED windowVars
    BY <2>1, <1>b DEF StopRejected, AcquireFree, TypeOK, windowVars
  <2>2. CASE StopEnters(c) /\ UNCHANGED windowVars
    BY <2>2 DEF StopEnters, StopAllowed, HwndInv, windowVars
  <2>3. CASE RetryAllocationFails(c) /\ UNCHANGED windowVars
    BY <1>c, <2>3 DEF RetryAllocationFails, windowVars
  <2> QED BY <1>3, <2>1, <2>2, <2>3 DEF WindowStop
<1>4. ASSUME NEW c \in Callers, WindowStopContinues(c)
      PROVE  HwndInv'
  <2>1. state = "kStopping"
    BY <1>4 DEF WindowStopContinues, PostMessage, WaitSignaled, WaitNotSignaled, WindowReap,
                ControllerInv, CallsOwnTheirThread, Locked
  <2>2. CASE PostMessage(c)
    BY <1>s, <2>1, <2>2 DEF PostMessage, PostStopMessage
  <2>3. CASE (WaitSignaled(c) \/ WaitNotSignaled(c)) /\ UNCHANGED windowVars
    BY <1>s, <2>1, <2>3 DEF WaitSignaled, WaitNotSignaled, GiveUp, windowVars
  <2>4. CASE WindowReap(c) /\ Reap(c)
    BY <2>4 DEF Reap, ReleaseThread, HwndInv
  <2>5. CASE WindowReap(c) /\ CloseFails(c)
    <3>1. call'[c].hr = "CLOSE_FAILED"
      BY <2>5 DEF CloseFails, WindowReap, Return, ReapResult, Returned, TypeOK
    <3>2. hwnd' = hwnd
      BY <2>5, <3>1 DEF WindowReap, Failed
    <3> QED BY <1>s, <2>1, <2>5, <3>2 DEF CloseFails, WindowReap
  <2> QED BY <1>4, <2>2, <2>3, <2>4, <2>5 DEF WindowStopContinues, WindowReap
<1>5. ASSUME NEW t \in Thread, WindowWorker(t) \/ WindowProc(t) \/ HandlerStop(t)
      PROVE  HwndInv'
  <2>1. UNCHANGED <<state, data, hwnd, call>>
    BY <1>5 DEF WindowWorker, WindowProc, HandlerStop, RegisterClass, CreateWindow, NotifyFailure,
                NotifyWindow, CloseWindow, GetMessageFails, UnregisterClass, EndThread,
                WorkerExits, WorkerCallsStop, WorkerStopRejected, baseVars, windowVars
  <2> QED BY <1>5, <1>a, <2>1, FailureStays, HwndKept DEF NoUnfinishedStart
<1>6. CASE (Destroy \/ Terminated) /\ UNCHANGED windowVars
  BY <1>6, <1>c DEF Destroy, Terminated, baseVars, windowVars
<1>7. CASE UNCHANGED vars
  BY <1>7, <1>c DEF vars, baseVars, windowVars
<1> QED BY <1>1, <1>2, <1>3, <1>4, <1>5, <1>6, <1>7 DEF WindowNext, WindowCaller

LEMMA HwndInvCorrect == WindowSpec => []HwndInv
<1>1. WindowInit => HwndInv
  BY DEF WindowInit, Init, HwndInv
<1> QED BY <1>1, HwndInvStep, WorkerInvCorrect, WindowImplementsBase, ControllerInvCorrect, PTL
        DEF WindowSpec, ImplementsBase

-----------------------------------------------------------------------------
(* No stop() gives up early.                                               *)

Ending(t) == at[t] \in {"unregister", "ended"}

\* WM_CLOSE is refused for good only by a window that is gone.
AbandonInv ==
  /\ \A c \in Callers : At(c, "lastWait") => Ending(call[c].hthread)
  /\ AbandonsOnlyAfterLimit

\* A step that neither ends the process so nor brings a caller to its last wait.
LEMMA AbandonKept ==
  ASSUME WorkerInv, AbandonInv, TypeOK', process = "alive", process' # "retryExpired",
         \A t \in Thread : Ending(t) => Ending(t)',
         \A c \in Callers : At(c, "lastWait")' => At(c, "lastWait") /\ UNCHANGED call[c]
  PROVE  AbandonInv'
<1>1. \A c \in Callers : At(c, "lastWait") => call[c].hthread \in Thread
  BY DEF WorkerInv, Targets, At
<1>2. \A t \in Thread : Ending(t) => at'[t] \in {"unregister", "ended"}
  BY DEF Ending
<1>3. \A c \in Callers : call'[c].pc = "lastWait" => at'[call'[c].hthread] \in {"unregister", "ended"}
  BY <1>1, <1>2 DEF AbandonInv, At
<1>4. AbandonsOnlyAfterLimit'
  BY DEF AbandonsOnlyAfterLimit
<1> QED BY <1>3, <1>4 DEF AbandonInv, Ending, At

\* A window WM_CLOSE cannot be posted to was closed, or never made.
LEMMA NoWindowOnlyWhenEnding ==
  ASSUME WorkerInv, ControllerInv, HwndInv, NEW c \in Callers, At(c, "post"), hwnd \notin windows
  PROVE  Ending(call[c].hthread)
<1>1. call[c].hthread = data /\ data \in Thread /\ state = "kStopping"
  BY DEF At, Locked, ControllerInv, CallsOwnTheirThread, WorkerInv, Targets
<1>2. CASE hwnd = data
  <2>1. data \in contextHwnd
    BY <1>1, <1>2, NoThreadIsNoThread DEF WorkerInv
  <2> QED BY <1>1, <1>2, <2>1 DEF WorkerInv, WorkerMatches, Ending
<1>3. CASE context[data] = "START_FAILED"
  BY <1>1, <1>3 DEF WorkerInv, WorkerMatches, Ending
<1> QED BY <1>1, <1>2, <1>3 DEF HwndInv

LEMMA PostKeepsAbandonInv ==
  ASSUME WorkerInv, ControllerInv, HwndInv, AbandonInv, TypeOK', process = "alive",
         NEW c \in Callers, PostMessage(c)
  PROVE  AbandonInv'
<1> DEFINE t == call[c].hthread
<1>1. PICK rc \in {"TRUE", "QUOTA", "FALSE"} :
        PostStopMessage(c, rc) /\ (rc = "FALSE" => hwnd \notin windows)
  BY DEF PostMessage
<1>2. /\ UNCHANGED <<at, mutex, process>>
      /\ At(c, "post")
      /\ \A d \in Callers \ {c} : call'[d] = call[d]
  BY <1>1 DEF PostMessage, PostStopMessage, WorkerInv, WindowTypeOK, TypeOK
<1>3. /\ call'[c].hthread = t
      /\ call'[c].pc = "lastWait" => rc = "FALSE"
  BY <1>1 DEF PostStopMessage, Retryable, WorkerInv, WindowTypeOK, TypeOK, Call
<1>4. call'[c].pc = "lastWait" => Ending(t)
  BY <1>1, <1>2, <1>3, NoWindowOnlyWhenEnding
<1> QED BY <1>2, <1>3, <1>4 DEF AbandonInv, AbandonsOnlyAfterLimit, Ending, At

LEMMA WaitKeepsAbandonInv ==
  ASSUME WorkerInv, ControllerInv, AbandonInv, TypeOK', process = "alive",
         NEW c \in Callers, WaitNotSignaled(c), UNCHANGED windowVars
  PROVE  AbandonInv'
<1>1. UNCHANGED at /\ mutex = c
  BY DEF windowVars, WaitNotSignaled, At, Locked, ControllerInv, CallsOwnTheirThread
<1>a. \A t \in Thread : Ending(t) => Ending(t)'
  BY <1>1 DEF Ending
<1>2. CASE UNCHANGED process
  <2>1. TypeOK
    BY DEF WorkerInv, WindowTypeOK
  <2>2. CASE \E hr : Return(c, hr)
    <3>1. PICK hr : call' = [call EXCEPT ![c] = Returned(hr)]
      BY <2>2 DEF Return
    <3>2. Returned(hr).pc = "idle"
      BY DEF Returned
    <3> QED BY <1>a, <1>2, <2>1, <3>1, <3>2, CallMoves, AbandonKept
  <2>3. CASE ~\E hr : Return(c, hr)
    <3>1. \E next \in {AdvanceAttempt(call[c]), ForceExpire(call[c])} : \E hr :
            call' = [call EXCEPT ![c] = [next EXCEPT !.pc = "post", !.hr = hr]]
      BY <1>2, <2>3 DEF WaitNotSignaled, GiveUp
    <3>2. PICK next \in {AdvanceAttempt(call[c]), ForceExpire(call[c])} :
            \E hr : call' = [call EXCEPT ![c] = [next EXCEPT !.pc = "post", !.hr = hr]]
      BY <3>1
    <3>3. PICK hr : call' = [call EXCEPT ![c] = [next EXCEPT !.pc = "post", !.hr = hr]]
      BY <3>2
    <3>4. [next EXCEPT !.pc = "post", !.hr = hr].pc = "post"
      BY <2>1, PointOf
    <3> QED BY <1>a, <1>2, <2>1, <3>3, <3>4, CallMoves, AbandonKept
  <2> QED BY <2>2, <2>3
<1>3. CASE process' # process
  <2>1. UNCHANGED <<call, mutex>>
    BY <1>3 DEF WaitNotSignaled, GiveUp
  <2>2. ~Available(AdvanceAttempt(call[c])) \/ At(c, "lastWait")
    BY <1>3 DEF WaitNotSignaled, GiveUp, At
  <2> QED BY <1>1, <2>1, <2>2 DEF AbandonInv, AbandonsOnlyAfterLimit, Ending, At
<1> QED BY <1>2, <1>3

LEMMA AbandonInvStep ==
  WorkerInv /\ WorkerInv' /\ ControllerInv /\ HwndInv /\ AbandonInv /\ [WindowNext]_vars => AbandonInv'
<1> SUFFICES ASSUME WorkerInv, WorkerInv', ControllerInv, HwndInv, AbandonInv, [WindowNext]_vars
             PROVE  AbandonInv'
  OBVIOUS
<1>0. TypeOK'
  BY DEF WorkerInv, WindowTypeOK
<1> USE <1>0 DEF windowVars
<1>a. TypeOK
  BY DEF WorkerInv, WindowTypeOK
<1>e. UNCHANGED at => \A t \in Thread : Ending(t) => Ending(t)'
  BY DEF Ending
<1>b. ASSUME NEW c \in Callers, NEW r, process = "alive", r.pc # "lastWait",
             call' = [call EXCEPT ![c] = r], UNCHANGED at, process' # "retryExpired"
      PROVE  AbandonInv'
  BY <1>a, <1>b, <1>e, CallMoves, AbandonKept
<1>c. ASSUME process = "alive", UNCHANGED <<call, at>>, process' # "retryExpired"
      PROVE  AbandonInv'
  BY <1>c, <1>e, AbandonKept DEF At
<1>r. ASSUME NEW c \in Callers, NEW hr, process = "alive",
             call' = [call EXCEPT ![c] = Returned(hr)], UNCHANGED at, process' # "retryExpired"
      PROVE  AbandonInv'
  BY <1>b, <1>r DEF Returned
<1>1. ASSUME NEW c \in Callers, process = "alive", WindowStart(c)
      PROVE  AbandonInv'
  <2>1. CASE (StartRejected(c) \/ BeginFails(c)) /\ UNCHANGED windowVars
    BY <1>1, <1>r, <2>1 DEF StartRejected, BeginFails
  <2>2. ASSUME NEW t \in Thread, BeginThread(c, t), Goto(t, "begin")
        PROVE  AbandonInv'
    <3>1. [call[c] EXCEPT !.pc = "started", !.hthread = t].pc # "lastWait"
      BY <1>a, PointOf
    <3>2. at[t] = "none" /\ at' = [at EXCEPT ![t] = "begin"] /\ UNCHANGED process
      BY <2>2 DEF BeginThread, Goto, WorkerInv, WorkerMatches
    <3>3. \A u \in Thread : Ending(u) => Ending(u)'
      BY <3>2 DEF WorkerInv, WindowTypeOK, Ending
    <3> QED BY <1>1, <1>a, <2>2, <3>1, <3>2, <3>3, CallMoves, AbandonKept DEF BeginThread
  <2> QED BY <1>1, <2>1, <2>2 DEF WindowStart
<1>2. ASSUME NEW c \in Callers, process = "alive", WindowStartContinues(c)
      PROVE  AbandonInv'
  <2>1. CASE StartSucceeds(c)
    BY <1>2, <1>r, <2>1 DEF WindowStartContinues, StartSucceeds
  <2>2. CASE StartFails(c) \/ StartFailureExited(c)
    <3>1. /\ [call[c] EXCEPT !.pc = "startWait", !.hr = "START_FAILED"].pc # "lastWait"
          /\ [call[c] EXCEPT !.pc = "startReap"].pc # "lastWait"
      BY <1>a, PointOf
    <3> QED BY <1>2, <1>b, <2>2, <3>1 DEF WindowStartContinues, StartFails, StartFailureExited
  <2>3. CASE StartFailureNotExited(c)
    BY <1>2, <1>c, <1>r, <2>3 DEF WindowStartContinues, StartFailureNotExited, GiveUp, Return
  <2>4. CASE FactoryAllocationFails(c)
    BY <1>2, <1>c, <2>4 DEF WindowStartContinues, FactoryAllocationFails
  <2>5. CASE (Reap(c) \/ CloseFails(c)) /\ UNCHANGED windowVars
    BY <1>2, <1>r, <2>5 DEF Reap, CloseFails, Return
  <2> QED BY <1>2, <2>1, <2>2, <2>3, <2>4, <2>5 DEF WindowStartContinues
<1>3. ASSUME NEW c \in Callers, process = "alive", WindowStop(c)
      PROVE  AbandonInv'
  <2>1. CASE StopRejected(c)
    BY <1>3, <1>r, <2>1 DEF WindowStop, StopRejected
  <2>2. CASE StopEnters(c)
    BY <1>3, <1>b, <2>2 DEF WindowStop, StopEnters
  <2>3. CASE RetryAllocationFails(c)
    BY <1>3, <1>c, <2>3 DEF WindowStop, RetryAllocationFails
  <2> QED BY <1>3, <2>1, <2>2, <2>3 DEF WindowStop
<1>4. ASSUME NEW c \in Callers, process = "alive", WindowStopContinues(c)
      PROVE  AbandonInv'
  <2>1. CASE WaitSignaled(c) /\ UNCHANGED windowVars
    <3>1. [call[c] EXCEPT !.pc = "reap", !.hr = "S_OK"].pc # "lastWait"
      BY <1>a, PointOf
    <3> QED BY <1>4, <1>b, <2>1, <3>1 DEF WaitSignaled
  <2>2. CASE WindowReap(c)
    BY <1>4, <1>r, <2>2 DEF WindowReap, Reap, CloseFails, Return
  <2> QED BY <1>4, <2>1, <2>2, PostKeepsAbandonInv, WaitKeepsAbandonInv DEF WindowStopContinues
<1>5. ASSUME NEW t \in Thread, process = "alive", WindowWorker(t) \/ WindowProc(t) \/ HandlerStop(t)
      PROVE  AbandonInv'
  <2>1. UNCHANGED <<process, call>>
    BY <1>5 DEF WindowWorker, WindowProc, HandlerStop, RegisterClass, CreateWindow, NotifyFailure,
                NotifyWindow, CloseWindow, GetMessageFails, UnregisterClass, EndThread,
                WorkerExits, WorkerCallsStop, WorkerStopRejected, baseVars
  <2>2. \A u \in Thread : Ending(u) => Ending(u)'
    BY <1>5 DEF WindowWorker, WindowProc, HandlerStop, RegisterClass, CreateWindow, NotifyFailure,
                NotifyWindow, CloseWindow, GetMessageFails, UnregisterClass, EndThread,
                Goto, WorkerInv, WindowTypeOK, Ending
  <2> QED BY <1>5, <2>1, <2>2, AbandonKept DEF At
<1>6. CASE process = "alive" /\ Destroy /\ UNCHANGED windowVars
  BY <1>6, <1>c DEF Destroy
<1>7. CASE UNCHANGED vars
  <2>1. UNCHANGED <<call, at, mutex, process>>
    BY <1>7 DEF vars, baseVars
  <2> QED BY <2>1 DEF AbandonInv, AbandonsOnlyAfterLimit, Ending, At
<1> QED BY <1>1, <1>2, <1>3, <1>4, <1>5, <1>6, <1>7 DEF WindowNext, WindowCaller, Terminated, vars

LEMMA AbandonInvCorrect == WindowSpec => []AbandonInv
<1>1. WindowInit => AbandonInv
  BY DEF WindowInit, Init, AbandonInv, AbandonsOnlyAfterLimit, At, Returned
<1> QED BY <1>1, AbandonInvStep, WorkerInvCorrect, HwndInvCorrect, WindowImplementsBase,
           ControllerInvCorrect, PTL
        DEF WindowSpec, ImplementsBase

-----------------------------------------------------------------------------
(* The tray icon follows the window.                                       *)

Early(t) == at[t] \in {"none", "begin", "registered"}
Shown(t) == at[t] \in {"created", "pump"}

\* An icon is attached by WM_CREATE, so for no thread before it; from then on
\* it is shown, awaits TaskbarCreated, or was refused.
TrayInv ==
  /\ trayHwnd \in Thread \cup {NoThread}
  /\ trayThat \in SUBSET Thread
  /\ icons \in SUBSET Thread
  /\ taskbarCreated \in SUBSET Thread
  /\ IconIsAttached
  /\ IconOnLiveWindow
  /\ trayHwnd # NoThread => ~Early(trayHwnd)
  /\ \A t \in windows : Shown(t) /\ trayHwnd = t => t \in icons \cup taskbarCreated \cup refused

\* What attach() does to the icon of one window, however the shell answers.
LEMMA AttachIcon ==
  ASSUME TrayInv, NEW w \in Thread, NEW force \in BOOLEAN, NEW hr, Attach(w, force, hr)
  PROVE  /\ trayThat' \in SUBSET Thread /\ icons' \in SUBSET Thread
         /\ icons' \subseteq {trayHwnd'}
         /\ trayHwnd' = trayHwnd \/ (trayHwnd = NoThread /\ trayHwnd' = w)
         /\ hr = "S_OK" /\ (force \/ trayHwnd # w) => trayHwnd' = w /\ w \in icons'
<1> USE NoThreadIsNoThread DEF TrayInv, IconIsAttached, iconVars, SetAttached
<1>1. CASE UNCHANGED iconVars /\ hr # "S_OK"
  BY <1>1
<1>2. CASE UNCHANGED iconVars /\ trayHwnd = w /\ ~force
  BY <1>2
<1>3. CASE trayHwnd \in {NoThread, w} /\ icons' = icons \cup {w} /\ SetAttached(w)
  BY <1>3
<1> QED BY <1>1, <1>2, <1>3 DEF Attach, AttachCleanup

\* detach() forgets the icon only with its deletion.
LEMMA DetachIcon ==
  ASSUME TrayInv, NEW w \in Thread, NEW hr, Detach(w, hr)
  PROVE  /\ trayThat' \in SUBSET Thread /\ icons' \in SUBSET Thread
         /\ icons' \subseteq {trayHwnd'}
         /\ (trayHwnd' = trayHwnd /\ icons' = icons) \/ trayHwnd' = NoThread
BY NoThreadIsNoThread DEF TrayInv, IconIsAttached, iconVars, Detach

\* The only window there can be is that of the thread in data_.
LEMMA OneWindow ==
  ASSUME WorkerInv, ControllerInv
  PROVE  /\ windows \subseteq {data}
         /\ \A t \in Thread : at[t] \notin {"none", "pump", "ended"} => t = data
BY DEF WorkerInv, WindowTypeOK, WorkerPoints, WorkerMatches, ControllerInv, SingleWorker

\* A step that leaves the shell's icons alone and creates no window.
LEMMA TrayKept ==
  ASSUME TrayInv, WorkerInv, UNCHANGED <<trayHwnd, trayThat, icons, taskbarCreated, refused>>,
         windows' \subseteq windows,
         \A t \in Thread : Early(t)' => Early(t),
         \A t \in windows : Shown(t)' => Shown(t)
  PROVE  TrayInv'
<1>1. trayHwnd' # NoThread => ~Early(trayHwnd)'
  <2> SUFFICES ASSUME trayHwnd \in Thread
               PROVE  at'[trayHwnd] \notin {"none", "begin", "registered"}
    BY DEF TrayInv, Early
  <2>1. ~Early(trayHwnd)
    BY NoThreadIsNoThread DEF TrayInv
  <2> QED BY <2>1 DEF Early
<1>2. (\A t \in windows : Shown(t) /\ trayHwnd = t => t \in icons \cup taskbarCreated \cup refused)'
  BY DEF TrayInv
<1> QED BY <1>1, <1>2 DEF TrayInv, IconIsAttached, IconOnLiveWindow

\* Every step of the controller with which the icon's state stays as it is.
LEMMA ThreadStepKeepsTray ==
  ASSUME TrayInv, WorkerInv, UNCHANGED <<trayHwnd, trayThat, icons, taskbarCreated, refused>>,
         NEW t \in Thread,
         \/ RegisterClass(t) \/ CreateWindow(t, FALSE) \/ NotifyFailure(t) \/ NotifyWindow(t)
         \/ GetMessageFails(t) \/ UnregisterClass(t) \/ EndThread(t)
  PROVE  TrayInv'
<1>1. windows' \subseteq windows
  BY DEF RegisterClass, CreateWindow, NotifyFailure, NotifyWindow, GetMessageFails,
         UnregisterClass, EndThread
<1>2. /\ \A u \in Thread : Early(u)' => Early(u)
      /\ \A u \in windows : Shown(u)' => Shown(u)
  BY DEF RegisterClass, CreateWindow, NotifyFailure, NotifyWindow, GetMessageFails,
         UnregisterClass, EndThread, Goto, Early, Shown, WorkerInv, WindowTypeOK
<1> QED BY <1>1, <1>2, TrayKept

LEMMA WM_CREATE_KeepsTray ==
  ASSUME TrayInv, WorkerInv, ControllerInv, NEW t \in Thread, WM_CREATE(t)
  PROVE  TrayInv'
<1>1. PICK hr \in {"S_OK", "E_FAIL", "E_UNEXPECTED"} :
        at[t] = "registered" /\ Attach(t, FALSE, hr) /\ CreateWindow(t, hr = "S_OK")
  BY DEF WM_CREATE
<1>2. /\ UNCHANGED <<taskbarCreated, refused>>
      /\ \A u \in Thread : ~Early(u) => at'[u] = at[u]
      /\ at'[t] = IF hr = "S_OK" THEN "created" ELSE "failed"
  BY <1>1 DEF WM_CREATE, CreateWindow, Goto, Early, WorkerInv, WindowTypeOK
<1>3. windows = {} /\ trayHwnd # t
  <2>1. t \notin windows /\ windows \subseteq {t}
    BY <1>1, OneWindow DEF WorkerInv, WorkerMatches
  <2> QED BY <1>1, <2>1, NoThreadIsNoThread DEF TrayInv, Early
<1>4. /\ trayThat' \in SUBSET Thread /\ icons' \in SUBSET Thread
      /\ icons' \subseteq {trayHwnd'}
      /\ trayHwnd' = trayHwnd \/ trayHwnd' = t
      /\ hr = "S_OK" => trayHwnd' = t /\ t \in icons'
  BY <1>1, <1>3, AttachIcon
<1>5. windows' = IF hr = "S_OK" THEN {t} ELSE {}
  BY <1>1, <1>3 DEF CreateWindow
<1>6. trayHwnd' # NoThread => ~Early(trayHwnd)'
  <2> SUFFICES ASSUME trayHwnd' # NoThread
               PROVE  at'[trayHwnd'] \notin {"none", "begin", "registered"}
    BY DEF Early
  <2>1. CASE trayHwnd' = t
    BY <1>2, <2>1
  <2>2. CASE trayHwnd' = trayHwnd
    BY <1>2, <2>2 DEF TrayInv, Early
  <2> QED BY <1>4, <2>1, <2>2
<1> QED BY <1>2, <1>4, <1>5, <1>6 DEF TrayInv, IconIsAttached, IconOnLiveWindow

LEMMA DetachKeepsTray ==
  ASSUME TrayInv, WorkerInv, NEW t \in Thread, WM_DESTROY_AfterCreate(t) \/ WM_CLOSE(t)
  PROVE  TrayInv'
<1>1. PICK hr \in {"S_OK", "E_FAIL"} : Detach(t, hr)
  BY DEF WM_DESTROY_AfterCreate, WM_CLOSE
<1>2. /\ windows' \subseteq windows /\ UNCHANGED refused
      /\ taskbarCreated \ {t} \subseteq taskbarCreated' /\ taskbarCreated' \subseteq taskbarCreated
      /\ \A u \in Thread : Early(u)' => Early(u)
      /\ \A u \in windows' : Shown(u)' => Shown(u) /\ u # t
  BY DEF WM_DESTROY_AfterCreate, NotifyFailure, WM_CLOSE, CloseWindow, Goto, Early, Shown,
         WorkerInv, WindowTypeOK
<1>3. /\ trayThat' \in SUBSET Thread /\ icons' \in SUBSET Thread
      /\ icons' \subseteq {trayHwnd'}
      /\ (trayHwnd' = trayHwnd /\ icons' = icons) \/ trayHwnd' = NoThread
  BY <1>1, DetachIcon
<1>4. CASE trayHwnd' = NoThread
  <2>1. windows' \subseteq Thread
    BY <1>2 DEF WorkerInv, WindowTypeOK
  <2> QED BY <1>2, <1>3, <1>4, <2>1, NoThreadIsNoThread DEF TrayInv, IconIsAttached, IconOnLiveWindow
<1>5. CASE trayHwnd' = trayHwnd /\ icons' = icons /\ trayHwnd # NoThread
  <2>1. trayHwnd \in Thread /\ ~Early(trayHwnd)
    BY <1>5 DEF TrayInv
  <2>2. ~Early(trayHwnd)'
    BY <1>2, <1>5, <2>1 DEF Early
  <2> QED BY <1>2, <1>3, <1>5, <2>2 DEF TrayInv, IconIsAttached, IconOnLiveWindow
<1> QED BY <1>3, <1>4, <1>5

LEMMA WM_TaskbarCreated_KeepsTray ==
  ASSUME TrayInv, WorkerInv, ControllerInv, NEW t \in Thread, WM_TaskbarCreated(t)
  PROVE  TrayInv'
<1>1. PICK hr \in {"S_OK", "E_FAIL", "E_UNEXPECTED"} :
        Attach(t, TRUE, hr) /\ refused' = IF hr = "S_OK" THEN refused \ {t} ELSE refused \cup {t}
  BY DEF WM_TaskbarCreated
<1>2. windows = {t} /\ ~Early(t)
  BY OneWindow DEF WM_TaskbarCreated, WorkerInv, WorkerMatches, Early
<1>3. /\ trayThat' \in SUBSET Thread /\ icons' \in SUBSET Thread
      /\ icons' \subseteq {trayHwnd'}
      /\ trayHwnd' = trayHwnd \/ trayHwnd' = t
      /\ hr = "S_OK" => trayHwnd' = t /\ t \in icons'
  BY <1>1, AttachIcon
<1>4. /\ UNCHANGED <<at, windows>>
      /\ taskbarCreated' = taskbarCreated \ {t}
  BY DEF WM_TaskbarCreated, vars, windowVars
<1>5. trayHwnd' # NoThread => ~Early(trayHwnd)'
  <2> SUFFICES ASSUME trayHwnd' # NoThread
               PROVE  at[trayHwnd'] \notin {"none", "begin", "registered"}
    BY <1>4 DEF Early
  <2> QED BY <1>2, <1>3 DEF TrayInv, Early
<1>6. trayHwnd' \in {NoThread, t}
  BY <1>2, <1>3 DEF TrayInv, IconOnLiveWindow
<1> QED BY <1>1, <1>2, <1>3, <1>4, <1>5, <1>6 DEF TrayInv, IconIsAttached, IconOnLiveWindow

LEMMA TrayInvStep == WorkerInv /\ ControllerInv /\ TrayInv /\ [MessageNext]_allVars => TrayInv'
<1> SUFFICES ASSUME WorkerInv, ControllerInv, TrayInv, [MessageNext]_allVars
             PROVE  TrayInv'
  OBVIOUS
<1>1. ASSUME UNCHANGED <<at, windows, trayHwnd, trayThat, icons, taskbarCreated, refused>>
      PROVE  TrayInv'
  BY <1>1, TrayKept DEF Early, Shown
<1>2. ASSUME NEW c \in Callers, WindowCaller(c), UNCHANGED messageVars
      PROVE  TrayInv'
  <2>1. CASE UNCHANGED <<at, windows>>
    BY <1>1, <1>2, <2>1 DEF messageVars
  <2>2. ASSUME NEW t \in Thread, BeginThread(c, t), Goto(t, "begin"), UNCHANGED windows
        PROVE  TrayInv'
    <3>1. at[t] = "none"
      BY <2>2 DEF BeginThread, WorkerInv, WorkerMatches
    <3>2. /\ \A u \in Thread : Early(u)' => Early(u)
          /\ \A u \in windows : Shown(u)' => Shown(u)
      BY <2>2, <3>1 DEF Goto, Early, Shown, WorkerInv, WindowTypeOK
    <3> QED BY <1>2, <2>2, <3>2, TrayKept DEF messageVars
  <2> QED BY <1>2, <2>1, <2>2
          DEF WindowCaller, WindowStart, WindowStartContinues, WindowStop, WindowStopContinues,
              PostMessage, WindowReap, windowVars
<1>3. ASSUME NEW t \in Thread, HandlerStop(t), UNCHANGED messageVars
      PROVE  TrayInv'
  BY <1>1, <1>3 DEF HandlerStop, windowVars, messageVars
<1>4. ASSUME NEW t \in Thread, MessageWorker(t)
      PROVE  TrayInv'
  BY <1>4, ThreadStepKeepsTray DEF MessageWorker, messageVars
<1>5. ASSUME NEW t \in Thread, MessageProc(t)
      PROVE  TrayInv'
  <2>1. CASE WM_CONTEXTMENU(t)
    BY <1>1, <2>1 DEF WM_CONTEXTMENU, vars, windowVars
  <2> QED BY <1>5, <2>1, WM_CREATE_KeepsTray, DetachKeepsTray, WM_TaskbarCreated_KeepsTray
          DEF MessageProc
<1>6. ASSUME NEW t \in Thread, MenuEnds(t)
      PROVE  TrayInv'
  BY <1>1, <1>6 DEF MenuEnds, vars, windowVars
<1>7. CASE ExplorerRestarts
  <2>1. /\ UNCHANGED <<at, windows, trayHwnd, trayThat>>
        /\ icons' = {} /\ taskbarCreated' = windows
    BY <1>7 DEF ExplorerRestarts, vars, windowVars
  <2> QED BY <2>1 DEF TrayInv, IconIsAttached, IconOnLiveWindow, Early, Shown, WorkerInv, WindowTypeOK
<1>8. CASE UNCHANGED <<windowVars, messageVars>>
  BY <1>1, <1>8 DEF windowVars, messageVars
<1> QED BY <1>2, <1>3, <1>4, <1>5, <1>6, <1>7, <1>8 DEF MessageNext, allVars, vars

-----------------------------------------------------------------------------
(* The hooks of the menu.                                                  *)

Hooks == 1..3
Menu == [owner : Thread \cup {NoThread}, frame : 0..3, hhook : 0..3,
         hooks : SUBSET Hooks, refused : SUBSET Hooks]

\* A menu keeps track of its hooks: one is refused at most, and every other
\* one is on the stack of the showMenu() that shows the menu.
GoodMenu(m) ==
  /\ m \in Menu
  /\ m.refused \subseteq m.hooks
  /\ \A g, h \in m.refused : g = h
  /\ m.hooks \subseteq m.refused \cup (IF m.owner = NoThread THEN {} ELSE {m.frame})

\* With the stale handle cleared there is always a handle left to give out.
LEMMA NewHookIsNew ==
  ASSUME NEW m, GoodMenu(m), m.hhook = NoHook
  PROVE  NewHook(m) \in Hooks \ (m.hooks \cup {m.frame})
<1>1. \E h \in Hooks : h \notin m.hooks \cup {m.frame}
  <2>1. PICK g \in Hooks : m.refused \subseteq {g}
    BY DEF GoodMenu, Menu, Hooks
  <2>2. m.hooks \cup {m.frame} \subseteq {g, m.frame}
    BY <2>1 DEF GoodMenu
  <2>3. PICK h \in Hooks : h # g /\ h # m.frame
    BY <2>1 DEF Hooks, GoodMenu, Menu
  <2> QED BY <2>2, <2>3
<1>2. \E h \in 1..3 : h \notin m.hooks \cup {m.frame, m.hhook}
  BY <1>1 DEF Hooks, NoHook
<1>3. NewHook(m) \in 1..3 /\ NewHook(m) \notin m.hooks \cup {m.frame, m.hhook}
  BY <1>2 DEF NewHook
<1> QED BY <1>3 DEF Hooks

\* tryUnhookMessageProc() loses no hook, whether the system removes it or not.
LEMMA TryUnhookGood ==
  ASSUME NEW m, GoodMenu(m), NEW h \in Hooks, NEW n \in TryUnhook(m, h)
  PROVE  GoodMenu(n) /\ n.owner = m.owner /\ n.frame = m.frame
<1>1. CASE n = [m EXCEPT !.hhook = NoHook, !.hooks = @ \ {h}, !.refused = @ \ {h}]
  <2>1. /\ n \in Menu
        /\ n.owner = m.owner /\ n.frame = m.frame
        /\ n.hooks = m.hooks \ {h} /\ n.refused = m.refused \ {h}
    <3>1. m \in Menu /\ NoHook \in 0..3
      BY DEF GoodMenu, NoHook
    <3> QED BY <1>1, <3>1 DEF Menu
  <2> QED BY <2>1 DEF GoodMenu
<1>2. CASE UnhookRefuses(m, h) /\ n = [m EXCEPT !.refused = {h}]
  <2>1. /\ n \in Menu
        /\ n.owner = m.owner /\ n.frame = m.frame
        /\ n.hooks = m.hooks /\ n.refused = {h}
    BY <1>2 DEF GoodMenu, Menu
  <2> QED BY <1>2, <2>1 DEF GoodMenu, UnhookRefuses
<1> QED BY <1>1, <1>2 DEF TryUnhook

\* A hook that was installed goes again when its menu is not shown.
LEMMA DismissedUnshownGood ==
  ASSUME NEW m, GoodMenu(m), NEW h, h \in Hooks \ (m.hooks \cup {m.frame}),
         NEW n \in TryUnhook([m EXCEPT !.hhook = h, !.hooks = @ \cup {h}], h)
  PROVE  GoodMenu(n)
<1> DEFINE hooked == [m EXCEPT !.hhook = h, !.hooks = @ \cup {h}]
<1>1. /\ hooked \in Menu
      /\ hooked.owner = m.owner /\ hooked.frame = m.frame
      /\ hooked.hooks = m.hooks \cup {h} /\ hooked.refused = m.refused
  <2>1. m \in Menu /\ h \in 0..3 /\ h \in Hooks
    BY DEF GoodMenu, Hooks
  <2> QED BY <2>1 DEF Menu
<1> HIDE DEF hooked
<1>2. CASE n = [hooked EXCEPT !.hhook = NoHook, !.hooks = @ \ {h}, !.refused = @ \ {h}]
  <2>1. /\ n \in Menu
        /\ n.owner = m.owner /\ n.frame = m.frame
        /\ n.hooks = m.hooks /\ n.refused = m.refused
    <3>1. hooked.hooks \ {h} = m.hooks /\ hooked.refused \ {h} = m.refused
      BY <1>1 DEF GoodMenu
    <3>2. hooked \in Menu /\ NoHook \in 0..3
      BY <1>1 DEF NoHook
    <3>3. /\ n \in Menu /\ n.owner = hooked.owner /\ n.frame = hooked.frame
          /\ n.hooks = hooked.hooks \ {h} /\ n.refused = hooked.refused \ {h}
      BY <1>2, <3>2 DEF Menu
    <3> QED BY <1>1, <3>1, <3>3
  <2> QED BY <2>1 DEF GoodMenu
<1>3. CASE UnhookRefuses(hooked, h) /\ n = [hooked EXCEPT !.refused = {h}]
  <2>1. /\ n \in Menu
        /\ n.owner = m.owner /\ n.frame = m.frame
        /\ n.hooks = m.hooks \cup {h} /\ n.refused = {h}
    BY <1>1, <1>3 DEF GoodMenu, Menu
  <2> QED BY <1>1, <1>3, <2>1 DEF GoodMenu, UnhookRefuses
<1> QED BY <1>2, <1>3 DEF TryUnhook, hooked

\* showMenu() may be entered again while a menu is shown.
LEMMA ShowMenuGood ==
  ASSUME GoodMenu(menu), NEW w \in Thread, ShowMenu(w)
  PROVE  GoodMenu(menu)'
<1>1. PICK m \in WithoutStale(menu) :
        \/ menu' = m
        \/ /\ m.hhook = NoHook
           /\ \E hooked \in TryHook(m) :
                \/ /\ m.owner = NoThread
                   /\ menu' = [hooked EXCEPT !.owner = w, !.frame = hooked.hhook]
                \/ menu' \in Dismissed(hooked, hooked.hhook)
  BY DEF ShowMenu
<1>2. GoodMenu(m)
  <2>1. CASE menu.hhook = NoHook
    BY <1>1, <2>1 DEF WithoutStale
  <2>2. CASE menu.hhook # NoHook
    <3>1. menu.hhook \in Hooks
      BY <2>2 DEF GoodMenu, Menu, Hooks, NoHook
    <3> QED BY <1>1, <2>2, <3>1, TryUnhookGood DEF WithoutStale
  <2> QED BY <2>1, <2>2
<1>3. CASE menu' = m
  BY <1>2, <1>3 DEF GoodMenu
<1>4. CASE m.hhook = NoHook /\ menu' # m
  <2> DEFINE h == NewHook(m)
  <2>1. h \in Hooks \ (m.hooks \cup {m.frame})
    BY <1>2, <1>4, NewHookIsNew
  <2>2. PICK hooked \in TryHook(m) :
          \/ /\ m.owner = NoThread
             /\ menu' = [hooked EXCEPT !.owner = w, !.frame = hooked.hhook]
          \/ menu' \in Dismissed(hooked, hooked.hhook)
    BY <1>1, <1>4
  <2>3. \/ hooked = m
        \/ hooked = [m EXCEPT !.hhook = h, !.hooks = @ \cup {h}]
    BY <2>2 DEF TryHook
  <2> HIDE DEF h
  <2>4. CASE hooked = m
    <3>1. CASE m.owner = NoThread /\ menu' = [m EXCEPT !.owner = w, !.frame = m.hhook]
      <4>1. menu' \in Menu /\ menu'.hooks = m.hooks /\ menu'.refused = m.refused
        BY <1>2, <3>1 DEF GoodMenu, Menu
      <4> QED BY <1>2, <3>1, <4>1 DEF GoodMenu
    <3>2. CASE menu' \in Dismissed(m, m.hhook)
      BY <1>4, <3>2 DEF Dismissed
    <3> QED BY <2>2, <2>4, <3>1, <3>2
  <2>5. CASE hooked = [m EXCEPT !.hhook = h, !.hooks = @ \cup {h}]
    <3>1. /\ hooked \in Menu /\ hooked.hhook = h
          /\ hooked.hooks = m.hooks \cup {h} /\ hooked.refused = m.refused
      <4>1. m \in Menu /\ h \in 0..3 /\ h \in Hooks
        BY <1>2, <2>1 DEF GoodMenu, Hooks
      <4> QED BY <2>5, <4>1 DEF Menu
    <3>2. CASE m.owner = NoThread /\ menu' = [hooked EXCEPT !.owner = w, !.frame = hooked.hhook]
      <4>1. /\ menu' \in Menu /\ menu'.owner = w /\ menu'.frame = h
            /\ menu'.hooks = m.hooks \cup {h} /\ menu'.refused = m.refused
        BY <2>1, <3>1, <3>2 DEF Menu, Hooks
      <4> QED BY <1>2, <3>2, <4>1, NoThreadIsNoThread DEF GoodMenu
    <3>3. CASE menu' \in Dismissed(hooked, hooked.hhook)
      <4>1. menu' \in TryUnhook([m EXCEPT !.hhook = h, !.hooks = @ \cup {h}], h)
        BY <2>1, <2>5, <3>1, <3>3 DEF Dismissed, Hooks, NoHook
      <4>2. \A n \in TryUnhook([m EXCEPT !.hhook = h, !.hooks = @ \cup {h}], h) : GoodMenu(n)
        BY <1>2, <2>1, DismissedUnshownGood
      <4> QED BY <4>1, <4>2 DEF GoodMenu
    <3> QED BY <2>2, <3>2, <3>3
  <2> QED BY <2>3, <2>4, <2>5
<1> QED BY <1>1, <1>3, <1>4

\* The hook of the showMenu() that returns goes, or the system refused it.
LEMMA CloseMenuGood ==
  ASSUME GoodMenu(menu), NEW w \in Thread, CloseMenu(w)
  PROVE  GoodMenu(menu)'
<1>1. PICK m \in Dismissed(menu, menu.frame) : menu' = [m EXCEPT !.owner = NoThread, !.frame = NoHook]
  BY DEF CloseMenu
<1>2. GoodMenu(m) /\ m.hooks \subseteq m.refused
  <2>1. CASE menu.frame = NoHook
    <3>1. m = menu
      BY <1>1, <2>1 DEF Dismissed
    <3>2. 0 \notin menu.hooks
      BY DEF GoodMenu, Menu, Hooks
    <3> QED BY <2>1, <3>1, <3>2 DEF GoodMenu, NoHook
  <2>2. CASE menu.frame # NoHook
    <3>1. menu.frame \in Hooks /\ m \in TryUnhook(menu, menu.frame)
      BY <1>1, <2>2 DEF GoodMenu, Menu, Hooks, NoHook, Dismissed
    <3>2. GoodMenu(m)
      BY <3>1, TryUnhookGood
    <3>3. m.hooks \subseteq m.refused
      <4>1. menu.hooks \subseteq menu.refused \cup {menu.frame}
        BY DEF GoodMenu
      <4>2. CASE m = [menu EXCEPT !.hhook = NoHook, !.hooks = @ \ {menu.frame}, !.refused = @ \ {menu.frame}]
        BY <4>1, <4>2 DEF GoodMenu, Menu
      <4>3. CASE UnhookRefuses(menu, menu.frame) /\ m = [menu EXCEPT !.refused = {menu.frame}]
        BY <4>1, <4>3 DEF GoodMenu, Menu, UnhookRefuses
      <4> QED BY <3>1, <4>2, <4>3 DEF TryUnhook
    <3> QED BY <3>2, <3>3
  <2> QED BY <2>1, <2>2
<1>3. menu' \in Menu /\ menu'.hooks = m.hooks /\ menu'.refused = m.refused
  <2>1. m \in Menu /\ NoHook \in 0..3
    BY <1>2 DEF GoodMenu, NoHook
  <2> QED BY <1>1, <2>1 DEF Menu
<1> QED BY <1>2, <1>3 DEF GoodMenu

LEMMA GoodMenuStep == GoodMenu(menu) /\ [MessageNext]_allVars => GoodMenu(menu)'
<1> SUFFICES ASSUME GoodMenu(menu), [MessageNext]_allVars
             PROVE  GoodMenu(menu)'
  OBVIOUS
<1>1. CASE UNCHANGED menu
  BY <1>1 DEF GoodMenu
<1>2. CASE HooksEnd
  <2>1. /\ menu' \in Menu /\ menu'.hooks = {} /\ menu'.refused = {}
    BY <1>2 DEF HooksEnd, GoodMenu, Menu
  <2> QED BY <2>1 DEF GoodMenu
<1>3. ASSUME NEW t \in Thread, MessageWorker(t)
      PROVE  GoodMenu(menu)'
  BY <1>1, <1>2, <1>3 DEF MessageWorker, messageVars
<1>4. ASSUME NEW t \in Thread, MessageProc(t)
      PROVE  GoodMenu(menu)'
  BY <1>1, <1>4, ShowMenuGood
  DEF MessageProc, WM_CREATE, WM_DESTROY_AfterCreate, WM_CLOSE, WM_TaskbarCreated, WM_CONTEXTMENU
<1>5. ASSUME NEW t \in Thread, MenuEnds(t)
      PROVE  GoodMenu(menu)'
  BY <1>5, CloseMenuGood DEF MenuEnds
<1>6. CASE ExplorerRestarts \/ UNCHANGED messageVars
  BY <1>1, <1>6 DEF ExplorerRestarts, messageVars
<1> QED BY <1>3, <1>4, <1>5, <1>6 DEF MessageNext, allVars

-----------------------------------------------------------------------------
(* What the runs check, for every instance.                                *)

LEMMA MessageInvCorrect == MessageSpec => [](TrayInv /\ GoodMenu(menu))
<1>1. MessageInit => TrayInv /\ GoodMenu(menu)
  BY DEF MessageInit, WindowInit, TrayInit, NoMenu, NoHook, TrayInv, IconIsAttached, IconOnLiveWindow,
         GoodMenu, Menu, Hooks
<1>2. MessageSpec => [](WorkerInv /\ ControllerInv)
  BY ImplementsWindowControllerCorrect, WorkerInvCorrect, ControllerInvCorrect, PTL
  DEF ImplementsWindowController, ImplementsBase
<1> QED BY <1>1, <1>2, TrayInvStep, GoodMenuStep, PTL DEF MessageSpec

\* A start() whose worker has yet to report keeps its ThreadContext, the window
\* class goes with its thread, a running controller can be stopped, and stop()
\* ends the process only when it has no attempt left or no window to post to.
THEOREM WindowInvCorrect == MessageSpec => []WindowInv
<1>1. WorkerInv /\ ControllerInv => ClassReleased
  BY NoThreadIsNoThread
  DEF WorkerInv, WindowTypeOK, WorkerMatches, ClassOwned, ControllerInv, HandleMatchesState,
      SingleWorker, ClassReleased
<1>2. HwndInv => StartedIsStoppable
  BY DEF HwndInv, StartedIsStoppable
<1>3. TrayInv /\ GoodMenu(menu) => TrayTypeOK
  BY DEF TrayInv, GoodMenu, Menu, TrayTypeOK
<1>4. /\ WorkerInv => WindowTypeOK /\ ContextAlive
      /\ AbandonInv => AbandonsOnlyAfterLimit
      /\ TrayInv => taskbarCreated \in SUBSET Thread
  BY DEF WorkerInv, AbandonInv, TrayInv
<1>5. WorkerInv /\ ControllerInv /\ HwndInv /\ AbandonInv /\ TrayInv /\ GoodMenu(menu) => WindowInv
  BY <1>1, <1>2, <1>3, <1>4 DEF WindowInv, MessageTypeOK
<1> QED BY <1>5, ImplementsWindowControllerCorrect, WorkerInvCorrect, ControllerInvCorrect,
           HwndInvCorrect, AbandonInvCorrect, MessageInvCorrect, PTL
        DEF ImplementsWindowController, ImplementsBase

\* The program never loses track of its icon, nor of the hook of its menu,
\* whatever the shell refuses, restarts or loses.
THEOREM IconInvCorrect == MessageSpec => []IconInv
<1>1. TrayInv => IconIsAttached /\ IconOnLiveWindow /\ IconShownAgain
  BY DEF TrayInv, Shown, IconShownAgain
<1>2. GoodMenu(menu) => MenuHookRemoved
  BY DEF GoodMenu, MenuHookRemoved
<1>3. TrayInv /\ GoodMenu(menu) => IconInv
  BY <1>1, <1>2 DEF IconInv
<1> QED BY <1>3, MessageInvCorrect, PTL

=============================================================================
