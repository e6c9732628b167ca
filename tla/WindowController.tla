-------------------------- MODULE WindowController --------------------------
(***************************************************************************)
(* The controller of a thread that owns a window                            *)
(* (src/app/win32/WindowController): the worker registers the window class, *)
(* creates the window, reports through a ThreadContext on the stack of      *)
(* start(), pumps messages until WM_QUIT and unregisters the class; stop()  *)
(* posts WM_CLOSE to the window.  A window is named by the thread that      *)
(* created it.  windowProc() of the subclass decides whether WM_CREATE      *)
(* succeeds and with which code WM_DESTROY quits (module MessageWindow).    *)
(***************************************************************************)
EXTENDS MessageLoopThreadController

VARIABLES
  at,           \* where each worker is in WindowWorker
  context,      \* ThreadContext::hr_ of each worker's start()
  contextHwnd,  \* workers that stored their window in atomic_hwnd
  hwnd,         \* hwnd_ of the controller, NoThread when it is nullptr
  windows,      \* windows that exist
  closing,      \* windows with WM_CLOSE in their thread's message queue
  registered,   \* is the window class registered in the process?
  loopHr        \* hr of each worker after its message loop

windowVars == <<at, context, contextHwnd, hwnd, windows, closing, registered, loopHr>>
vars == <<baseVars, windowVars>>

WorkerPoints == {"none", "begin", "registered", "created", "failed",
                 "pump", "unregister", "ended"}

WindowInit ==
  /\ Init
  /\ at = [t \in Thread |-> "none"]
  /\ context = [t \in Thread |-> "E_PENDING"]
  /\ contextHwnd = {}
  /\ hwnd = NoThread
  /\ windows = {}
  /\ closing = {}
  /\ registered = FALSE
  /\ loopHr = [t \in Thread |-> "S_OK"]

-----------------------------------------------------------------------------
(* WindowWorker                                                            *)

Goto(t, point) == at' = [at EXCEPT ![t] = point]

\* RegisterClassExW fails for a class name that is still registered.
RegisterClass(t) ==
  /\ at[t] = "begin"
  /\ \/ /\ ~registered
        /\ registered' = TRUE
        /\ Goto(t, "registered")
     \/ /\ registered \/ "worker" \in Faults
        /\ Goto(t, "failed")
        /\ UNCHANGED registered
  /\ UNCHANGED <<baseVars, context, contextHwnd, hwnd, windows, closing, loopHr>>

CreateWindow_KeepsClass(t, created) ==
  /\ at[t] = "registered"
  /\ windows' = IF created THEN windows \cup {t} ELSE windows
  /\ Goto(t, IF created THEN "created" ELSE "failed")
  /\ UNCHANGED <<baseVars, context, contextHwnd, hwnd, closing, registered, loopHr>>

\* CreateWindowExW; a failure unregisters the class before it is reported.
CreateWindow(t, created) ==
  /\ at[t] = "registered"
  /\ IF created
       THEN /\ windows' = windows \cup {t}
            /\ Goto(t, "created")
            /\ UNCHANGED registered
       ELSE /\ registered' = FALSE
            /\ Goto(t, "failed")
            /\ UNCHANGED windows
  /\ UNCHANGED <<baseVars, context, contextHwnd, hwnd, closing, loopHr>>

\* The error code the failed start reports: the last error, which WM_CREATE
\* of the subclass sets before it refuses the window.
StartError == "START_FAILED"

NotifyFailure_Silent(t) ==
  /\ at[t] = "failed"
  /\ loopHr' = [loopHr EXCEPT ![t] = "EXIT_FAILURE"]
  /\ Goto(t, "ended")
  /\ UNCHANGED <<baseVars, context, contextHwnd, hwnd, windows, closing, registered>>

NotifyFailure(t) ==
  /\ at[t] = "failed"
  /\ context' = [context EXCEPT ![t] = StartError]
  /\ loopHr' = [loopHr EXCEPT ![t] = "EXIT_FAILURE"]
  /\ Goto(t, "ended")
  /\ UNCHANGED <<baseVars, contextHwnd, hwnd, windows, closing, registered>>

\* PeekMessageW has made the queue; setHwnd() precedes notify().
NotifyWindow(t) ==
  /\ at[t] = "created"
  /\ contextHwnd' = contextHwnd \cup {t}
  /\ context' = [context EXCEPT ![t] = "S_OK"]
  /\ Goto(t, "pump")
  /\ UNCHANGED <<baseVars, hwnd, windows, closing, registered, loopHr>>

\* WM_CLOSE destroys the window; WM_DESTROY posts WM_QUIT with hr, which ends
\* the loop with that result.
CloseWindow(t, hr) ==
  /\ at[t] = "pump"
  /\ worker[t] = "running"
  /\ t \in closing
  /\ closing' = closing \ {t}
  /\ windows' = windows \ {t}
  /\ loopHr' = [loopHr EXCEPT ![t] = hr]
  /\ Goto(t, "unregister")
  /\ UNCHANGED <<baseVars, context, contextHwnd, hwnd, registered>>

\* GetMessageW returned -1: the loop ends with the window still there.
GetMessageFails(t) ==
  /\ at[t] = "pump"
  /\ worker[t] = "running"
  /\ "getMessage" \in Faults
  /\ loopHr' = [loopHr EXCEPT ![t] = "E_FAIL"]
  /\ Goto(t, "unregister")
  /\ UNCHANGED <<baseVars, context, contextHwnd, hwnd, windows, closing, registered>>

\* UnregisterClassW fails while a window of the class exists.
UnregisterClass(t) ==
  /\ at[t] = "unregister"
  /\ IF t \notin windows
       THEN registered' = FALSE /\ UNCHANGED loopHr
       ELSE /\ loopHr' = [loopHr EXCEPT ![t] = FirstFailure(@, "E_FAIL")]
            /\ UNCHANGED registered
  /\ Goto(t, "ended")
  /\ UNCHANGED <<baseVars, context, contextHwnd, hwnd, windows, closing>>

\* The system destroys the windows of a thread that exits.
EndThread(t) ==
  /\ at[t] = "ended"
  /\ WorkerExits(t, loopHr[t])
  /\ windows' = windows \ {t}
  /\ closing' = closing \ {t}
  /\ UNCHANGED <<at, context, contextHwnd, hwnd, registered, loopHr>>

\* A message handler, dispatched by the message loop, may call stop().
HandlerStop(t) ==
  /\ \/ at[t] = "pump" /\ WorkerCallsStop(t)
     \/ WorkerStopRejected(t)
  /\ UNCHANGED windowVars

-----------------------------------------------------------------------------
(* start() and stop()                                                      *)

WindowStart(c) ==
  \/ /\ StartRejected(c) \/ BeginFails(c)
     /\ UNCHANGED windowVars
  \/ \E t \in Thread :
       /\ BeginThread(c, t)
       /\ Goto(t, "begin")
       /\ UNCHANGED <<context, contextHwnd, hwnd, windows, closing, registered, loopHr>>

\* state.hWnd(), nullptr unless the worker stored its window.
ContextHwnd(t) == IF t \in contextHwnd THEN t ELSE NoThread

WindowStartContinues(c) ==
  LET t == call[c].hthread IN
  \/ /\ At(c, "started")
     /\ context[t] = "S_OK"
     /\ StartSucceeds(c)
     /\ hwnd' = ContextHwnd(t)
     /\ UNCHANGED <<at, context, contextHwnd, windows, closing, registered, loopHr>>
  \/ /\ At(c, "started")
     /\ context[t] = "S_OK"
     /\ FactoryAllocationFails(c)
     /\ UNCHANGED windowVars
  \/ /\ At(c, "started")
     /\ context[t] \notin {"E_PENDING", "S_OK"}
     /\ StartFails(c)
     /\ UNCHANGED windowVars
  \/ /\ StartFailureExited(c) \/ StartFailureNotExited(c)
     /\ UNCHANGED windowVars
  \/ /\ At(c, "startReap")
     /\ Reap(c) \/ CloseFails(c)
     /\ UNCHANGED windowVars

\* stop() also needs the window that WM_CLOSE is posted to.
WindowStopAllowed == /\ StopAllowed
                     /\ hwnd # NoThread

WindowStop(c) ==
  /\ \/ ~WindowStopAllowed /\ NoUnfinishedStart /\ StopRejected(c)
     \/ WindowStopAllowed /\ StopEnters(c)
     \/ WindowStopAllowed /\ RetryAllocationFails(c)
  /\ UNCHANGED windowVars

\* PostMessageW(hwnd, WM_CLOSE, 0, 0)
PostMessage(c) ==
  /\ At(c, "post")
  /\ \/ /\ hwnd \in windows
        /\ PostStopMessage(c, "TRUE")
        /\ closing' = closing \cup {hwnd}
     \/ /\ hwnd \in windows
        /\ "quota" \in Faults
        /\ PostStopMessage(c, "QUOTA")
        /\ UNCHANGED closing
     \/ /\ hwnd \notin windows
        /\ PostStopMessage(c, "FALSE")
        /\ UNCHANGED closing
  /\ UNCHANGED <<at, context, contextHwnd, hwnd, windows, registered, loopHr>>

\* hwnd_ is cleared only after a stop() that did not fail.
WindowReap(c) ==
  /\ At(c, "reap")
  /\ Reap(c) \/ CloseFails(c)
  /\ hwnd' = IF Failed(call'[c].hr) THEN hwnd ELSE NoThread
  /\ UNCHANGED <<at, context, contextHwnd, windows, closing, registered, loopHr>>

WindowStopContinues(c) ==
  \/ PostMessage(c)
  \/ /\ WaitSignaled(c) \/ WaitNotSignaled(c)
     /\ UNCHANGED windowVars
  \/ WindowReap(c)

-----------------------------------------------------------------------------
\* What WindowWorker does on its own, and what windowProc() takes part in.
WindowWorker(t) == \/ RegisterClass(t)
                   \/ NotifyFailure(t)
                   \/ NotifyWindow(t)
                   \/ GetMessageFails(t)
                   \/ UnregisterClass(t)
                   \/ EndThread(t)

\* windowProc() may refuse the window without any fault of the system.
WindowProc(t) == \/ \E created \in BOOLEAN : CreateWindow(t, created)
                 \/ \E hr \in {"S_OK", "E_FAIL"} : CloseWindow(t, hr)

WindowCaller(c) == \/ WindowStart(c)
                   \/ WindowStartContinues(c)
                   \/ WindowStop(c)
                   \/ WindowStopContinues(c)

WindowNext ==
  \/ /\ process = "alive"
     /\ \/ \E c \in Callers : WindowCaller(c)
        \/ \E t \in Thread : WindowWorker(t) \/ WindowProc(t) \/ HandlerStop(t)
        \/ Destroy /\ UNCHANGED windowVars
  \/ Terminated /\ UNCHANGED windowVars

WindowSpec == WindowInit /\ [][WindowNext]_vars

WindowFairSpec ==
  /\ WindowSpec
  /\ \A c \in Callers : /\ WF_vars(process = "alive" /\ WindowStopContinues(c))
                        /\ WF_vars(process = "alive" /\ WindowStartContinues(c))
  /\ \A t \in Thread : WF_vars(process = "alive" /\ (WindowWorker(t) \/ WindowProc(t)))

-----------------------------------------------------------------------------
(* Properties.                                                             *)

\* Every variable of the worker holds a value the code's types allow.
WindowTypeOK ==
  /\ TypeOK
  /\ at \in [Thread -> WorkerPoints]
  /\ context \in [Thread -> {"E_PENDING", "S_OK", "START_FAILED"}]
  /\ contextHwnd \in SUBSET Thread
  /\ hwnd \in Thread \cup {NoThread}
  /\ windows \in SUBSET Thread
  /\ closing \in SUBSET Thread
  /\ registered \in BOOLEAN
  /\ loopHr \in [Thread -> ExitCodes]

\* The base class is implemented by this subclass.
ImplementsBase == Spec

\* A worker that has yet to read or write its ThreadContext (the start
\* parameters it registers and unregisters the class with, the window and the
\* result it stores) finds the stack frame of start() alive.
ContextAlive ==
  \A t \in Thread : at[t] \in {"begin", "registered", "created", "failed"} =>
    \E c \in Callers : At(c, "started") /\ call[c].hthread = t

\* The window class does not outlive the thread that registered it, so the next
\* start() is not refused by RegisterClassExW, unless the worker ended
\* with E_FAIL: a message loop that failed leaves its window behind.
ClassReleased ==
  state = "kReady" /\ (\A t \in Thread : loopHr[t] # "E_FAIL") => ~registered

\* A controller whose start() returned S_OK can be stopped: hwnd_ is the window
\* of the thread in data_, not nullptr (which stop() would reject for good,
\* leaving the thread to the fatal check of the destructor) nor an older one.
StartedIsStoppable == state = "kRunning" /\ NoUnfinishedStart => hwnd = data

\* stopThread() ends the process only after every attempt of its retry limit,
\* or when WM_CLOSE cannot be posted because the window is already destroyed.
AbandonsOnlyAfterLimit ==
  process = "retryExpired" =>
    \E c \in Callers : /\ mutex = c
                       /\ \/ ~Available(AdvanceAttempt(call[c]))
                          \/ at[call[c].hthread] \in {"unregister", "ended"}

\* A start() returns, whatever the worker reports.
StartReturns ==
  \A c \in Callers : At(c, "started") ~> At(c, "idle") \/ process # "alive"

=============================================================================
