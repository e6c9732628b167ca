----------------------- MODULE WinEventHookController -----------------------
(***************************************************************************)
(* The controller of the thread that receives accessibility events          *)
(* (src/app/win32/WinEventHookController): the worker installs the hook,    *)
(* reports through a ThreadContext on the stack of start(), pumps messages  *)
(* until WM_QUIT and removes the hook.  Every step is a step of the base    *)
(* class, MessageLoopThreadController, or leaves its state alone.           *)
(***************************************************************************)
EXTENDS MessageLoopThreadController

\* The constructor sets the policy of its base class.
ASSUME HookAssumption == StopFailurePolicy = "kFailFast"

VARIABLES
  at,       \* where each worker is in WinEventHookWorker
  context,  \* ThreadContext::hr_ of each worker's start()
  hooks,    \* workers whose hook the system has installed
  quit,     \* workers with WM_QUIT in their message queue
  loopHr    \* hr of each worker after its message loop

hookVars == <<at, context, hooks, quit, loopHr>>
vars == <<baseVars, hookVars>>

WorkerPoints == {"none", "begin", "hooked", "failed", "pump", "unhook", "ended"}

HookInit ==
  /\ Init
  /\ at = [t \in Thread |-> "none"]
  /\ context = [t \in Thread |-> "E_PENDING"]
  /\ hooks = {}
  /\ quit = {}
  /\ loopHr = [t \in Thread |-> "S_OK"]

\* A thread has a message queue from its first call of a user32 function,
\* SetWinEventHook, until the system tears it down while the thread exits.
HasQueue(t)   == at[t] \in {"hooked", "failed", "pump", "unhook", "ended"} /\ worker[t] # "exited"
LacksQueue(t) == at[t] \in {"none", "begin", "ended"}

-----------------------------------------------------------------------------
(* WinEventHookWorker                                                      *)

Goto(t, point) == at' = [at EXCEPT ![t] = point]

SetHook(t) ==
  /\ at[t] = "begin"
  /\ \/ /\ Goto(t, "hooked")
        /\ hooks' = hooks \cup {t}
     \/ /\ "worker" \in Faults
        /\ Goto(t, "failed")
        /\ UNCHANGED hooks
  /\ UNCHANGED <<baseVars, context, quit, loopHr>>

Notify(t) ==
  /\ at[t] = "hooked"
  /\ context' = [context EXCEPT ![t] = "S_OK"]
  /\ Goto(t, "pump")
  /\ UNCHANGED <<baseVars, hooks, quit, loopHr>>

\* notifyLastError(): store the error, then _endthreadex(EXIT_FAILURE).
NotifyLastError(t) ==
  /\ at[t] = "failed"
  /\ context' = [context EXCEPT ![t] = "START_FAILED"]
  /\ loopHr' = [loopHr EXCEPT ![t] = "EXIT_FAILURE"]
  /\ Goto(t, "ended")
  /\ UNCHANGED <<baseVars, hooks, quit>>

\* GetMessageW returned 0 for WM_QUIT, or -1.
LeaveLoop(t) ==
  /\ at[t] = "pump"
  /\ worker[t] = "running"
  /\ \/ /\ t \in quit
        /\ quit' = quit \ {t}
        /\ UNCHANGED loopHr
     \/ /\ "getMessage" \in Faults
        /\ loopHr' = [loopHr EXCEPT ![t] = "E_FAIL"]
        /\ UNCHANGED quit
  /\ Goto(t, "unhook")
  /\ UNCHANGED <<baseVars, context, hooks>>

Unhook(t) ==
  /\ at[t] = "unhook"
  /\ \/ /\ hooks' = hooks \ {t}
        /\ UNCHANGED loopHr
     \/ /\ "worker" \in Faults
        /\ loopHr' = [loopHr EXCEPT ![t] = FirstFailure(@, "E_FAIL")]
        /\ UNCHANGED hooks
  /\ Goto(t, "ended")
  /\ UNCHANGED <<baseVars, context, quit>>

\* The system removes what is left of the hooks of a thread that exits.
EndThread(t) ==
  /\ at[t] = "ended"
  /\ WorkerExits(t, loopHr[t])
  /\ hooks' = hooks \ {t}
  /\ quit' = quit \ {t}
  /\ UNCHANGED <<at, context, loopHr>>

\* An event callback, dispatched by the message loop, may call stop().
CallbackStop(t) ==
  /\ \/ at[t] = "pump" /\ WorkerCallsStop(t)
     \/ WorkerStopRejected(t)
  /\ UNCHANGED hookVars

-----------------------------------------------------------------------------
(* start() and stop()                                                      *)

HookStart(c) ==
  \/ /\ StartRejected(c) \/ BeginFails(c)
     /\ UNCHANGED hookVars
  \/ \E t \in Thread :
       /\ BeginThread(c, t)
       /\ Goto(t, "begin")
       /\ UNCHANGED <<context, hooks, quit, loopHr>>

WaitAndLoad_NoWait(t, hr) ==
  hr = IF context[t] = "E_PENDING" THEN "S_OK" ELSE context[t]

\* wait_and_load() returns the worker's result once it is stored.
WaitAndLoad(t, hr) == context[t] = hr

HookStartContinues_NoReap(c) ==
  /\ At(c, "started")
  /\ WaitAndLoad(call[c].hthread, "START_FAILED")
  /\ state' = "kReady"
  /\ data' = NoThread
  /\ call' = [call EXCEPT ![c] = Returned("START_FAILED")]
  /\ UNCHANGED <<mutex, maxAttempts, worker, exitCode, handles, process, hookVars>>

HookStartContinues(c) ==
  /\ \/ /\ At(c, "started")
        /\ WaitAndLoad(call[c].hthread, "S_OK")
        /\ StartSucceeds(c) \/ FactoryAllocationFails(c)
     \/ /\ At(c, "started")
        /\ WaitAndLoad(call[c].hthread, "START_FAILED")
        /\ StartFails(c)
     \/ StartFailureExited(c)
     \/ StartFailureNotExited(c)
  /\ UNCHANGED hookVars

\* PostThreadMessageW(thread_id, WM_QUIT, 0, 0)
PostThreadMessage(c) ==
  LET t == call[c].hthread IN
  /\ At(c, "post")
  /\ \/ /\ HasQueue(t)
        /\ PostStopMessage(c, "TRUE")
        /\ quit' = quit \cup {t}
     \/ /\ HasQueue(t)
        /\ "quota" \in Faults
        /\ PostStopMessage(c, "QUOTA")
        /\ UNCHANGED quit
     \/ /\ LacksQueue(t)
        /\ PostStopMessage(c, "FALSE")
        /\ UNCHANGED quit
  /\ UNCHANGED <<at, context, hooks, loopHr>>

HookStop(c) ==
  /\ \/ ~StopAllowed /\ StopRejected(c)
     \/ StopEnters(c)
     \/ RetryAllocationFails(c)
  /\ UNCHANGED hookVars

HookStopContinues(c) ==
  \/ PostThreadMessage(c)
  \/ /\ WaitSignaled(c) \/ WaitNotSignaled(c) \/ Reap(c) \/ CloseFails(c)
     /\ UNCHANGED hookVars

-----------------------------------------------------------------------------
HookWorker(t) == \/ SetHook(t)
                 \/ Notify(t)
                 \/ NotifyLastError(t)
                 \/ LeaveLoop(t)
                 \/ Unhook(t)
                 \/ EndThread(t)

HookNext ==
  \/ /\ process = "alive"
     /\ \/ \E c \in Callers : \/ HookStart(c)
                              \/ HookStartContinues(c)
                              \/ HookStop(c)
                              \/ HookStopContinues(c)
        \/ \E t \in Thread : HookWorker(t) \/ CallbackStop(t)
        \/ Destroy /\ UNCHANGED hookVars
  \/ Terminated /\ UNCHANGED hookVars

HookSpec == HookInit /\ [][HookNext]_vars

\* Running threads go on, and every wait of a call is finite except that for
\* the worker's report, which the worker eventually makes.
HookFairSpec ==
  /\ HookSpec
  /\ \A c \in Callers : /\ WF_vars(process = "alive" /\ HookStopContinues(c))
                        /\ WF_vars(process = "alive" /\ HookStartContinues(c))
  /\ \A t \in Thread : WF_vars(process = "alive" /\ HookWorker(t))

-----------------------------------------------------------------------------
(* Properties.                                                             *)

\* Every variable of the worker holds a value the code's types allow.
HookTypeOK ==
  /\ TypeOK
  /\ at \in [Thread -> WorkerPoints]
  /\ context \in [Thread -> {"E_PENDING", "S_OK", "START_FAILED"}]
  /\ hooks \in SUBSET Thread
  /\ quit \in SUBSET Thread
  /\ loopHr \in [Thread -> ExitCodes]

\* The base class is implemented: what the base class promises for any
\* subclass holds for this one.
ImplementsBase == Spec

\* A worker that has yet to read or write its ThreadContext finds it alive:
\* the start() whose stack frame holds it has not gone on.
ContextAlive ==
  \A t \in Thread : at[t] \in {"begin", "hooked", "failed"} =>
    \E c \in Callers : At(c, "started") /\ call[c].hthread = t

\* When start() or stop() has left the controller ready, no hook of it is
\* installed, so no event callback runs into objects destroyed after stop().
NoHookWhenReady == state = "kReady" => hooks = {}

\* No call is left that stops the thread, and the thread ended: only its
\* handle, which CloseHandle refused to close, is still there.
OnlyHandleLeft == mutex = NoCaller /\ data # NoThread /\ worker[data] = "exited"

\* A call that returns with state_ at kStopping, as it may when CloseHandle
\* fails, never leaves a thread that runs: kFailFast would have ended the
\* process before.
NotLeftRunning ==
  process = "alive" /\ state = "kStopping" /\ mutex = NoCaller => OnlyHandleLeft

\* The hook thread is alive only where its creators expect it: it outlives
\* neither the start() that waits for it nor the start() or stop() that
\* reaped it, even if that could not close its handle.
HookSafe == ContextAlive /\ NoHookWhenReady /\ NotLeftRunning

\* stopThread() ends the process only after every attempt of its retry limit,
\* or when the message cannot be posted because the worker is already ending:
\* never because stop() came before the worker had a message queue.
AbandonsOnlyAfterLimit ==
  process = "retryExpired" =>
    \E c \in Callers : /\ mutex = c
                       /\ \/ ~Available(AdvanceAttempt(call[c]))
                          \/ at[call[c].hthread] = "ended"

\* The policy is fail-fast: a thread that is being stopped is reaped, or the
\* process ends, or it ended and only its handle could not be closed.
StopResolves ==
  state = "kStopping" ~> state = "kReady" \/ process # "alive" \/ OnlyHandleLeft

=============================================================================
