-------------------- MODULE MessageLoopThreadController --------------------
(***************************************************************************)
(* The base class of every worker thread of the program                    *)
(* (src/app/win32/MessageLoopThreadController): start() begins a thread,   *)
(* stopThread() posts a stop message and waits for the thread to exit,     *)
(* retrying under a retry state, and reapThread() closes its handle.       *)
(*                                                                         *)
(* The subclass is left open: what postStopMessage() returns, when the     *)
(* worker leaves its loop and with which exit code are nondeterministic.   *)
(* The modules WinEventHookController and WindowController conjoin them    *)
(* with the code of the two subclasses, so each of their steps is a step   *)
(* of this module.                                                         *)
(*                                                                         *)
(* One action is the code between two points at which another thread can   *)
(* observe or change something: taking mutex_, posting, waiting, closing.  *)
(*                                                                         *)
(* An operator with an underscore in its name is a plausible mistake in    *)
(* the operator named before the underscore.  No specification uses it: it *)
(* says which mistake a property is able to find.                          *)
(***************************************************************************)
EXTENDS Naturals

CONSTANTS
  Callers,            \* threads that call start() and stop()
  NoCaller,           \* mutex_ is free
  MaxThreads,         \* bound: worker threads begun in one behaviour
  InitialAttempts,    \* MaxAttempts of the retry factory set by the constructor
  StartedAttempts,    \* MaxAttempts of the factory set after a successful start
  StopFailurePolicy,  \* "kReturnTimeout" or "kFailFast"
  Faults              \* failures of the system the environment may produce

NoThread == 0         \* INVALID_HANDLE_VALUE
Thread   == 1..MaxThreads

ASSUME ControllerAssumption ==
  /\ NoCaller \notin Callers
  /\ MaxThreads \in Nat
  /\ InitialAttempts \in Nat \ {0}
  /\ StartedAttempts \in Nat \ {0}
  /\ StopFailurePolicy \in {"kReturnTimeout", "kFailFast"}
  /\ Faults \subseteq {"begin", "quota", "post", "handle", "memory",
                   "worker", "getMessage", "shell", "explorer", "unhook"}

VARIABLES
  state,        \* state_: kReady, kRunning, kStopping
  data,         \* data_.hthread, NoThread when it is INVALID_HANDLE_VALUE
  mutex,        \* mutex_: the caller that holds it
  maxAttempts,  \* MaxAttempts of the factory in retry_factory_
  call,         \* the call each caller is in, with its locals
  worker,       \* what each worker thread is doing
  exitCode,     \* exit code of each worker thread that exited
  handles,      \* thread handles that are open
  process       \* "alive", or how the process or the controller ended

baseVars ==
  <<state, data, mutex, maxAttempts, call, worker, exitCode, handles, process>>

Results == {"S_OK", "ERROR_INVALID_OPERATION", "ERROR_NOT_ENOUGH_QUOTA",
            "ERROR_TIMEOUT", "POST_FAILED", "WAIT_FAILED", "CLOSE_FAILED",
            "GET_EXIT_CODE_FAILED", "BEGIN_FAILED", "START_FAILED", "E_FAIL",
            "EXIT_FAILURE"}

\* EXIT_FAILURE is 1: read as an HRESULT it is a success other than S_OK.
ExitCodes == {"S_OK", "E_FAIL", "EXIT_FAILURE"}

WaitFailures == {"ERROR_TIMEOUT", "WAIT_FAILED"}

Failed(hr) == hr \notin {"S_OK", "EXIT_FAILURE"}

Points == {"idle", "started", "startWait", "startReap",
           "post", "wait", "lastWait", "reap"}

\* The points at which a caller is inside the critical section of mutex_.
Locked == {"startWait", "startReap", "post", "wait", "lastWait", "reap"}

\* A caller between two calls; hr is what the last one returned.
Returned(hr) ==
  [pc |-> "idle", hthread |-> NoThread, attempts |-> 0, limit |-> 0, hr |-> hr]

Init ==
  /\ state = "kReady"
  /\ data = NoThread
  /\ mutex = NoCaller
  /\ maxAttempts = InitialAttempts
  /\ call = [c \in Callers |-> Returned("S_OK")]
  /\ worker = [t \in Thread |-> "none"]
  /\ exitCode = [t \in Thread |-> "S_OK"]
  /\ handles = {}
  /\ process = "alive"

-----------------------------------------------------------------------------
(* Helpers: conditions and effects the handlers are built from.            *)

At(c, point) == call[c].pc = point

AcquireFree(c) == /\ At(c, "idle")
                  /\ mutex = NoCaller

StartAllowed_WhileRunning == state # "kStopping"

\* start(): neither a state other than kReady nor a handle left in data_.
StartAllowed == /\ state = "kReady"
                /\ data = NoThread

StopAllowed_OnlyRunning == /\ state = "kRunning"
                           /\ data # NoThread

\* stop() of the subclasses, and validateThreadAccess() from another thread.
StopAllowed == /\ state \in {"kRunning", "kStopping"}
               /\ data # NoThread

\* A call on a thread handle fails when the handle is closed.
HandleCallFails(t) == t \notin handles \/ "handle" \in Faults

WaitReturns_TimeoutIsExit(t, result) ==
  CASE result = "S_OK"          -> t \in handles
    [] result = "ERROR_TIMEOUT" -> t \in handles /\ worker[t] # "exited"
    [] result = "WAIT_FAILED"   -> HandleCallFails(t)

\* What WaitForSingleObject returns, with the failure stopThread() reports.
WaitReturns(t, result) ==
  CASE result = "S_OK"          -> t \in handles /\ worker[t] = "exited"
    [] result = "ERROR_TIMEOUT" -> t \in handles /\ worker[t] # "exited"
    [] result = "WAIT_FAILED"   -> HandleCallFails(t)

\* stopThread() keeps the first failure of an attempt.
FirstFailure(hr, later) == IF hr = "S_OK" THEN later ELSE hr

\* RetryState::available() after advanceAttempt() or forceExpire().
Available(r) == r.attempts < r.limit
AdvanceAttempt_Missing(r) == r
AdvanceAttempt(r) == [r EXCEPT !.attempts = @ + 1]
ForceExpire(r) == [r EXCEPT !.attempts = r.limit]

Return(c, hr) == /\ call' = [call EXCEPT ![c] = Returned(hr)]
                 /\ mutex' = NoCaller

GiveUp_ClosesHandle(c, hr, reason) ==
  /\ Return(c, hr)
  /\ handles' = handles \ {call[c].hthread}
  /\ UNCHANGED <<state, data, maxAttempts, worker, exitCode, process>>

\* The policy decides between fail-fast and a failed return that leaves
\* state_ at kStopping, so that stop() can be called again.
GiveUp(c, hr, reason) ==
  /\ IF StopFailurePolicy = "kFailFast"
       THEN /\ process' = reason
            /\ UNCHANGED <<call, mutex>>
       ELSE /\ Return(c, hr)
            /\ UNCHANGED process
  /\ UNCHANGED <<state, data, maxAttempts, worker, exitCode, handles>>

-----------------------------------------------------------------------------
(* start()                                                                 *)

StartRejected(c) ==
  /\ AcquireFree(c)
  /\ ~StartAllowed
  /\ call' = [call EXCEPT ![c] = Returned("ERROR_INVALID_OPERATION")]
  /\ UNCHANGED <<state, data, mutex, maxAttempts, worker, exitCode, handles, process>>

\* _beginthreadex returned 0: nothing has changed.
BeginFails(c) ==
  /\ AcquireFree(c)
  /\ StartAllowed
  /\ "begin" \in Faults
  /\ call' = [call EXCEPT ![c] = Returned("BEGIN_FAILED")]
  /\ UNCHANGED <<state, data, mutex, maxAttempts, worker, exitCode, handles, process>>

\* The thread runs from here on; mutex_ is released when start() returns to
\* the subclass, which keeps the handle in its local info.
BeginThread(c, t) ==
  /\ AcquireFree(c)
  /\ StartAllowed
  /\ worker[t] = "none"
  /\ worker' = [worker EXCEPT ![t] = "running"]
  /\ handles' = handles \cup {t}
  /\ data' = t
  /\ state' = "kRunning"
  /\ call' = [call EXCEPT ![c] = [@ EXCEPT !.pc = "started", !.hthread = t]]
  /\ UNCHANGED <<mutex, maxAttempts, exitCode, process>>

\* The subclass learned that its worker runs, installs the retry factory for
\* the next stop() (without mutex_) and returns S_OK.
StartSucceeds(c) ==
  /\ At(c, "started")
  /\ maxAttempts' = StartedAttempts
  /\ call' = [call EXCEPT ![c] = Returned("S_OK")]
  /\ UNCHANGED <<state, data, mutex, worker, exitCode, handles, process>>

\* No memory for that factory: the subclass ends the process.
FactoryAllocationFails(c) ==
  /\ At(c, "started")
  /\ "memory" \in Faults
  /\ process' = "outOfMemory"
  /\ UNCHANGED <<state, data, mutex, maxAttempts, call, worker, exitCode, handles>>

\* The worker reported that it could not start: reapThreadAfterStartFailure()
\* takes mutex_ again.
StartFails(c) ==
  /\ At(c, "started")
  /\ mutex = NoCaller
  /\ mutex' = c
  /\ state' = "kStopping"
  /\ call' = [call EXCEPT ![c] = [@ EXCEPT !.pc = "startWait", !.hr = "START_FAILED"]]
  /\ UNCHANGED <<data, maxAttempts, worker, exitCode, handles, process>>

StartFailureExited(c) ==
  /\ At(c, "startWait")
  /\ WaitReturns(call[c].hthread, "S_OK")
  /\ call' = [call EXCEPT ![c].pc = "startReap"]
  /\ UNCHANGED <<state, data, mutex, maxAttempts, worker, exitCode, handles, process>>

\* The single bounded wait timed out or failed.
StartFailureNotExited(c) ==
  /\ At(c, "startWait")
  /\ \E result \in WaitFailures : WaitReturns(call[c].hthread, result)
  /\ GiveUp(c, "START_FAILED", "startReapExpired")

-----------------------------------------------------------------------------
(* stop()                                                                  *)

\* A subclass rejects at least the calls for which StopAllowed is false.
StopRejected(c) ==
  /\ AcquireFree(c)
  /\ call' = [call EXCEPT ![c] = Returned("ERROR_INVALID_OPERATION")]
  /\ UNCHANGED <<state, data, mutex, maxAttempts, worker, exitCode, handles, process>>

\* Assumption about the callers: a controller is stopped only after start()
\* returned, as AppContext does from the one thread that calls both.  Nothing
\* in the class prevents it: mutex_ is free between the two halves of start().
NoUnfinishedStart == \A c \in Callers : ~At(c, "started")

StopEnters(c) ==
  /\ AcquireFree(c)
  /\ StopAllowed
  /\ NoUnfinishedStart
  /\ mutex' = c
  /\ state' = "kStopping"
  /\ call' = [call EXCEPT ![c] = [pc |-> "post", hthread |-> data, attempts |-> 0,
                                  limit |-> maxAttempts, hr |-> "S_OK"]]
  /\ UNCHANGED <<data, maxAttempts, worker, exitCode, handles, process>>

\* retry_factory_->make() threw bad_alloc.
RetryAllocationFails(c) ==
  /\ AcquireFree(c)
  /\ StopAllowed
  /\ NoUnfinishedStart
  /\ "memory" \in Faults
  /\ process' = "outOfMemory"
  /\ UNCHANGED <<state, data, mutex, maxAttempts, call, worker, exitCode, handles>>

Retryable_OnlySuccess(rc) == rc = "TRUE"

\* A failure to post other than ERROR_NOT_ENOUGH_QUOTA is not retried.
Retryable(rc) == rc # "FALSE"

PostError(rc) == CASE rc = "TRUE"  -> "S_OK"
                   [] rc = "QUOTA" -> "ERROR_NOT_ENOUGH_QUOTA"
                   [] rc = "FALSE" -> "POST_FAILED"

PostStopMessage(c, rc) ==
  /\ At(c, "post")
  /\ call' = [call EXCEPT ![c] =
       [@ EXCEPT !.pc = IF Retryable(rc) THEN "wait" ELSE "lastWait", !.hr = PostError(rc)]]
  /\ UNCHANGED <<state, data, mutex, maxAttempts, worker, exitCode, handles, process>>

WaitSignaled(c) ==
  /\ At(c, "wait") \/ At(c, "lastWait")
  /\ WaitReturns(call[c].hthread, "S_OK")
  /\ call' = [call EXCEPT ![c] = [@ EXCEPT !.pc = "reap", !.hr = "S_OK"]]
  /\ UNCHANGED <<state, data, mutex, maxAttempts, worker, exitCode, handles, process>>

\* The wait timed out (or failed): another attempt, or the retry state expired.
WaitNotSignaled(c) ==
  /\ At(c, "wait") \/ At(c, "lastWait")
  /\ \E result \in WaitFailures :
       LET next == IF At(c, "wait") THEN AdvanceAttempt(call[c]) ELSE ForceExpire(call[c])
           hr   == FirstFailure(call[c].hr, result)
       IN  /\ WaitReturns(call[c].hthread, result)
           /\ \/ /\ Available(next)
                 /\ call' = [call EXCEPT ![c] = [next EXCEPT !.pc = "post", !.hr = hr]]
                 /\ UNCHANGED <<state, data, mutex, maxAttempts, worker, exitCode,
                                handles, process>>
              \/ /\ ~Available(next)
                 /\ GiveUp(c, hr, "retryExpired")

\* The result of a start() whose worker failed is the worker's; that of
\* reapThread() is dropped.
ReapResult(c, hr) == IF At(c, "startReap") THEN call[c].hr ELSE hr

\* The handle is closed and forgotten.
ReleaseThread(t) ==
  /\ handles' = handles \ {t}
  /\ data' = NoThread
  /\ state' = "kReady"

\* reapThread(): GetExitCodeThread, then CloseHandle.
Reap(c) ==
  /\ At(c, "reap") \/ At(c, "startReap")
  /\ call[c].hthread \in handles
  /\ \/ Return(c, ReapResult(c, exitCode[call[c].hthread]))
     \/ /\ HandleCallFails(call[c].hthread)
        /\ Return(c, ReapResult(c, "GET_EXIT_CODE_FAILED"))
  /\ ReleaseThread(call[c].hthread)
  /\ UNCHANGED <<maxAttempts, worker, exitCode, process>>

\* CloseHandle failed: the handle stays in data_ and state_ at kStopping.
CloseFails(c) ==
  /\ At(c, "reap") \/ At(c, "startReap")
  /\ HandleCallFails(call[c].hthread)
  /\ Return(c, ReapResult(c, "CLOSE_FAILED"))
  /\ UNCHANGED <<state, data, maxAttempts, worker, exitCode, handles, process>>

-----------------------------------------------------------------------------
(* The worker thread.                                                      *)

WorkerExits(t, code) ==
  /\ worker[t] = "running"
  /\ worker' = [worker EXCEPT ![t] = "exited"]
  /\ exitCode' = [exitCode EXCEPT ![t] = code]
  /\ UNCHANGED <<state, data, mutex, maxAttempts, call, handles, process>>

\* A callback on the worker calls stop(): it blocks on mutex_ ...
WorkerCallsStop(t) ==
  /\ worker[t] = "running"
  /\ worker' = [worker EXCEPT ![t] = "inStop"]
  /\ UNCHANGED <<state, data, mutex, maxAttempts, call, exitCode, handles, process>>

\* ... and is rejected, by state_ or by validateThreadAccess().
WorkerStopRejected(t) ==
  /\ worker[t] = "inStop"
  /\ mutex = NoCaller
  /\ ~StopAllowed \/ data = t
  /\ worker' = [worker EXCEPT ![t] = "running"]
  /\ UNCHANGED <<state, data, mutex, maxAttempts, call, exitCode, handles, process>>

-----------------------------------------------------------------------------
Destroy_Unchecked ==
  /\ \A c \in Callers : At(c, "idle")
  /\ process' = "destroyed"
  /\ UNCHANGED <<state, data, mutex, maxAttempts, call, worker, exitCode, handles>>

\* ~MessageLoopThreadController(): fatal if a thread was not reaped.
Destroy ==
  /\ \A c \in Callers : At(c, "idle")
  /\ process' = IF data = NoThread THEN "destroyed" ELSE "notReaped"
  /\ UNCHANGED <<state, data, mutex, maxAttempts, call, worker, exitCode, handles>>

Terminated ==
  /\ process # "alive"
  /\ UNCHANGED baseVars

StartStep(c) == \/ StartRejected(c)
                \/ BeginFails(c)
                \/ \E t \in Thread : BeginThread(c, t)

StartContinues(c) == \/ StartSucceeds(c)
                     \/ FactoryAllocationFails(c)
                     \/ StartFails(c)
                     \/ StartFailureExited(c)
                     \/ StartFailureNotExited(c)

StopStep(c) == \/ StopRejected(c)
               \/ StopEnters(c)
               \/ RetryAllocationFails(c)

StopContinues(c) == \/ \E rc \in {"TRUE", "QUOTA", "FALSE"} : PostStopMessage(c, rc)
                    \/ WaitSignaled(c)
                    \/ WaitNotSignaled(c)
                    \/ Reap(c)
                    \/ CloseFails(c)

WorkerStep(t) == \/ \E code \in ExitCodes : WorkerExits(t, code)
                 \/ WorkerCallsStop(t)
                 \/ WorkerStopRejected(t)

Next ==
  \/ /\ process = "alive"
     /\ \/ \E c \in Callers : \/ StartStep(c)
                              \/ StartContinues(c)
                              \/ StopStep(c)
                              \/ StopContinues(c)
        \/ \E t \in Thread : WorkerStep(t)
        \/ Destroy
  \/ Terminated

Spec == Init /\ [][Next]_baseVars

\* Threads run: the call that holds mutex_ goes on, a finite wait returns, the
\* start() that began a thread goes on, the worker (there is one at a time)
\* eventually leaves its loop and a callback of it returns.
Fairness ==
  /\ WF_baseVars(process = "alive" /\ \E c \in Callers : StopContinues(c))
  /\ WF_baseVars(process = "alive" /\ \E c \in Callers : StartContinues(c))
  /\ SF_baseVars(process = "alive" /\ \E t \in Thread : WorkerStopRejected(t))
  /\ SF_baseVars(process = "alive" /\ \E t \in Thread, code \in ExitCodes : WorkerExits(t, code))

FairSpec == Spec /\ Fairness

\* Clients that do not give up: stop() is called again after a failed one, and
\* the calls on the handle of a thread that exited do not fail for ever.
PersistentSpec ==
  /\ FairSpec
  /\ SF_baseVars(process = "alive" /\ \E c \in Callers : StopEnters(c))
  /\ SF_baseVars(process = "alive" /\ \E c \in Callers : WaitSignaled(c))
  /\ SF_baseVars(process = "alive" /\ \E c \in Callers : Reap(c))

-----------------------------------------------------------------------------
(* Properties.                                                             *)

Call == [pc : Points, hthread : Thread \cup {NoThread}, attempts : Nat,
         limit : Nat, hr : Results]

\* Every variable holds a value the code's types allow.
TypeOK ==
  /\ state \in {"kReady", "kRunning", "kStopping"}
  /\ data \in Thread \cup {NoThread}
  /\ mutex \in Callers \cup {NoCaller}
  /\ maxAttempts \in Nat
  /\ call \in [Callers -> Call]
  /\ worker \in [Thread -> {"none", "running", "inStop", "exited"}]
  /\ exitCode \in [Thread -> ExitCodes]
  /\ handles \in SUBSET Thread
  /\ process \in {"alive", "destroyed", "outOfMemory", "retryExpired",
                 "startReapExpired", "notReaped"}

\* The handle in data_ is the one open thread handle (none leaks, none
\* dangles), and the controller is ready exactly when there is none: whatever
\* start(), stop() and their failures did before.
HandleMatchesState ==
  /\ handles = IF data = NoThread THEN {} ELSE {data}
  /\ state = "kReady" <=> data = NoThread

\* A worker that runs is the one in data_: start() never begins a second one
\* beside it, reapThread() never forgets one that runs, and a stop() made by a
\* worker always meets its own thread id in validateThreadAccess().
SingleWorker == \A t \in Thread : worker[t] \in {"running", "inStop"} => t = data

\* A caller that stops or reaps a thread holds mutex_ for as long as it waits,
\* finds state_ at kStopping (the assertions of stopThread() and reapThread()),
\* and works on the thread in data_; it closes only the handle of a thread that
\* exited.  A caller between the two critical sections of start() finds the
\* thread it began still running the controller, and is the only such caller.
CallsOwnTheirThread ==
  /\ \A c \in Callers : call[c].pc \in Locked =>
       /\ mutex = c
       /\ state = "kStopping"
       /\ call[c].hthread = data
       /\ call[c].pc \in {"reap", "startReap"} => worker[data] = "exited"
  /\ \A c \in Callers : At(c, "started") =>
       /\ state = "kRunning"
       /\ call[c].hthread = data
       /\ \A other \in Callers : At(other, "started") => other = c

\* Whatever calls, failures and timeouts came before, the controller, its one
\* worker, its one handle and the caller in its critical section agree.
ControllerInv == TypeOK /\ HandleMatchesState /\ SingleWorker /\ CallsOwnTheirThread

\* The caller c returns from stop() with hr in this step.
ReturnsFromStop(c, hr) == /\ call[c].pc \in {"wait", "lastWait", "reap"}
                          /\ call'[c] = Returned(hr)

\* A stop() that reports success reaped a worker that exited with S_OK.
SuccessReportsExit ==
  \A c \in Callers : ReturnsFromStop(c, "S_OK") =>
    /\ worker[call[c].hthread] = "exited"
    /\ exitCode[call[c].hthread] = "S_OK"
    /\ state' = "kReady"

\* stop() reports success only for a worker that exited, and with S_OK, and
\* never for one that is still running or that failed.
StopReportsExit == [][SuccessReportsExit]_baseVars

\* What a stop() can fail with, apart from the exit code of its worker.
StopFailures == {"ERROR_NOT_ENOUGH_QUOTA", "ERROR_TIMEOUT", "POST_FAILED",
                 "WAIT_FAILED", "CLOSE_FAILED"}

\* A stop() that fails so leaves its thread where the next stop() finds it.
FailureKeepsThread ==
  \A c \in Callers : \A hr \in StopFailures :
    ReturnsFromStop(c, hr) => /\ StopAllowed'
                              /\ data' = call[c].hthread
                              /\ data' \in handles'

\* A stop() that fails for another reason than the worker's own exit code
\* keeps the thread: it stays in data_, open, and stop() may be called again.
FailedStopKeepsThread == [][FailureKeepsThread]_baseVars

\* stop() returns: the retry state bounds its attempts even if the worker
\* never exits, posting keeps failing, or the worker blocks on mutex_ itself.
StopReturns ==
  \A c \in Callers : At(c, "post") ~> At(c, "idle") \/ process # "alive"

\* A thread that is being stopped can always be reclaimed: a client that
\* repeats stop() gets the controller back to kReady, whatever failed before.
Reclaimable == state = "kStopping" ~> state = "kReady" \/ process # "alive"

-----------------------------------------------------------------------------
(* The controller implements the abstract life cycle of its thread.        *)

Lifecycle == INSTANCE ThreadLifecycle WITH
  ThreadIds <- Thread,
  None      <- NoThread,
  owned     <- data,
  live      <- {t \in Thread : worker[t] \in {"running", "inStop"}},
  over      <- CASE process = "alive"     -> "no"
                 [] process = "destroyed" -> "destroyed"
                 [] OTHER                 -> "gaveUp"

\* Locks, retries, waits and failures of the controller never show more than
\* the life cycle of one thread: begun alone, ended, then let go of.
ImplementsLifecycle == Lifecycle!LifecycleSpec

=============================================================================
