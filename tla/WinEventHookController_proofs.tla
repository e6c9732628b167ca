------------------- MODULE WinEventHookController_proofs -------------------
(***************************************************************************)
(* Proofs about WinEventHookController for any number of callers and       *)
(* threads: every step of it is a step of the base class, so what is       *)
(* proved of the base class holds for it; the worker never outlives the    *)
(* ThreadContext it reports through; no hook is left when the controller   *)
(* is ready.  The inductive invariant, HookInv, ties the point a worker is *)
(* at to whether it runs, to its context and to its hook.                  *)
(***************************************************************************)
EXTENDS WinEventHookController, MessageLoopThreadController_proofs

WorkerMatches(t) ==
  /\ at[t] = "none" <=> worker[t] = "none"
  /\ at[t] \in {"begin", "hooked", "failed", "unhook"} => worker[t] = "running"
  /\ at[t] = "pump" => worker[t] \in {"running", "inStop"}
  /\ at[t] = "ended" => worker[t] \in {"running", "exited"}
  /\ at[t] \in {"none", "begin", "hooked", "failed"} => context[t] = "E_PENDING"
  /\ t \in hooks => worker[t] \in {"running", "inStop"}

HookInv == /\ HookTypeOK
           /\ Targets
           /\ \A t \in Thread : WorkerMatches(t)
           /\ ContextAlive

\* A step of the hook's worker that is not its exit leaves the base class alone.
LEMMA WorkerLeavesBase ==
  ASSUME NEW t \in Thread, HookWorker(t), ~EndThread(t)
  PROVE  UNCHANGED baseVars
BY DEF HookWorker, SetHook, Notify, NotifyLastError, LeaveLoop, Unhook

\* Each step is a step of the base class or leaves its state alone.
LEMMA HookStepIsBaseStep == HookTypeOK /\ [HookNext]_vars => [Next]_baseVars
<1> SUFFICES ASSUME HookTypeOK, [HookNext]_vars
             PROVE  [Next]_baseVars
  OBVIOUS
<1>1. ASSUME NEW c \in Callers, process = "alive", HookStart(c)
      PROVE  Next
  BY <1>1 DEF HookStart, Next, StartStep
<1>2. ASSUME NEW c \in Callers, process = "alive", HookStartContinues(c)
      PROVE  Next
  BY <1>2 DEF HookStartContinues, Next, StartContinues
<1>3. ASSUME NEW c \in Callers, process = "alive", HookStop(c)
      PROVE  Next
  BY <1>3 DEF HookStop, Next, StopStep
<1>4. ASSUME NEW c \in Callers, process = "alive", HookStopContinues(c)
      PROVE  Next
  BY <1>4 DEF HookStopContinues, PostThreadMessage, Next, StopContinues
<1>5. ASSUME NEW t \in Thread, process = "alive", HookWorker(t)
      PROVE  [Next]_baseVars
  <2>1. CASE EndThread(t)
    BY <1>5, <2>1 DEF EndThread, HookTypeOK, Next, WorkerStep
  <2> QED BY <1>5, <2>1, WorkerLeavesBase
<1>6. ASSUME NEW t \in Thread, process = "alive", CallbackStop(t)
      PROVE  Next
  BY <1>6 DEF CallbackStop, Next, WorkerStep
<1>7. CASE process = "alive" /\ Destroy
  BY <1>7 DEF Next
<1>8. CASE Terminated
  BY <1>8 DEF Next
<1>9. CASE UNCHANGED vars
  BY <1>9 DEF vars
<1> QED BY <1>1, <1>2, <1>3, <1>4, <1>5, <1>6, <1>7, <1>8, <1>9 DEF HookNext

\* Callers leave the worker alone, and go on from "started" only once the
\* worker has reported.
LEMMA CallerStepHookInv ==
  ASSUME HookInv, TypeOK', Targets', UNCHANGED <<at, context, hooks, loopHr, worker>>,
         quit' \in SUBSET Thread,
         \A d \in Callers : At(d, "started") /\ context[call[d].hthread] = "E_PENDING"
                              => call'[d] = call[d]
  PROVE  HookInv'
<1>1. HookTypeOK' /\ \A t \in Thread : WorkerMatches(t)'
  BY DEF HookInv, HookTypeOK, WorkerMatches
<1>2. ContextAlive'
  <2> SUFFICES ASSUME NEW t \in Thread, at[t] \in {"begin", "hooked", "failed"}
               PROVE  \E c \in Callers : call'[c].pc = "started" /\ call'[c].hthread = t
    BY DEF ContextAlive, At
  <2>1. PICK c \in Callers : At(c, "started") /\ call[c].hthread = t
    BY DEF HookInv, ContextAlive
  <2>2. call'[c] = call[c]
    BY <2>1 DEF HookInv, WorkerMatches
  <2> QED BY <2>1, <2>2 DEF At
<1> QED BY <1>1, <1>2 DEF HookInv

\* A start() that begins a worker keeps its ThreadContext for it.
LEMMA HookStartInv ==
  ASSUME HookInv, TypeOK', Targets', NEW c \in Callers, HookStart(c)
  PROVE  HookInv'
<1>1. CASE (StartRejected(c) \/ BeginFails(c)) /\ UNCHANGED hookVars
  BY <1>1, CallerStepHookInv
  DEF StartRejected, BeginFails, AcquireFree, At, hookVars, HookInv, HookTypeOK, TypeOK
<1>2. ASSUME NEW t \in Thread, BeginThread(c, t), Goto(t, "begin"),
             UNCHANGED <<context, hooks, quit, loopHr>>
      PROVE  HookInv'
  <2>1. /\ at[t] = "none" /\ at' = [at EXCEPT ![t] = "begin"]
        /\ worker' = [worker EXCEPT ![t] = "running"]
        /\ call'[c].pc = "started" /\ call'[c].hthread = t
        /\ \A d \in Callers : At(d, "started") => call'[d] = call[d]
    BY <1>2 DEF BeginThread, AcquireFree, Goto, At, HookInv, HookTypeOK, TypeOK, Call,
                WorkerMatches
  <2>2. HookTypeOK'
    BY <1>2, <2>1 DEF HookInv, HookTypeOK, WorkerPoints
  <2>3. \A u \in Thread : WorkerMatches(u)'
    BY <1>2, <2>1 DEF HookInv, HookTypeOK, TypeOK, WorkerMatches
  <2>4. ContextAlive'
    BY <2>1 DEF HookInv, HookTypeOK, ContextAlive, At
  <2> QED BY <2>2, <2>3, <2>4 DEF HookInv
<1> QED BY <1>1, <1>2 DEF HookStart

\* Every other step of a caller leaves the worker alone, and a start() goes on
\* only after the worker stored its result.
LEMMA HookCallerInv ==
  ASSUME HookInv, TypeOK', Targets', NEW c \in Callers,
         HookStartContinues(c) \/ HookStop(c) \/ HookStopContinues(c)
  PROVE  HookInv'
<1> USE DEF At, HookInv, HookTypeOK, TypeOK
<1>1. CASE HookStartContinues(c)
  BY <1>1, CallerStepHookInv
  DEF HookStartContinues, WaitAndLoad, StartSucceeds, FactoryAllocationFails, StartFails,
      StartFailureExited, StartFailureNotExited, GiveUp, Return, hookVars
<1>2. CASE HookStop(c)
  BY <1>2, CallerStepHookInv
  DEF HookStop, StopRejected, StopEnters, RetryAllocationFails, AcquireFree, hookVars
<1>3. CASE PostThreadMessage(c)
  <2>1. /\ UNCHANGED <<at, context, hooks, loopHr, worker>>
        /\ \A d \in Callers \ {c} : call'[d] = call[d]
        /\ call[c].pc = "post"
    BY <1>3 DEF PostThreadMessage, PostStopMessage
  <2>2. quit' \in SUBSET Thread
    BY <1>3 DEF PostThreadMessage, PostStopMessage, Targets
  <2> QED BY <2>1, <2>2, CallerStepHookInv
<1>4. CASE (WaitSignaled(c) \/ WaitNotSignaled(c)) /\ UNCHANGED hookVars
  BY <1>4, CallerStepHookInv DEF WaitSignaled, WaitNotSignaled, GiveUp, Return, hookVars
<1>5. CASE (Reap(c) \/ CloseFails(c)) /\ UNCHANGED hookVars
  BY <1>5, CallerStepHookInv DEF Reap, CloseFails, Return, hookVars
<1> QED BY <1>1, <1>2, <1>3, <1>4, <1>5 DEF HookStopContinues

\* The worker's own steps.
LEMMA HookWorkerInv ==
  ASSUME HookInv, TypeOK', Targets', NEW t \in Thread, HookWorker(t) \/ CallbackStop(t)
  PROVE  HookInv'
<1>1. UNCHANGED call
  BY DEF HookWorker, CallbackStop, SetHook, Notify, NotifyLastError, LeaveLoop, Unhook, EndThread,
         WorkerExits, WorkerCallsStop, WorkerStopRejected, baseVars
<1>2. ASSUME \A u \in Thread : at'[u] \in {"begin", "hooked", "failed"}
                                => at[u] \in {"begin", "hooked", "failed"}
      PROVE  ContextAlive'
  BY <1>1, <1>2 DEF HookInv, ContextAlive, At
<1> USE DEF HookInv, HookTypeOK, TypeOK, WorkerMatches, Goto
<1>3. CASE SetHook(t)
  <2>1. HookTypeOK' /\ \A u \in Thread : WorkerMatches(u)'
    BY <1>3 DEF SetHook, WorkerPoints, baseVars
  <2> QED BY <1>2, <1>3, <2>1 DEF SetHook
<1>4. CASE Notify(t)
  <2>1. HookTypeOK' /\ \A u \in Thread : WorkerMatches(u)'
    BY <1>4 DEF Notify, WorkerPoints, baseVars
  <2> QED BY <1>2, <1>4, <2>1 DEF Notify
<1>5. CASE NotifyLastError(t)
  <2>1. HookTypeOK' /\ \A u \in Thread : WorkerMatches(u)'
    BY <1>5 DEF NotifyLastError, WorkerPoints, baseVars, ExitCodes
  <2> QED BY <1>2, <1>5, <2>1 DEF NotifyLastError
<1>6. CASE LeaveLoop(t)
  <2>1. HookTypeOK' /\ \A u \in Thread : WorkerMatches(u)'
    BY <1>6 DEF LeaveLoop, WorkerPoints, baseVars, ExitCodes
  <2> QED BY <1>2, <1>6, <2>1 DEF LeaveLoop
<1>7. CASE Unhook(t)
  <2>1. HookTypeOK' /\ \A u \in Thread : WorkerMatches(u)'
    BY <1>7 DEF Unhook, WorkerPoints, baseVars, ExitCodes, FirstFailure
  <2> QED BY <1>2, <1>7, <2>1 DEF Unhook
<1>8. CASE EndThread(t)
  <2>1. HookTypeOK' /\ \A u \in Thread : WorkerMatches(u)'
    BY <1>8 DEF EndThread, WorkerExits
  <2> QED BY <1>2, <1>8, <2>1 DEF EndThread
<1>9. CASE CallbackStop(t)
  <2>1. HookTypeOK' /\ \A u \in Thread : WorkerMatches(u)'
    BY <1>9 DEF CallbackStop, WorkerCallsStop, WorkerStopRejected, hookVars, WorkerPoints
  <2> QED BY <1>2, <1>9, <2>1 DEF CallbackStop, hookVars
<1> QED BY <1>3, <1>4, <1>5, <1>6, <1>7, <1>8, <1>9 DEF HookWorker

LEMMA HookInvStep == HookInv /\ [HookNext]_vars => HookInv'
<1> SUFFICES ASSUME HookInv, [HookNext]_vars
             PROVE  HookInv'
  OBVIOUS
<1>1. TypeOK' /\ Targets'
  BY HookStepIsBaseStep, TypeStep, TargetsStep DEF HookInv, HookTypeOK
<1>2. CASE UNCHANGED <<call, worker, hookVars>>
  BY <1>1, <1>2, CallerStepHookInv DEF hookVars, HookInv, HookTypeOK
<1> QED BY <1>1, <1>2, HookStartInv, HookCallerInv, HookWorkerInv
        DEF HookNext, Destroy, Terminated, vars, baseVars

THEOREM HookInvCorrect == HookSpec => []HookInv
<1>1. HookInit => HookInv
  <2> SUFFICES ASSUME HookInit
               PROVE  HookInv
    OBVIOUS
  <2>1. TypeOK
    BY ControllerAssumption DEF HookInit, Init, TypeOK, Returned, Call, Points, Results, ExitCodes
  <2> QED BY <2>1 DEF HookInit, Init, HookInv, HookTypeOK, Targets, WorkerMatches,
                      ContextAlive, Returned,
                      WorkerPoints, ExitCodes
<1> QED BY <1>1, HookInvStep, PTL DEF HookSpec

\* What holds of the base class holds of this subclass.
THEOREM ImplementsBaseCorrect == HookSpec => ImplementsBase
<1>1. HookInit => Init
  BY DEF HookInit
<1>2. HookInv /\ [HookNext]_vars => [Next]_baseVars
  BY HookStepIsBaseStep DEF HookInv
<1> QED BY <1>1, <1>2, HookInvCorrect, PTL DEF HookSpec, ImplementsBase, Spec

\* A worker that has yet to use its ThreadContext finds the start() that holds
\* it waiting, however many callers and restarts there are.
THEOREM ContextAliveCorrect == HookSpec => []ContextAlive
BY HookInvCorrect, PTL DEF HookInv

\* A controller that is ready has no hook: no event callback outlives stop().
THEOREM NoHookWhenReadyCorrect == HookSpec => []NoHookWhenReady
<1>1. HookInv /\ ControllerInv => NoHookWhenReady
  BY NoThreadIsNoThread DEF HookInv, HookTypeOK, WorkerMatches, ControllerInv, HandleMatchesState, SingleWorker,
                            NoHookWhenReady
<1> QED BY <1>1, HookInvCorrect, ImplementsBaseCorrect, ControllerInvCorrect, PTL DEF ImplementsBase

\* mutex_ is released at kStopping only by a caller whose CloseHandle failed,
\* and a caller gets as far as that only with a worker that exited.
LEMMA NotLeftRunningStep ==
  ControllerInv /\ ControllerInv' /\ NotLeftRunning /\ [Next]_baseVars => NotLeftRunning'
<1> SUFFICES ASSUME ControllerInv, ControllerInv', NotLeftRunning, [Next]_baseVars,
                    process' = "alive", state' = "kStopping", mutex' = NoCaller
             PROVE  OnlyHandleLeft'
  BY DEF NotLeftRunning
<1> USE DEF OnlyHandleLeft
<1>0. data' # NoThread /\ TypeOK
  BY DEF ControllerInv, HandleMatchesState
<1>1. ASSUME NEW c \in Callers, process = "alive", StartStep(c)
      PROVE  OnlyHandleLeft'
  BY <1>0, <1>1 DEF StartStep, StartRejected, BeginFails, BeginThread, NotLeftRunning
<1>2. ASSUME NEW c \in Callers, process = "alive", StartContinues(c)
      PROVE  OnlyHandleLeft'
  <2>1. CASE StartSucceeds(c) \/ FactoryAllocationFails(c)
    BY <1>0, <1>2, <2>1 DEF StartSucceeds, FactoryAllocationFails, NotLeftRunning
  <2>2. CASE StartFails(c)
    BY <2>2, ControllerAssumption DEF StartFails
  <2>3. CASE StartFailureExited(c)
    BY <1>0, <1>2, <2>3 DEF StartFailureExited, NotLeftRunning
  <2>4. CASE StartFailureNotExited(c)
    BY <2>4, HookAssumption DEF StartFailureNotExited, GiveUp
  <2> QED BY <1>2, <2>1, <2>2, <2>3, <2>4 DEF StartContinues
<1>3. ASSUME NEW c \in Callers, process = "alive", StopStep(c)
      PROVE  OnlyHandleLeft'
  BY <1>0, <1>3, ControllerAssumption
  DEF StopStep, StopRejected, StopEnters, RetryAllocationFails, NotLeftRunning
<1>4. ASSUME NEW c \in Callers, process = "alive", StopContinues(c)
      PROVE  OnlyHandleLeft'
  <2>1. CASE (\E rc \in {"TRUE", "QUOTA", "FALSE"} : PostStopMessage(c, rc)) \/ WaitSignaled(c)
    BY <1>0, <1>4, <2>1 DEF PostStopMessage, WaitSignaled, NotLeftRunning
  <2>2. CASE WaitNotSignaled(c)
    <3>1. UNCHANGED <<state, data, mutex, worker>>
      BY <2>2, HookAssumption DEF WaitNotSignaled, GiveUp
    <3> QED BY <1>0, <1>4, <3>1 DEF NotLeftRunning
  <2>3. CASE Reap(c)
    BY <2>3 DEF Reap, ReleaseThread
  <2>4. CASE CloseFails(c)
    BY <1>0, <2>4 DEF CloseFails, At, Locked, ControllerInv, CallsOwnTheirThread
  <2> QED BY <1>4, <2>1, <2>2, <2>3, <2>4 DEF StopContinues
<1>5. ASSUME NEW t \in Thread, process = "alive", WorkerStep(t)
      PROVE  OnlyHandleLeft'
  <2>1. UNCHANGED <<state, data, mutex>> /\ worker[t] # "exited"
    BY <1>5 DEF WorkerStep, WorkerExits, WorkerCallsStop, WorkerStopRejected
  <2>2. worker[data] = "exited"
    BY <1>5, <2>1 DEF NotLeftRunning
  <2>3. worker'[data] = "exited"
    BY <1>0, <1>5, <2>1, <2>2
    DEF TypeOK, WorkerStep, WorkerExits, WorkerCallsStop, WorkerStopRejected
  <2> QED BY <1>0, <2>1, <2>3
<1>6. CASE process = "alive" /\ Destroy
  BY <1>6 DEF Destroy
<1>7. CASE Terminated \/ UNCHANGED baseVars
  BY <1>0, <1>7 DEF Terminated, NotLeftRunning, baseVars
<1> QED BY <1>1, <1>2, <1>3, <1>4, <1>5, <1>6, <1>7 DEF Next

\* No call of the fail-fast controller returns while its thread still runs:
\* what a failing CloseHandle leaves at kStopping is a handle without a thread.
THEOREM NotLeftRunningCorrect == HookSpec => []NotLeftRunning
<1>1. HookInit => NotLeftRunning
  BY DEF HookInit, Init, NotLeftRunning
<1>2. ImplementsBase => [][Next]_baseVars
  BY PTL DEF ImplementsBase, Spec
<1> QED BY <1>1, <1>2, NotLeftRunningStep, ImplementsBaseCorrect, ControllerInvCorrect, PTL
        DEF HookSpec, ImplementsBase

\* The hook thread stays within its start() and its stop().
THEOREM HookSafeCorrect == HookSpec => []HookSafe
BY ContextAliveCorrect, NoHookWhenReadyCorrect, NotLeftRunningCorrect, PTL DEF HookSafe

\* A post is refused for good only by a worker that is ending.
AbandonInv ==
  /\ \A c \in Callers : At(c, "lastWait") => at[call[c].hthread] = "ended"
  /\ AbandonsOnlyAfterLimit

\* A step that neither ends the process so nor brings a caller to its last wait.
LEMMA AbandonKept ==
  ASSUME HookInv, AbandonInv, TypeOK', process = "alive", process' # "retryExpired",
         \A t \in Thread : at[t] = "ended" => at'[t] = "ended",
         \A c \in Callers : At(c, "lastWait")' => At(c, "lastWait") /\ UNCHANGED call[c]
  PROVE  AbandonInv'
BY DEF AbandonInv, AbandonsOnlyAfterLimit, HookInv, HookTypeOK, TypeOK, Call, Targets, At

\* The thread a caller posts to has a message queue until it is ending.
LEMMA PostedThreadHasQueue ==
  ASSUME HookInv, ControllerInv, Begun, NEW c \in Callers, At(c, "post")
  PROVE  at[call[c].hthread] \notin {"none", "begin"}
<1>1. /\ state = "kStopping" /\ call[c].hthread \in Thread
      /\ worker[call[c].hthread] # "none"
  BY NoThreadIsNoThread
  DEF At, Locked, ControllerInv, CallsOwnTheirThread, HookInv, Targets, Begun
<1>2. \A d \in Callers : ~At(d, "started")
  BY <1>1 DEF ControllerInv, CallsOwnTheirThread
<1> QED BY <1>1, <1>2 DEF HookInv, WorkerMatches, ContextAlive

LEMMA PostKeepsAbandonInv ==
  ASSUME HookInv, ControllerInv, Begun, AbandonInv, TypeOK', process = "alive",
         NEW c \in Callers, PostThreadMessage(c)
  PROVE  AbandonInv'
<1> DEFINE t == call[c].hthread
<1>1. PICK rc \in {"TRUE", "QUOTA", "FALSE"} :
        PostStopMessage(c, rc) /\ (rc = "FALSE" => LacksQueue(t))
  BY DEF PostThreadMessage
<1>2. /\ UNCHANGED <<at, mutex, process>>
      /\ At(c, "post")
      /\ \A d \in Callers \ {c} : call'[d] = call[d]
  BY <1>1 DEF PostThreadMessage, PostStopMessage, HookInv, HookTypeOK, TypeOK
<1>3. /\ call'[c].hthread = t
      /\ call'[c].pc = "lastWait" => rc = "FALSE"
  BY <1>1 DEF PostStopMessage, Retryable, HookInv, HookTypeOK, TypeOK, Call
<1>4. call'[c].pc = "lastWait" => at[t] = "ended"
  BY <1>1, <1>2, <1>3, PostedThreadHasQueue DEF LacksQueue
<1> QED BY <1>2, <1>3, <1>4 DEF AbandonInv, AbandonsOnlyAfterLimit, At

LEMMA WaitKeepsAbandonInv ==
  ASSUME HookInv, ControllerInv, AbandonInv, TypeOK', process = "alive",
         NEW c \in Callers, WaitNotSignaled(c), UNCHANGED hookVars
  PROVE  AbandonInv'
<1>1. UNCHANGED at /\ mutex = c
  BY DEF hookVars, WaitNotSignaled, At, Locked, ControllerInv, CallsOwnTheirThread
<1>2. CASE UNCHANGED process
  <2>1. TypeOK
    BY DEF HookInv, HookTypeOK
  <2>2. CASE \E hr : Return(c, hr)
    <3>1. PICK hr : call' = [call EXCEPT ![c] = Returned(hr)]
      BY <2>2 DEF Return
    <3>2. Returned(hr).pc = "idle"
      BY DEF Returned
    <3> QED BY <1>1, <1>2, <2>1, <3>1, <3>2, CallMoves, AbandonKept
  <2>3. CASE ~\E hr : Return(c, hr)
    <3>1. \E next \in {AdvanceAttempt(call[c]), ForceExpire(call[c])} : \E hr :
            call' = [call EXCEPT ![c] = [next EXCEPT !.pc = "post", !.hr = hr]]
      BY <1>2, <2>3 DEF WaitNotSignaled, GiveUp
    <3>2. PICK next \in {AdvanceAttempt(call[c]), ForceExpire(call[c])} :
            \E hr : call' = [call EXCEPT ![c] = [next EXCEPT !.pc = "post", !.hr = hr]]
      BY <3>1
    <3>3. PICK hr : call' = [call EXCEPT ![c] = [next EXCEPT !.pc = "post", !.hr = hr]]
      BY <3>2
    <3>4. [next EXCEPT !.pc = "post", !.hr = hr].pc = "post"
      BY <2>1, PointOf
    <3> QED BY <1>1, <1>2, <2>1, <3>3, <3>4, CallMoves, AbandonKept
  <2> QED BY <2>2, <2>3
<1>3. CASE process' # process
  <2>1. UNCHANGED <<call, mutex>>
    BY <1>3 DEF WaitNotSignaled, GiveUp
  <2>2. ~Available(AdvanceAttempt(call[c])) \/ At(c, "lastWait")
    BY <1>3 DEF WaitNotSignaled, GiveUp, At
  <2> QED BY <1>1, <2>1, <2>2 DEF AbandonInv, AbandonsOnlyAfterLimit, At
<1> QED BY <1>2, <1>3

LEMMA AbandonInvStep ==
  HookInv /\ HookInv' /\ ControllerInv /\ Begun /\ AbandonInv /\ [HookNext]_vars => AbandonInv'
<1> SUFFICES ASSUME HookInv, HookInv', ControllerInv, Begun, AbandonInv, [HookNext]_vars
             PROVE  AbandonInv'
  OBVIOUS
<1>0. TypeOK'
  BY DEF HookInv, HookTypeOK
<1> USE <1>0 DEF hookVars
<1>a. TypeOK
  BY DEF HookInv, HookTypeOK
<1>b. ASSUME NEW c \in Callers, NEW r, process = "alive", r.pc # "lastWait",
             call' = [call EXCEPT ![c] = r], UNCHANGED at, process' # "retryExpired"
      PROVE  AbandonInv'
  BY <1>a, <1>b, CallMoves, AbandonKept
<1>c. ASSUME process = "alive", UNCHANGED <<call, at>>, process' # "retryExpired"
      PROVE  AbandonInv'
  BY <1>c, AbandonKept DEF At
<1>r. ASSUME NEW c \in Callers, NEW hr, process = "alive",
             call' = [call EXCEPT ![c] = Returned(hr)], UNCHANGED at, process' # "retryExpired"
      PROVE  AbandonInv'
  BY <1>b, <1>r DEF Returned
<1>1. ASSUME NEW c \in Callers, process = "alive", HookStart(c)
      PROVE  AbandonInv'
  <2>1. CASE (StartRejected(c) \/ BeginFails(c)) /\ UNCHANGED hookVars
    BY <1>1, <1>r, <2>1 DEF StartRejected, BeginFails
  <2>2. ASSUME NEW t \in Thread, BeginThread(c, t), Goto(t, "begin")
        PROVE  AbandonInv'
    <3>1. [call[c] EXCEPT !.pc = "started", !.hthread = t].pc # "lastWait"
      BY <1>a, PointOf
    <3>2. at[t] = "none" /\ at' = [at EXCEPT ![t] = "begin"] /\ UNCHANGED process
      BY <2>2 DEF BeginThread, Goto, HookInv, WorkerMatches
    <3>3. \A u \in Thread : at[u] = "ended" => at'[u] = "ended"
      BY <3>2 DEF HookInv, HookTypeOK
    <3> QED BY <1>1, <1>a, <2>2, <3>1, <3>2, <3>3, CallMoves, AbandonKept DEF BeginThread
  <2> QED BY <1>1, <2>1, <2>2 DEF HookStart
<1>2. ASSUME NEW c \in Callers, process = "alive", HookStartContinues(c)
      PROVE  AbandonInv'
  <2>1. CASE StartSucceeds(c)
    BY <1>2, <1>r, <2>1 DEF HookStartContinues, StartSucceeds
  <2>2. CASE StartFails(c) \/ StartFailureExited(c)
    <3>1. /\ [call[c] EXCEPT !.pc = "startWait", !.hr = "START_FAILED"].pc # "lastWait"
          /\ [call[c] EXCEPT !.pc = "startReap"].pc # "lastWait"
      BY <1>a, PointOf
    <3> QED BY <1>2, <1>b, <2>2, <3>1 DEF HookStartContinues, StartFails, StartFailureExited
  <2>3. CASE StartFailureNotExited(c)
    BY <1>2, <1>c, <1>r, <2>3 DEF HookStartContinues, StartFailureNotExited, GiveUp, Return
  <2>4. CASE FactoryAllocationFails(c)
    BY <1>2, <1>c, <2>4 DEF HookStartContinues, FactoryAllocationFails
  <2> QED BY <1>2, <2>1, <2>2, <2>3, <2>4 DEF HookStartContinues
<1>3. ASSUME NEW c \in Callers, process = "alive", HookStop(c)
      PROVE  AbandonInv'
  <2>1. CASE StopRejected(c)
    BY <1>3, <1>r, <2>1 DEF HookStop, StopRejected
  <2>2. CASE StopEnters(c)
    BY <1>3, <1>b, <2>2 DEF HookStop, StopEnters
  <2>3. CASE RetryAllocationFails(c)
    BY <1>3, <1>c, <2>3 DEF HookStop, RetryAllocationFails
  <2> QED BY <1>3, <2>1, <2>2, <2>3 DEF HookStop
<1>4. ASSUME NEW c \in Callers, process = "alive", HookStopContinues(c)
      PROVE  AbandonInv'
  <2>1. CASE WaitSignaled(c) /\ UNCHANGED hookVars
    <3>1. [call[c] EXCEPT !.pc = "reap", !.hr = "S_OK"].pc # "lastWait"
      BY <1>a, PointOf
    <3> QED BY <1>4, <1>b, <2>1, <3>1 DEF WaitSignaled
  <2>2. CASE (Reap(c) \/ CloseFails(c)) /\ UNCHANGED hookVars
    BY <1>4, <1>r, <2>2 DEF Reap, CloseFails, Return
  <2> QED BY <1>4, <2>1, <2>2, PostKeepsAbandonInv, WaitKeepsAbandonInv DEF HookStopContinues
<1>5. ASSUME NEW t \in Thread, process = "alive", HookWorker(t) \/ CallbackStop(t)
      PROVE  AbandonInv'
  <2>1. UNCHANGED <<process, call>>
    BY <1>5 DEF HookWorker, SetHook, Notify, NotifyLastError, LeaveLoop, Unhook, EndThread,
                WorkerExits, CallbackStop, WorkerCallsStop, WorkerStopRejected, baseVars
  <2>2. \A u \in Thread : at[u] = "ended" => at'[u] = "ended"
    BY <1>5 DEF HookWorker, SetHook, Notify, NotifyLastError, LeaveLoop, Unhook, EndThread,
                CallbackStop, Goto, HookInv, HookTypeOK
  <2> QED BY <1>5, <2>1, <2>2, AbandonKept DEF At
<1>6. CASE process = "alive" /\ Destroy /\ UNCHANGED hookVars
  BY <1>6, <1>c DEF Destroy
<1>7. CASE UNCHANGED vars
  <2>1. UNCHANGED <<call, at, mutex, process>>
    BY <1>7 DEF vars, baseVars
  <2> QED BY <2>1 DEF AbandonInv, AbandonsOnlyAfterLimit, At
<1> QED BY <1>1, <1>2, <1>3, <1>4, <1>5, <1>6, <1>7 DEF HookNext, Terminated, vars

\* stop() ends the process only after its whole retry limit or when the worker
\* is already ending, whatever callers, failures and restarts came before.
THEOREM AbandonsOnlyAfterLimitCorrect == HookSpec => []AbandonsOnlyAfterLimit
<1>1. HookInit => AbandonInv
  BY DEF HookInit, Init, AbandonInv, AbandonsOnlyAfterLimit, At, Returned
<1>2. AbandonInv => AbandonsOnlyAfterLimit
  BY DEF AbandonInv
<1> QED BY <1>1, <1>2, AbandonInvStep, HookInvCorrect, ImplementsBaseCorrect, ControllerInvCorrect,
           BegunCorrect, PTL
        DEF HookSpec, ImplementsBase

=============================================================================
