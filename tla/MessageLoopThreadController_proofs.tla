---------------- MODULE MessageLoopThreadController_proofs ----------------
(***************************************************************************)
(* Proofs about MessageLoopThreadController for any number of callers and  *)
(* threads, any retry limits, both stop failure policies and any faults.   *)
(*                                                                         *)
(* The inductive invariant, ControllerInv, joins the types, the match of the handle  *)
(* and the state, the only worker and the thread of each unfinished call:  *)
(* none of the last three is inductive without the others.                 *)
(***************************************************************************)
EXTENDS MessageLoopThreadController, TLAPS

\* A thread identifier is never INVALID_HANDLE_VALUE.
LEMMA NoThreadIsNoThread == NoThread \notin Thread
BY ControllerAssumption DEF NoThread, Thread

\* Every step keeps every variable within its type.
LEMMA TypeStep == TypeOK /\ [Next]_baseVars => TypeOK'
<1> SUFFICES ASSUME TypeOK, [Next]_baseVars
             PROVE  TypeOK'
  OBVIOUS
<1> USE DEF TypeOK, Call
<1>0. ASSUME NEW hr \in Results
      PROVE  Returned(hr) \in Call
  BY DEF Returned, Points
<1>a. ASSUME NEW c \in Callers, NEW r \in Call, call' = [call EXCEPT ![c] = r]
      PROVE  call' \in [Callers -> Call]
  BY <1>a
<1>1. ASSUME NEW c \in Callers, NEW hr \in Results, Return(c, hr)
      PROVE  /\ call' \in [Callers -> Call]
             /\ mutex' \in Callers \cup {NoCaller}
  BY <1>0, <1>1 DEF Return
<1>2. ASSUME NEW c \in Callers, NEW hr \in Results, NEW reason \in {"retryExpired", "startReapExpired"},
             GiveUp(c, hr, reason)
      PROVE  TypeOK'
  BY <1>1, <1>2 DEF GiveUp
<1>3. ASSUME NEW c \in Callers, StartStep(c)
      PROVE  TypeOK'
  <2>1. CASE StartRejected(c)
    BY <1>0, <2>1 DEF StartRejected, Results
  <2>2. CASE BeginFails(c)
    BY <1>0, <2>2 DEF BeginFails, Results
  <2>3. CASE \E t \in Thread : BeginThread(c, t)
    <3>1. PICK t \in Thread : BeginThread(c, t)
      BY <2>3
    <3>2. [call[c] EXCEPT !.pc = "started", !.hthread = t] \in Call
      BY DEF Points
    <3>3. call' \in [Callers -> Call]
      BY <1>a, <3>1, <3>2 DEF BeginThread
    <3> QED BY <3>1, <3>3 DEF BeginThread
  <2> QED BY <1>3, <2>1, <2>2, <2>3 DEF StartStep
<1>4. ASSUME NEW c \in Callers, StartContinues(c)
      PROVE  TypeOK'
  <2>1. CASE StartSucceeds(c)
    BY <1>0, <2>1, ControllerAssumption DEF StartSucceeds, Results
  <2>2. CASE FactoryAllocationFails(c)
    BY <2>2 DEF FactoryAllocationFails
  <2>3. CASE StartFails(c)
    <3>1. [call[c] EXCEPT !.pc = "startWait", !.hr = "START_FAILED"] \in Call
      BY DEF Points, Results
    <3>2. call' \in [Callers -> Call]
      BY <1>a, <2>3, <3>1 DEF StartFails
    <3> QED BY <2>3, <3>2 DEF StartFails
  <2>4. CASE StartFailureExited(c)
    BY <2>4 DEF StartFailureExited, Points
  <2>5. CASE StartFailureNotExited(c)
    BY <1>2, <2>5 DEF StartFailureNotExited, Results
  <2> QED BY <1>4, <2>1, <2>2, <2>3, <2>4, <2>5 DEF StartContinues
<1>5. ASSUME NEW c \in Callers, StopStep(c)
      PROVE  TypeOK'
  <2>1. CASE StopRejected(c)
    BY <1>0, <2>1 DEF StopRejected, Results
  <2>2. CASE StopEnters(c)
    BY <2>2 DEF StopEnters, Points, Results
  <2>3. CASE RetryAllocationFails(c)
    BY <2>3 DEF RetryAllocationFails
  <2> QED BY <1>5, <2>1, <2>2, <2>3 DEF StopStep
<1>6. ASSUME NEW c \in Callers, StopContinues(c)
      PROVE  TypeOK'
  <2>1. CASE \E rc \in {"TRUE", "QUOTA", "FALSE"} : PostStopMessage(c, rc)
    <3>1. PICK rc \in {"TRUE", "QUOTA", "FALSE"} : PostStopMessage(c, rc)
      BY <2>1
    <3> DEFINE r == [call[c] EXCEPT !.pc = IF Retryable(rc) THEN "wait" ELSE "lastWait",
                                    !.hr = PostError(rc)]
    <3>2. PostError(rc) \in Results
      BY DEF PostError, Results
    <3>3. r \in Call
      BY <3>2 DEF Points
    <3>4. call' = [call EXCEPT ![c] = r]
      BY <3>1 DEF PostStopMessage
    <3>5. call' \in [Callers -> Call]
      BY <1>a, <3>3, <3>4
    <3> QED BY <3>1, <3>5 DEF PostStopMessage
  <2>2. CASE WaitSignaled(c)
    <3>1. [call[c] EXCEPT !.pc = "reap", !.hr = "S_OK"] \in Call
      BY DEF Points, Results
    <3>2. call' \in [Callers -> Call]
      BY <1>a, <2>2, <3>1 DEF WaitSignaled
    <3> QED BY <2>2, <3>2 DEF WaitSignaled
  <2>3. CASE WaitNotSignaled(c)
    <3> DEFINE next == IF At(c, "wait") THEN AdvanceAttempt(call[c]) ELSE ForceExpire(call[c])
    <3>1. PICK result \in WaitFailures :
            \/ call' = [call EXCEPT ![c] = [next EXCEPT !.pc = "post",
                                            !.hr = FirstFailure(call[c].hr, result)]]
               /\ UNCHANGED <<state, data, mutex, maxAttempts, worker, exitCode, handles, process>>
            \/ GiveUp(c, FirstFailure(call[c].hr, result), "retryExpired")
      BY <2>3 DEF WaitNotSignaled
    <3>2. next \in Call
      BY DEF AdvanceAttempt, ForceExpire
    <3>3. FirstFailure(call[c].hr, result) \in Results
      BY DEF FirstFailure, WaitFailures, Results
    <3>4. [next EXCEPT !.pc = "post", !.hr = FirstFailure(call[c].hr, result)] \in Call
      <4> HIDE DEF next
      <4> QED BY <3>2, <3>3 DEF Points
    <3> HIDE DEF next
    <3> QED BY <1>2, <1>a, <3>1, <3>3, <3>4
  <2>4. CASE Reap(c)
    BY <1>1, <2>4 DEF Reap, ReapResult, ReleaseThread, Results, ExitCodes
  <2>5. CASE CloseFails(c)
    BY <1>1, <2>5 DEF CloseFails, ReapResult, Results
  <2> QED BY <1>6, <2>1, <2>2, <2>3, <2>4, <2>5 DEF StopContinues
<1>7. ASSUME NEW t \in Thread, WorkerStep(t)
      PROVE  TypeOK'
  BY <1>7 DEF WorkerStep, WorkerExits, WorkerCallsStop, WorkerStopRejected
<1>8. CASE Destroy
  BY <1>8 DEF Destroy
<1>9. CASE UNCHANGED baseVars
  BY <1>9 DEF baseVars
<1> QED BY <1>3, <1>4, <1>5, <1>6, <1>7, <1>8, <1>9 DEF Next, Terminated

\* The types hold in every state, whatever the callers, workers and faults do.
THEOREM TypeCorrect == Spec => []TypeOK
<1>1. Init => TypeOK
  BY ControllerAssumption DEF Init, TypeOK, Returned, Call, Points, Results, ExitCodes
<1> QED BY <1>1, TypeStep, PTL DEF Spec

\* stop() posts to and waits for a thread, never for INVALID_HANDLE_VALUE.
Targets == \A c \in Callers : call[c].pc \in {"post", "wait", "lastWait"}
                                 => call[c].hthread \in Thread

\* This needs no other part of the invariant, and no assumption.
LEMMA TargetsStep == TypeOK /\ Targets /\ [Next]_baseVars => Targets'
<1> SUFFICES ASSUME TypeOK, Targets, [Next]_baseVars, NEW c \in Callers,
                    call'[c].pc \in {"post", "wait", "lastWait"}
             PROVE  call'[c].hthread \in Thread
  BY DEF Targets
<1> USE DEF TypeOK, Targets, At
<1>1. CASE call'[c] = call[c]
  BY <1>1
<1>2. ASSUME NEW d \in Callers, StartStep(d) \/ StartContinues(d)
      PROVE  call'[c] = call[c]
  <2>1. /\ call'[d].pc \notin {"post", "wait", "lastWait"} \/ call'[d] = call[d]
        /\ \A e \in Callers \ {d} : call'[e] = call[e]
    <3>0. CASE StartRejected(d) \/ BeginFails(d)
      BY <3>0 DEF StartRejected, BeginFails, Returned
    <3>1. ASSUME NEW t \in Thread, BeginThread(d, t)
          PROVE  call'[d].pc = "started" /\ \A e \in Callers \ {d} : call'[e] = call[e]
      BY <3>1 DEF BeginThread, Call
    <3>2. CASE StartSucceeds(d) \/ FactoryAllocationFails(d)
      BY <3>2 DEF StartSucceeds, FactoryAllocationFails, Returned
    <3>3. CASE StartFails(d) \/ StartFailureExited(d)
      BY <3>3 DEF StartFails, StartFailureExited, Call
    <3>4. CASE StartFailureNotExited(d)
      BY <3>4 DEF StartFailureNotExited, GiveUp, Return, Returned
    <3> QED BY <1>2, <3>0, <3>1, <3>2, <3>3, <3>4 DEF StartStep, StartContinues
  <2> QED BY <2>1
<1>3. ASSUME NEW d \in Callers, StopStep(d)
      PROVE  call'[c].hthread \in Thread
  BY <1>3 DEF StopStep, StopRejected, StopEnters, RetryAllocationFails, StopAllowed, Returned
<1>4. ASSUME NEW d \in Callers, StopContinues(d)
      PROVE  call'[c].hthread \in Thread
  <2>1. CASE \E rc \in {"TRUE", "QUOTA", "FALSE"} : PostStopMessage(d, rc)
    BY <2>1 DEF PostStopMessage, Call
  <2>2. CASE WaitSignaled(d)
    BY <2>2 DEF WaitSignaled, Call
  <2>3. CASE WaitNotSignaled(d)
    <3> DEFINE next == IF At(d, "wait") THEN AdvanceAttempt(call[d]) ELSE ForceExpire(call[d])
    <3>1. PICK result \in WaitFailures :
            \/ call' = [call EXCEPT ![d] = [next EXCEPT !.pc = "post",
                                            !.hr = FirstFailure(call[d].hr, result)]]
            \/ GiveUp(d, FirstFailure(call[d].hr, result), "retryExpired")
      BY <2>3 DEF WaitNotSignaled
    <3>2. next \in Call /\ next.hthread = call[d].hthread
      BY DEF AdvanceAttempt, ForceExpire, Call
    <3>3. call[d].hthread \in Thread
      BY <2>3 DEF WaitNotSignaled
    <3>4. CASE GiveUp(d, FirstFailure(call[d].hr, result), "retryExpired")
      BY <3>4 DEF GiveUp, Return, Returned
    <3>5. CASE call' = [call EXCEPT ![d] = [next EXCEPT !.pc = "post",
                                            !.hr = FirstFailure(call[d].hr, result)]]
      <4> HIDE DEF next
      <4>1. call'[d].hthread = call[d].hthread /\ \A e \in Callers \ {d} : call'[e] = call[e]
        BY <3>2, <3>5 DEF Call
      <4> QED BY <3>3, <4>1
    <3> QED BY <3>1, <3>4, <3>5
  <2>4. CASE Reap(d) \/ CloseFails(d)
    BY <2>4 DEF Reap, CloseFails, Return, Returned
  <2> QED BY <1>4, <2>1, <2>2, <2>3, <2>4 DEF StopContinues
<1> QED BY <1>1, <1>2, <1>3, <1>4
        DEF Next, WorkerStep, WorkerExits, WorkerCallsStop, WorkerStopRejected, Destroy,
            Terminated, baseVars

-----------------------------------------------------------------------------
(* One caller at a time works on the thread, and it is the one in data_.   *)

\* start() keeps the invariant: a rejected or failed one changes nothing, a
\* successful one finds no other call at work and no other thread.
LEMMA StartStepInv ==
  ASSUME ControllerInv, TypeOK', NEW c \in Callers, StartStep(c)
  PROVE  ControllerInv'
<1> USE NoThreadIsNoThread, ControllerAssumption
    DEF ControllerInv, HandleMatchesState, SingleWorker, CallsOwnTheirThread, At, Locked, AcquireFree
<1>1. CASE StartRejected(c) \/ BeginFails(c)
  <2>1. /\ UNCHANGED <<state, data, mutex, worker, handles>>
        /\ call' = [call EXCEPT ![c] = call'[c]]
        /\ call'[c].pc = "idle"
    BY <1>1 DEF StartRejected, BeginFails, Returned, TypeOK
  <2> QED BY <2>1 DEF TypeOK
<1>2. ASSUME NEW t \in Thread, BeginThread(c, t)
      PROVE  ControllerInv'
  <2>1. /\ data = NoThread /\ state = "kReady" /\ handles = {}
        /\ data' = t /\ state' = "kRunning" /\ handles' = {t}
        /\ mutex' = mutex
        /\ worker' = [worker EXCEPT ![t] = "running"]
        /\ \A d \in Callers : d # c => call'[d] = call[d]
        /\ call'[c].pc = "started" /\ call'[c].hthread = t
    BY <1>2 DEF BeginThread, StartAllowed, TypeOK, Call
  <2>2. \A d \in Callers : call[d].pc \notin Locked \cup {"started"}
    BY <2>1
  <2>3. \A u \in Thread : worker[u] \notin {"running", "inStop"}
    BY <2>1
  <2>4. HandleMatchesState'
    BY <2>1
  <2>5. SingleWorker'
    BY <2>1, <2>3 DEF TypeOK
  <2>6. CallsOwnTheirThread'
    BY <2>1, <2>2
  <2> QED BY <2>4, <2>5, <2>6
<1> QED BY <1>1, <1>2 DEF StartStep

\* A step of the call c that takes or keeps mutex_ for the thread in data_
\* keeps the invariant: no other call is at work then.
LEMMA LockedStepInv ==
  ASSUME ControllerInv, TypeOK', NEW c \in Callers,
         mutex \in {NoCaller, c}, mutex' = c,
         state # "kReady", state' = "kStopping",
         UNCHANGED <<data, worker, handles>>,
         \A d \in Callers \ {c} : call'[d] = call[d] /\ ~At(d, "started"),
         call'[c].pc \in Locked,
         call'[c].hthread = data,
         call'[c].pc \in {"reap", "startReap"} => worker[data] = "exited"
  PROVE  ControllerInv'
<1> USE DEF ControllerInv, HandleMatchesState, SingleWorker, CallsOwnTheirThread, At, Locked
<1>1. \A d \in Callers \ {c} : call[d].pc \notin Locked
  BY ControllerAssumption
<1> QED BY <1>1

\* A call that returns, keeping the thread, keeps the invariant.
LEMMA ReturnInv ==
  ASSUME ControllerInv, TypeOK', NEW c \in Callers, NEW hr,
         call' = [call EXCEPT ![c] = Returned(hr)],
         mutex' = mutex \/ (mutex = c /\ mutex' = NoCaller),
         UNCHANGED <<state, data, worker, handles>>
  PROVE  ControllerInv'
<1> USE ControllerAssumption
    DEF ControllerInv, HandleMatchesState, SingleWorker, CallsOwnTheirThread, At, Locked
<1>1. call'[c].pc = "idle" /\ \A d \in Callers \ {c} : call'[d] = call[d]
  BY DEF Returned, TypeOK
<1> QED BY <1>1

\* A call that gives the thread up for now, or for good, keeps the invariant.
LEMMA GiveUpInv ==
  ASSUME ControllerInv, TypeOK', NEW c \in Callers, call[c].pc \in Locked, NEW hr, NEW reason,
         GiveUp(c, hr, reason)
  PROVE  ControllerInv'
<1>1. CASE UNCHANGED <<call, mutex>>
  BY <1>1 DEF GiveUp, ControllerInv, HandleMatchesState, SingleWorker, CallsOwnTheirThread, At
<1>2. CASE Return(c, hr)
  BY <1>2, ReturnInv DEF GiveUp, Return, ControllerInv, CallsOwnTheirThread
<1> QED BY <1>1, <1>2 DEF GiveUp

\* The second half of start() keeps the invariant: the worker it waits for is
\* the one it began.
LEMMA StartContinuesInv ==
  ASSUME ControllerInv, TypeOK', NEW c \in Callers, StartContinues(c)
  PROVE  ControllerInv'
<1>1. CASE StartSucceeds(c)
  BY <1>1, ReturnInv DEF StartSucceeds
<1>2. CASE FactoryAllocationFails(c)
  BY <1>2 DEF FactoryAllocationFails, ControllerInv, HandleMatchesState, SingleWorker,
              CallsOwnTheirThread, At
<1>3. CASE StartFails(c)
  <2>1. /\ call'[c].pc = "startWait" /\ call'[c].hthread = call[c].hthread
        /\ \A d \in Callers \ {c} : call'[d] = call[d]
    BY <1>3 DEF StartFails, ControllerInv, TypeOK, Call
  <2> QED BY <1>3, <2>1, LockedStepInv DEF StartFails, ControllerInv, CallsOwnTheirThread, At, Locked
<1>4. CASE StartFailureExited(c)
  <2>1. /\ call'[c].pc = "startReap" /\ call'[c].hthread = call[c].hthread
        /\ \A d \in Callers \ {c} : call'[d] = call[d]
    BY <1>4 DEF StartFailureExited, ControllerInv, TypeOK, Call
  <2> QED BY <1>4, <2>1, LockedStepInv
          DEF StartFailureExited, WaitReturns, ControllerInv, CallsOwnTheirThread, At, Locked
<1>5. CASE StartFailureNotExited(c)
  BY <1>5, GiveUpInv DEF StartFailureNotExited, At, Locked
<1> QED BY <1>1, <1>2, <1>3, <1>4, <1>5 DEF StartContinues

\* Entering stop() keeps the invariant, since no start() is unfinished then.
LEMMA StopStepInv ==
  ASSUME ControllerInv, TypeOK', NEW c \in Callers, StopStep(c)
  PROVE  ControllerInv'
<1>1. CASE StopRejected(c)
  BY <1>1, ReturnInv DEF StopRejected
<1>2. CASE StopEnters(c)
  <2>1. /\ call'[c].pc = "post" /\ call'[c].hthread = data
        /\ \A d \in Callers \ {c} : call'[d] = call[d]
    BY <1>2 DEF StopEnters, ControllerInv, TypeOK
  <2> QED BY <1>2, <2>1, LockedStepInv
          DEF StopEnters, AcquireFree, StopAllowed, NoUnfinishedStart, At, Locked
<1>3. CASE RetryAllocationFails(c)
  BY <1>3 DEF RetryAllocationFails, ControllerInv, HandleMatchesState, SingleWorker,
              CallsOwnTheirThread, At
<1> QED BY <1>1, <1>2, <1>3 DEF StopStep

\* The attempts of stop(), and the reaping, keep the invariant: a handle is
\* closed only when the wait returned for the exit of its thread.
LEMMA StopContinuesInv ==
  ASSUME ControllerInv, TypeOK', NEW c \in Callers, StopContinues(c)
  PROVE  ControllerInv'
<1>1. ASSUME NEW rc \in {"TRUE", "QUOTA", "FALSE"}, PostStopMessage(c, rc)
      PROVE  ControllerInv'
  <2>1. /\ call'[c].pc \in {"wait", "lastWait"} /\ call'[c].hthread = call[c].hthread
        /\ \A d \in Callers \ {c} : call'[d] = call[d]
    BY <1>1 DEF PostStopMessage, ControllerInv, TypeOK, Call
  <2> QED BY <1>1, <2>1, LockedStepInv
          DEF PostStopMessage, ControllerInv, CallsOwnTheirThread, At, Locked
<1>2. CASE WaitSignaled(c)
  <2>1. /\ call'[c].pc = "reap" /\ call'[c].hthread = call[c].hthread
        /\ \A d \in Callers \ {c} : call'[d] = call[d]
    BY <1>2 DEF WaitSignaled, ControllerInv, TypeOK, Call
  <2> QED BY <1>2, <2>1, LockedStepInv
          DEF WaitSignaled, WaitReturns, ControllerInv, CallsOwnTheirThread, At, Locked
<1>3. CASE WaitNotSignaled(c)
  <2> DEFINE next == IF At(c, "wait") THEN AdvanceAttempt(call[c]) ELSE ForceExpire(call[c])
  <2>1. PICK result \in WaitFailures :
          \/ /\ call' = [call EXCEPT ![c] = [next EXCEPT !.pc = "post",
                                             !.hr = FirstFailure(call[c].hr, result)]]
             /\ UNCHANGED <<state, data, mutex, maxAttempts, worker, exitCode, handles, process>>
          \/ GiveUp(c, FirstFailure(call[c].hr, result), "retryExpired")
    BY <1>3 DEF WaitNotSignaled
  <2>2. call[c].pc \in {"wait", "lastWait"}
    BY <1>3 DEF WaitNotSignaled, At
  <2>3. call[c] \in Call
    BY DEF ControllerInv, TypeOK
  <2>4. next.hthread = call[c].hthread /\ next \in Call
    BY <2>3 DEF AdvanceAttempt, ForceExpire, Call
  <2>5. CASE GiveUp(c, FirstFailure(call[c].hr, result), "retryExpired")
    BY <2>2, <2>5, GiveUpInv DEF Locked
  <2>6. CASE /\ call' = [call EXCEPT ![c] = [next EXCEPT !.pc = "post",
                                            !.hr = FirstFailure(call[c].hr, result)]]
             /\ UNCHANGED <<state, data, mutex, maxAttempts, worker, exitCode, handles, process>>
    <3> HIDE DEF next
    <3>1. /\ call'[c].pc = "post" /\ call'[c].hthread = call[c].hthread
          /\ \A d \in Callers \ {c} : call'[d] = call[d]
      BY <2>4, <2>6 DEF ControllerInv, TypeOK, Call
    <3> QED BY <2>2, <2>6, <3>1, LockedStepInv DEF ControllerInv, CallsOwnTheirThread, At, Locked
  <2> QED BY <2>1, <2>5, <2>6
<1>4. CASE Reap(c)
  <2> USE NoThreadIsNoThread, ControllerAssumption
      DEF ControllerInv, HandleMatchesState, SingleWorker, CallsOwnTheirThread, At, Locked
  <2>1. /\ call'[c].pc = "idle"
        /\ \A d \in Callers \ {c} : call'[d] = call[d] /\ call[d].pc \notin Locked \cup {"started"}
    BY <1>4 DEF Reap, Return, Returned, TypeOK
  <2>2. \A t \in Thread : worker[t] \notin {"running", "inStop"}
    BY <1>4 DEF Reap
  <2> QED BY <1>4, <2>1, <2>2 DEF Reap, ReleaseThread
<1>5. CASE CloseFails(c)
  <2>1. mutex = c
    BY <1>5 DEF CloseFails, ControllerInv, CallsOwnTheirThread, At, Locked
  <2> QED BY <1>5, <2>1, ReturnInv DEF CloseFails, Return
<1> QED BY <1>1, <1>2, <1>3, <1>4, <1>5 DEF StopContinues

\* The worker keeps the invariant: once exited it stays so.
LEMMA WorkerStepInv ==
  ASSUME ControllerInv, TypeOK', NEW t \in Thread, WorkerStep(t)
  PROVE  ControllerInv'
<1>1. PICK w \in {"running", "inStop", "exited"} :
        /\ worker[t] \in {"running", "inStop"}
        /\ worker' = [worker EXCEPT ![t] = w]
        /\ UNCHANGED <<state, data, mutex, call, handles>>
  BY DEF WorkerStep, WorkerExits, WorkerCallsStop, WorkerStopRejected
<1> QED BY <1>1 DEF ControllerInv, TypeOK, HandleMatchesState, SingleWorker, CallsOwnTheirThread, At, Locked

\* Every step keeps the invariant.
LEMMA InvStep == ControllerInv /\ [Next]_baseVars => ControllerInv'
<1> SUFFICES ASSUME ControllerInv, [Next]_baseVars
             PROVE  ControllerInv'
  OBVIOUS
<1>1. TypeOK'
  BY TypeStep DEF ControllerInv
<1>2. CASE Destroy
  BY <1>1, <1>2 DEF Destroy, ControllerInv, HandleMatchesState, SingleWorker, CallsOwnTheirThread, At
<1>3. CASE UNCHANGED baseVars
  BY <1>1, <1>3 DEF baseVars, ControllerInv, HandleMatchesState, SingleWorker, CallsOwnTheirThread, At
<1> QED BY <1>1, <1>2, <1>3, StartStepInv, StartContinuesInv, StopStepInv, StopContinuesInv,
           WorkerStepInv DEF Next, Terminated

\* The controller, its worker, its handle and its callers agree, whatever
\* start() and stop() met.
THEOREM ControllerInvCorrect == Spec => []ControllerInv
<1>1. Init => ControllerInv
  BY ControllerAssumption, TypeCorrect
  DEF Init, ControllerInv, TypeOK, HandleMatchesState, SingleWorker, CallsOwnTheirThread, Returned,
      At, Locked, Call, Points, Results, ExitCodes
<1> QED BY <1>1, InvStep, PTL DEF Spec

-----------------------------------------------------------------------------
(* What the invariant says to the clients of the controller.               *)

\* The handle in data_ is the one open handle, and state_ tells whether there
\* is one.
THEOREM HandleMatchesStateCorrect == Spec => []HandleMatchesState
BY ControllerInvCorrect, PTL DEF ControllerInv

\* At most one worker runs, the one in data_.
THEOREM SingleWorkerCorrect == Spec => []SingleWorker
BY ControllerInvCorrect, PTL DEF ControllerInv

\* One caller at a time waits for or reaps the thread, and the assertions of
\* stopThread(), reapThread() and reapThreadAfterStartFailure() hold for it.
THEOREM CallsOwnTheirThreadCorrect == Spec => []CallsOwnTheirThread
BY ControllerInvCorrect, PTL DEF ControllerInv

\* The three places where a stop() returns with a result of its own.
LEMMA ReturnStep ==
  ASSUME TypeOK, [Next]_baseVars, NEW c \in Callers, NEW hr, ReturnsFromStop(c, hr)
  PROVE  \/ \E result \in WaitFailures :
              /\ GiveUp(c, FirstFailure(call[c].hr, result), "retryExpired")
              /\ Return(c, FirstFailure(call[c].hr, result))
              /\ hr = FirstFailure(call[c].hr, result)
         \/ At(c, "reap") /\ Reap(c)
         \/ At(c, "reap") /\ CloseFails(c) /\ hr = "CLOSE_FAILED"
<1>1. call[c].pc \in {"wait", "lastWait", "reap"} /\ call'[c].pc = "idle" /\ call'[c].hr = hr
  BY DEF ReturnsFromStop, Returned
<1>2. ASSUME NEW d \in Callers, StartStep(d)
      PROVE  FALSE
  <2>1. At(d, "idle") /\ \A e \in Callers \ {d} : call'[e] = call[e]
    BY <1>2 DEF StartStep, StartRejected, BeginFails, BeginThread, AcquireFree, TypeOK
  <2> QED BY <1>1, <2>1 DEF At
<1>3. ASSUME NEW d \in Callers, StartContinues(d)
      PROVE  FALSE
  <2>1. /\ At(d, "started") \/ At(d, "startWait")
        /\ \A e \in Callers \ {d} : call'[e] = call[e]
    BY <1>3 DEF StartContinues, StartSucceeds, FactoryAllocationFails, StartFails,
                StartFailureExited, StartFailureNotExited, GiveUp, Return, TypeOK
  <2> QED BY <1>1, <2>1 DEF At
<1>4. ASSUME NEW d \in Callers, StopStep(d)
      PROVE  FALSE
  <2>1. At(d, "idle") /\ \A e \in Callers \ {d} : call'[e] = call[e]
    BY <1>4 DEF StopStep, StopRejected, StopEnters, RetryAllocationFails, AcquireFree, TypeOK
  <2> QED BY <1>1, <2>1 DEF At
<1>5. PICK d \in Callers : StopContinues(d)
  BY <1>1, <1>2, <1>3, <1>4
  DEF Next, Terminated, baseVars, WorkerStep, WorkerExits, WorkerCallsStop,
      WorkerStopRejected, Destroy
<1>6. CASE \E rc \in {"TRUE", "QUOTA", "FALSE"} : PostStopMessage(d, rc)
  <2>1. At(d, "post") /\ \A e \in Callers \ {d} : call'[e] = call[e]
    BY <1>6 DEF PostStopMessage, TypeOK
  <2> QED BY <1>1, <2>1 DEF At
<1>7. CASE WaitSignaled(d)
  <2>1. call'[d].pc = "reap" /\ \A e \in Callers \ {d} : call'[e] = call[e]
    BY <1>7 DEF WaitSignaled, TypeOK, Call
  <2> QED BY <1>1, <2>1
<1>8. CASE WaitNotSignaled(d)
  <2> DEFINE next == IF At(d, "wait") THEN AdvanceAttempt(call[d]) ELSE ForceExpire(call[d])
  <2>1. PICK result \in WaitFailures :
          \/ call' = [call EXCEPT ![d] = [next EXCEPT !.pc = "post",
                                          !.hr = FirstFailure(call[d].hr, result)]]
          \/ GiveUp(d, FirstFailure(call[d].hr, result), "retryExpired")
    BY <1>8 DEF WaitNotSignaled
  <2>2. CASE GiveUp(d, FirstFailure(call[d].hr, result), "retryExpired")
    <3>1. \A e \in Callers \ {d} : call'[e] = call[e]
      BY <2>2 DEF GiveUp, Return, TypeOK
    <3>2. d = c
      BY <1>1, <3>1
    <3>3. Return(c, FirstFailure(call[c].hr, result))
      BY <1>1, <2>2, <3>2 DEF GiveUp
    <3>4. call'[c].hr = FirstFailure(call[c].hr, result)
      BY <3>3 DEF Return, Returned, TypeOK
    <3> QED BY <1>1, <2>2, <3>2, <3>3, <3>4
  <2>3. CASE call' = [call EXCEPT ![d] = [next EXCEPT !.pc = "post",
                                          !.hr = FirstFailure(call[d].hr, result)]]
    <3>1. call[d] \in Call
      BY DEF TypeOK
    <3>2. next \in Call
      BY <3>1 DEF AdvanceAttempt, ForceExpire, Call
    <3> HIDE DEF next
    <3>3. call'[d].pc = "post" /\ \A e \in Callers \ {d} : call'[e] = call[e]
      BY <2>3, <3>2 DEF TypeOK, Call
    <3> QED BY <1>1, <3>3
  <2> QED BY <2>1, <2>2, <2>3
<1>9. CASE Reap(d) \/ CloseFails(d)
  <2>1. \A e \in Callers \ {d} : call'[e] = call[e]
    BY <1>9 DEF Reap, CloseFails, Return, TypeOK
  <2>2. d = c /\ At(c, "reap")
    BY <1>1, <1>9, <2>1 DEF Reap, CloseFails, At
  <2>3. CloseFails(c) => hr = "CLOSE_FAILED"
    BY <1>1, <2>2 DEF CloseFails, Return, ReapResult, Returned, At, TypeOK
  <2> QED BY <1>9, <2>2, <2>3
<1> QED BY <1>5, <1>6, <1>7, <1>8, <1>9 DEF StopContinues

\* A stop() that returns S_OK reaped a worker that exited with S_OK.
THEOREM StopReportsExitCorrect == Spec => StopReportsExit
<1>1. ControllerInv /\ [Next]_baseVars => [SuccessReportsExit]_baseVars
  <2> SUFFICES ASSUME ControllerInv, [Next]_baseVars, NEW c \in Callers, ReturnsFromStop(c, "S_OK")
               PROVE  /\ worker[call[c].hthread] = "exited"
                      /\ exitCode[call[c].hthread] = "S_OK"
                      /\ state' = "kReady"
    BY DEF SuccessReportsExit
  <2>1. \A result \in WaitFailures : FirstFailure(call[c].hr, result) # "S_OK"
    BY DEF WaitFailures, FirstFailure
  <2>2. At(c, "reap") /\ Reap(c)
    BY <2>1, ReturnStep DEF ControllerInv
  <2>3. worker[call[c].hthread] = "exited"
    BY <2>2 DEF ControllerInv, CallsOwnTheirThread, At, Locked
  <2>4. exitCode[call[c].hthread] = "S_OK"
    <3>1. call'[c].hr = "S_OK"
      BY DEF ReturnsFromStop, Returned
    <3>2. CASE Return(c, ReapResult(c, exitCode[call[c].hthread]))
      BY <2>2, <3>1, <3>2 DEF Return, ReapResult, Returned, At, ControllerInv, TypeOK
    <3>3. CASE Return(c, ReapResult(c, "GET_EXIT_CODE_FAILED"))
      BY <2>2, <3>1, <3>3 DEF Return, ReapResult, Returned, At, ControllerInv, TypeOK
    <3> QED BY <2>2, <3>2, <3>3 DEF Reap
  <2> QED BY <2>2, <2>3, <2>4 DEF Reap, ReleaseThread
<1> QED BY <1>1, ControllerInvCorrect, PTL DEF Spec, StopReportsExit

\* A stop() that fails otherwise than with the worker's exit code leaves the
\* thread in data_, open and stoppable, under either stop failure policy.
THEOREM FailedStopKeepsThreadCorrect == Spec => FailedStopKeepsThread
<1>1. ControllerInv /\ [Next]_baseVars => [FailureKeepsThread]_baseVars
  <2> SUFFICES ASSUME ControllerInv, [Next]_baseVars, NEW c \in Callers, NEW hr \in StopFailures,
                      ReturnsFromStop(c, hr)
               PROVE  StopAllowed' /\ data' = call[c].hthread /\ data' \in handles'
    BY DEF FailureKeepsThread
  <2>1. ~(At(c, "reap") /\ Reap(c))
    <3> SUFFICES ASSUME At(c, "reap"), Reap(c)
                 PROVE  FALSE
      OBVIOUS
    <3>1. call[c].hthread = data /\ data \in Thread
      BY DEF ControllerInv, CallsOwnTheirThread, HandleMatchesState, TypeOK, At, Locked
    <3>2. call'[c].hr \in ExitCodes \cup {"GET_EXIT_CODE_FAILED"}
      BY <3>1 DEF Reap, Return, ReapResult, Returned, At, ControllerInv, TypeOK
    <3>3. call'[c].hr = hr
      BY DEF ReturnsFromStop, Returned
    <3> QED BY <3>2, <3>3 DEF StopFailures, ExitCodes
  <2>2. UNCHANGED <<state, data, handles>>
    BY <2>1, ReturnStep DEF ControllerInv, GiveUp, CloseFails
  <2>3. call[c].pc \in Locked
    BY DEF ReturnsFromStop, Locked
  <2> QED BY <2>2, <2>3, NoThreadIsNoThread
          DEF ControllerInv, CallsOwnTheirThread, HandleMatchesState, StopAllowed
<1> QED BY <1>1, ControllerInvCorrect, PTL DEF Spec, FailedStopKeepsThread

-----------------------------------------------------------------------------
(* The controller implements the life cycle of one thread.                 *)

\* Each step begins, ends or lets go of the one thread, finishes the life
\* cycle, or is invisible in it.
LEMMA LifecycleStep ==
  ASSUME ControllerInv, [Next]_baseVars
  PROVE  [Lifecycle!LifecycleNext]_(Lifecycle!lifecycleVars)
<1> DEFINE running == {t \in Thread : worker[t] \in {"running", "inStop"}}
           ended   == CASE process = "alive"     -> "no"
                        [] process = "destroyed" -> "destroyed"
                        [] OTHER                 -> "gaveUp"
<1> USE DEF Lifecycle!LifecycleNext, Lifecycle!lifecycleVars
<1>1. ASSUME UNCHANGED <<data, worker, process>>
      PROVE  UNCHANGED Lifecycle!lifecycleVars
  BY <1>1
<1>2. ASSUME process = "alive", process' \notin {"alive", "destroyed"}, data # NoThread,
             UNCHANGED <<data, worker>>
      PROVE  Lifecycle!LifecycleNext
  <2>1. running' = running /\ ended = "no" /\ ended' = "gaveUp"
    BY <1>2
  <2> QED BY <1>2, <2>1 DEF Lifecycle!Finish
<1>3. ASSUME NEW c \in Callers, NEW hr, NEW reason \in {"retryExpired", "startReapExpired"},
             process = "alive", call[c].pc \in Locked, GiveUp(c, hr, reason)
      PROVE  [Lifecycle!LifecycleNext]_(Lifecycle!lifecycleVars)
  <2>1. data # NoThread
    BY <1>3 DEF ControllerInv, CallsOwnTheirThread, HandleMatchesState
  <2> QED BY <1>1, <1>2, <1>3, <2>1 DEF GiveUp
<1>4. ASSUME NEW c \in Callers, process = "alive", StartStep(c)
      PROVE  [Lifecycle!LifecycleNext]_(Lifecycle!lifecycleVars)
  <2>1. CASE StartRejected(c) \/ BeginFails(c)
    BY <1>1, <2>1 DEF StartRejected, BeginFails
  <2>2. ASSUME NEW t \in Thread, BeginThread(c, t)
        PROVE  Lifecycle!LifecycleNext
    <3>1. /\ data = NoThread /\ data' = t /\ process' = process
          /\ worker' = [worker EXCEPT ![t] = "running"]
      BY <2>2 DEF BeginThread, StartAllowed
    <3>2. running = {}
      BY <3>1, NoThreadIsNoThread DEF ControllerInv, SingleWorker
    <3>3. running' = {t}
      BY <3>1, <3>2 DEF ControllerInv, TypeOK
    <3>4. ended = "no" /\ ended' = "no"
      BY <1>4, <3>1
    <3> HIDE DEF running, ended
    <3>5. Lifecycle!Begin(t)
      BY <3>1, <3>2, <3>3, <3>4 DEF Lifecycle!Begin, running, ended
    <3> QED BY <1>4, <3>5 DEF Lifecycle!LifecycleNext
  <2> QED BY <1>4, <2>1, <2>2 DEF StartStep
<1>5. ASSUME NEW c \in Callers, process = "alive", StartContinues(c)
      PROVE  [Lifecycle!LifecycleNext]_(Lifecycle!lifecycleVars)
  <2>1. CASE StartSucceeds(c) \/ StartFails(c) \/ StartFailureExited(c)
    BY <1>1, <2>1 DEF StartSucceeds, StartFails, StartFailureExited
  <2>2. CASE FactoryAllocationFails(c)
    <3>1. data # NoThread
      BY <2>2 DEF FactoryAllocationFails, ControllerInv, CallsOwnTheirThread, HandleMatchesState
    <3> QED BY <1>2, <1>5, <2>2, <3>1 DEF FactoryAllocationFails
  <2>3. CASE StartFailureNotExited(c)
    BY <1>3, <1>5, <2>3 DEF StartFailureNotExited, At, Locked
  <2> QED BY <1>5, <2>1, <2>2, <2>3 DEF StartContinues
<1>6. ASSUME NEW c \in Callers, process = "alive", StopStep(c)
      PROVE  [Lifecycle!LifecycleNext]_(Lifecycle!lifecycleVars)
  <2>1. CASE StopRejected(c) \/ StopEnters(c)
    BY <1>1, <2>1 DEF StopRejected, StopEnters
  <2>2. CASE RetryAllocationFails(c)
    BY <1>2, <1>6, <2>2 DEF RetryAllocationFails, StopAllowed
  <2> QED BY <1>6, <2>1, <2>2 DEF StopStep
<1>7. ASSUME NEW c \in Callers, process = "alive", StopContinues(c)
      PROVE  [Lifecycle!LifecycleNext]_(Lifecycle!lifecycleVars)
  <2>1. CASE (\E rc \in {"TRUE", "QUOTA", "FALSE"} : PostStopMessage(c, rc)) \/ WaitSignaled(c)
    BY <1>1, <2>1 DEF PostStopMessage, WaitSignaled
  <2>2. CASE WaitNotSignaled(c)
    <3>1. \/ UNCHANGED <<data, worker, process>>
          \/ \E hr : GiveUp(c, hr, "retryExpired")
      BY <2>2 DEF WaitNotSignaled
    <3>2. call[c].pc \in Locked
      BY <2>2 DEF WaitNotSignaled, At, Locked
    <3> QED BY <1>1, <1>3, <1>7, <3>1, <3>2
  <2>3. CASE Reap(c)
    <3>1. /\ data # NoThread /\ worker[data] = "exited"
          /\ data' = NoThread /\ UNCHANGED <<worker, process>>
      BY <2>3 DEF Reap, ReleaseThread, ControllerInv, CallsOwnTheirThread, HandleMatchesState, At, Locked
    <3>2. running' = running /\ data \notin running /\ ended = "no" /\ ended' = ended
      BY <1>7, <3>1
    <3> QED BY <1>7, <3>1, <3>2 DEF Lifecycle!LetGo
  <2>4. CASE CloseFails(c)
    BY <1>1, <2>4 DEF CloseFails
  <2> QED BY <1>7, <2>1, <2>2, <2>3, <2>4 DEF StopContinues
<1>8. ASSUME NEW t \in Thread, process = "alive", WorkerStep(t)
      PROVE  [Lifecycle!LifecycleNext]_(Lifecycle!lifecycleVars)
  <2>1. ended = "no" /\ ended' = ended /\ data' = data
    BY <1>8 DEF WorkerStep, WorkerExits, WorkerCallsStop, WorkerStopRejected
  <2>2. CASE \E code \in ExitCodes : WorkerExits(t, code)
    <3>1. t \in running /\ running' = running \ {t}
      BY <2>2 DEF WorkerExits, ControllerInv, TypeOK
    <3> QED BY <1>8, <2>1, <3>1 DEF Lifecycle!End
  <2>3. CASE WorkerCallsStop(t) \/ WorkerStopRejected(t)
    <3>1. running' = running
      BY <2>3 DEF WorkerCallsStop, WorkerStopRejected, ControllerInv, TypeOK
    <3> QED BY <2>1, <3>1
  <2> QED BY <1>8, <2>2, <2>3 DEF WorkerStep
<1>9. ASSUME process = "alive", Destroy
      PROVE  Lifecycle!LifecycleNext
  <2>1. running' = running /\ data' = data /\ ended = "no"
    BY <1>9 DEF Destroy
  <2>2. ended' = IF data = NoThread THEN "destroyed" ELSE "gaveUp"
    BY <1>9 DEF Destroy
  <2> QED BY <1>9, <2>1, <2>2 DEF Lifecycle!Finish
<1>10. CASE UNCHANGED baseVars
  BY <1>1, <1>10 DEF baseVars
<1> QED BY <1>4, <1>5, <1>6, <1>7, <1>8, <1>9, <1>10 DEF Next, Terminated

\* The controller begins a thread only when it has none, lets go of it only
\* after it ended, and gives up only while it has one.
THEOREM ImplementsLifecycleCorrect == Spec => ImplementsLifecycle
<1>1. Init => Lifecycle!LifecycleInit
  BY DEF Init, Lifecycle!LifecycleInit
<1>2. ControllerInv /\ [Next]_baseVars => [Lifecycle!LifecycleNext]_(Lifecycle!lifecycleVars)
  BY LifecycleStep
<1> QED BY <1>1, <1>2, ControllerInvCorrect, PTL DEF Spec, ImplementsLifecycle, Lifecycle!LifecycleSpec

-----------------------------------------------------------------------------
(* Lemmas for the proofs about the subclasses.                             *)

\* The thread a controller owns was begun.
Begun == data # NoThread => worker[data] # "none"

LEMMA BegunCorrect == Spec => []Begun
<1>1. Init => Begun
  BY DEF Init, Begun
<1>2. TypeOK /\ Begun /\ [Next]_baseVars => Begun'
  <2> SUFFICES ASSUME TypeOK, Begun, [Next]_baseVars
               PROVE  Begun'
    OBVIOUS
  <2> USE DEF TypeOK, Begun
  <2>1. CASE UNCHANGED <<data, worker>>
    BY <2>1
  <2>2. ASSUME NEW c \in Callers, NEW t \in Thread, BeginThread(c, t)
        PROVE  Begun'
    BY <2>2, NoThreadIsNoThread DEF BeginThread
  <2>3. ASSUME NEW c \in Callers, Reap(c)
        PROVE  Begun'
    BY <2>3 DEF Reap, ReleaseThread
  <2>4. ASSUME NEW t \in Thread, WorkerStep(t)
        PROVE  Begun'
    BY <2>4 DEF WorkerStep, WorkerExits, WorkerCallsStop, WorkerStopRejected
  <2>5. ASSUME NEW c \in Callers, StartContinues(c) \/ StopStep(c)
        PROVE  UNCHANGED <<data, worker>>
    BY <2>5 DEF StartContinues, StartSucceeds, FactoryAllocationFails, StartFails,
                StartFailureExited, StartFailureNotExited, GiveUp, StopStep, StopRejected,
                StopEnters, RetryAllocationFails
  <2>6. ASSUME NEW c \in Callers, StopContinues(c), ~Reap(c)
        PROVE  UNCHANGED <<data, worker>>
    BY <2>6 DEF StopContinues, PostStopMessage, WaitSignaled, WaitNotSignaled, GiveUp, CloseFails
  <2>7. CASE Destroy \/ Terminated \/ UNCHANGED baseVars
    BY <2>1, <2>7 DEF Destroy, Terminated, baseVars
  <2>8. ASSUME NEW c \in Callers, StartStep(c)
        PROVE  Begun'
    BY <2>1, <2>2, <2>8 DEF StartStep, StartRejected, BeginFails
  <2> QED BY <2>1, <2>3, <2>4, <2>5, <2>6, <2>7, <2>8 DEF Next
<1> QED BY <1>1, <1>2, TypeCorrect, PTL DEF Spec

\* A caller that returns, or goes on to another point than its last wait.
LEMMA CallMoves ==
  ASSUME TypeOK, NEW c \in Callers, NEW r, r.pc # "lastWait", call' = [call EXCEPT ![c] = r]
  PROVE  \A d \in Callers : At(d, "lastWait")' => At(d, "lastWait") /\ UNCHANGED call[d]
BY DEF TypeOK, At

LEMMA PointOf ==
  ASSUME TypeOK, NEW c \in Callers, NEW point
  PROVE  /\ [call[c] EXCEPT !.pc = point].pc = point
         /\ \A hthread : [call[c] EXCEPT !.pc = point, !.hthread = hthread].pc = point
         /\ \A hr : [call[c] EXCEPT !.pc = point, !.hr = hr].pc = point
         /\ \A hr : /\ [AdvanceAttempt(call[c]) EXCEPT !.pc = point, !.hr = hr].pc = point
                    /\ [ForceExpire(call[c]) EXCEPT !.pc = point, !.hr = hr].pc = point
         /\ \A hr : Returned(hr).pc = "idle"
BY DEF TypeOK, Call, AdvanceAttempt, ForceExpire, Returned

=============================================================================
