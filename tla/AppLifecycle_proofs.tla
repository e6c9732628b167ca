------------------------ MODULE AppLifecycle_proofs ------------------------
(***************************************************************************)
(* Proofs about SettingsStore and AppLifecycle, which extends it.           *)
(*                                                                         *)
(* The store: whatever the texts and the faults, the settings file is       *)
(* replaced in one piece, and what was reported to be saved is found again. *)
(* The program, for any settings file, any faults, any delays and any       *)
(* number of requests: no thread is left behind when the process ends, a    *)
(* second instance does not report an activation that failed, the store is  *)
(* used the way its own specification allows, and the start waits as the    *)
(* policy of its retries says.                                              *)
(***************************************************************************)
EXTENDS AppLifecycle, SequenceTheorems, TLAPS

-----------------------------------------------------------------------------
(* The settings store                                                      *)

Writing == {"create", "write", "flush", "close", "move", "through"}

\* The inductive invariant: the text being written is whole and, from the
\* flush on, what the temporary file holds; the file itself is never dirty;
\* until the new name is in place the file is what was last saved.
StoreInv ==
  /\ StoreTypeOK
  /\ file \in Versions /\ stable \in Versions
  /\ "file" \notin dirty
  /\ saving # "idle" => content \in Versions
  /\ saving \in {"flush", "close", "move"} => temp = content
  /\ saving \in {"close", "move"} => "temp" \notin dirty
  /\ saving = "through" => file = content
  /\ saving # "through" => {file, stable} \subseteq saved

\* A new process has an empty document.
LEMMA ForgetStep ==
  ASSUME ForgetDocument, file' \in Versions, stable' \in Versions, "file" \notin dirty',
         temp' \in Versions \cup {"torn"}, dirty' \subseteq {"file", "temp"}
  PROVE  StoreInv'
BY TextsAssumption DEF StoreInv, StoreTypeOK, ForgetDocument, Return, Versions

\* A save() that fails leaves the file as it was.
LEMMA FailStep ==
  ASSUME StoreInv, saving # "through", Fail, UNCHANGED <<file, stable, tree, root>>
  PROVE  StoreInv'
BY TextsAssumption DEF StoreInv, StoreTypeOK, Fail, DeleteTemp, Return, Versions

LEMMA SaveReturnsStep ==
  ASSUME StoreInv, saving # "through", Return(saved), UNCHANGED <<diskVars, tree, root>>
  PROVE  StoreInv'
BY TextsAssumption DEF StoreInv, StoreTypeOK, diskVars, Return, Versions

\* Every step keeps the invariant.
LEMMA StoreInvStep ==
  ASSUME StoreInv, [StoreNext]_storeVars
  PROVE  StoreInv'
<1> USE TextsAssumption
<1>1. CASE UNCHANGED storeVars
  BY <1>1 DEF StoreInv, StoreTypeOK, storeVars, diskVars, saveVars, Versions
<1>2. ASSUME NEW hr \in ReadErrors \cup {"S_OK"}, ~root, Load(hr)
      PROVE  StoreInv'
  <2>1. tree' \in Texts \cup {"empty", "torn"} /\ root' \in BOOLEAN /\ (root' => tree' \in Texts)
    <3>1. CASE ReadFails(hr)
      BY <1>2, <3>1 DEF ReadFails, StoreInv, StoreTypeOK
    <3>2. CASE Reset(hr)
      BY <1>2, <3>2 DEF Reset
    <3>3. CASE Parse(hr)
      <4>1. CASE file \in Texts
        BY <1>2, <3>3, <4>1 DEF Parse, StoreInv, StoreTypeOK
      <4>2. CASE tree' = "torn" /\ root' = root
        BY <1>2, <4>2 DEF StoreInv, StoreTypeOK
      <4> QED
        BY <3>3, <4>1, <4>2 DEF Parse
    <3> QED
      BY <1>2, <3>1, <3>2, <3>3 DEF Load
  <2> QED
    BY <1>2, <2>1 DEF Load, StoreInv, StoreTypeOK, diskVars, saveVars
<1>3. CASE Edit
  BY <1>3 DEF Edit, StoreInv, StoreTypeOK, diskVars, saveVars, Versions
<1>4. CASE root /\ BeginSave
  <2>1. CASE Return(saved)
    BY <1>4, <2>1, SaveReturnsStep DEF BeginSave
  <2>2. CASE saving' = "create" /\ content' = tree /\ saved' = saved
    BY <1>4, <2>2 DEF BeginSave, StoreInv, StoreTypeOK, diskVars, Versions
  <2> QED
    BY <1>4, <2>1, <2>2 DEF BeginSave
<1>5. CASE CreateTemp
  <2>1. CASE saving' = "write"
    BY <1>5, <2>1 DEF CreateTemp, StoreInv, StoreTypeOK, Return, Versions
  <2>2. CASE Return(saved) /\ UNCHANGED <<temp, dirty>>
    BY <1>5, <2>2, SaveReturnsStep DEF CreateTemp, diskVars
  <2> QED
    BY <1>5, <2>1, <2>2 DEF CreateTemp
<1>6. CASE WriteTemp
  <2>1. CASE Fail
    BY <1>6, <2>1, FailStep DEF WriteTemp
  <2>2. CASE saving' = "flush"
    BY <1>6, <2>2 DEF WriteTemp, Fail, Return, StoreInv, StoreTypeOK, Versions
  <2> QED
    BY <1>6, <2>1, <2>2 DEF WriteTemp
<1>7. CASE FlushTemp
  <2>1. CASE Fail
    BY <1>7, <2>1, FailStep DEF FlushTemp
  <2>2. CASE saving' = "close"
    BY <1>7, <2>2 DEF FlushTemp, Fail, Return, StoreInv, StoreTypeOK, Versions
  <2> QED
    BY <1>7, <2>1, <2>2 DEF FlushTemp
<1>8. CASE CloseTemp
  <2>1. CASE Return(saved)
    BY <1>8, <2>1, SaveReturnsStep DEF CloseTemp
  <2>2. CASE saving' = "move" /\ UNCHANGED <<content, saved>>
    BY <1>8, <2>2 DEF CloseTemp, StoreInv, StoreTypeOK, diskVars, Versions
  <2> QED
    BY <1>8, <2>1, <2>2 DEF CloseTemp
<1>9. CASE MoveTemp
  <2>1. CASE Fail /\ UNCHANGED file
    BY <1>9, <2>1, FailStep DEF MoveTemp
  <2>2. CASE saving' = "through"
    BY <1>9, <2>2 DEF MoveTemp, Fail, Return, StoreInv, StoreTypeOK, Versions
  <2> QED
    BY <1>9, <2>1, <2>2 DEF MoveTemp
<1>10. CASE EndMove
  BY <1>10 DEF EndMove, Return, StoreInv, StoreTypeOK, Versions
<1>11. CASE RewriteFile
  BY <1>11 DEF RewriteFile, StoreInv, StoreTypeOK, Versions
<1>12. CASE ProcessEnds
  BY <1>12, ForgetStep DEF ProcessEnds, diskVars, StoreInv, StoreTypeOK
<1>13. CASE PowerLoss
  BY <1>13, ForgetStep DEF PowerLoss, StoreInv, StoreTypeOK, Versions
<1> QED
  BY <1>1, <1>2, <1>3, <1>4, <1>5, <1>6, <1>7, <1>8, <1>9, <1>10, <1>11, <1>12, <1>13
  DEF StoreNext, SaveContinues

LEMMA StoreInvInit == ASSUME StoreInit PROVE StoreInv
BY TextsAssumption DEF StoreInit, StoreInv, StoreTypeOK, Versions

LEMMA StoreInvariance == StoreSpec => []StoreInv
<1>1. StoreInit => StoreInv
  BY StoreInvInit
<1>2. StoreInv /\ [StoreNext]_storeVars => StoreInv'
  BY StoreInvStep
<1> QED
  BY <1>1, <1>2, PTL DEF StoreSpec

\* A text whose save() was reported to have succeeded is what the file holds,
\* also after a power loss, until the file is written again.
THEOREM SavedSurvivesCorrect == StoreSpec => []SavedSurvives
<1>1. StoreInv => SavedSurvives
  BY DEF StoreInv, SavedSurvives
<1> QED
  BY <1>1, StoreInvariance, PTL

\* A step of the store is a step of the atomic file, or leaves it as it is.
LEMMA FileStep ==
  ASSUME StoreInv, [StoreNext]_storeVars
  PROVE  [File!Next]_<<file, stable>>
<1>1. CASE MoveTemp
  BY <1>1 DEF MoveTemp, Fail, StoreInv, File!Next, File!Replace
<1>2. CASE EndMove
  BY <1>2 DEF EndMove, File!Next, File!Harden
<1>3. CASE RewriteFile
  BY <1>3 DEF RewriteFile, File!Next, File!Rewrite
<1>4. CASE PowerLoss
  BY <1>4 DEF PowerLoss, StoreInv, File!Next, File!PowerLoss
<1>5. CASE \/ \E hr \in ReadErrors \cup {"S_OK"} : Load(hr)
           \/ Edit \/ BeginSave \/ CreateTemp \/ WriteTemp \/ FlushTemp \/ CloseTemp
           \/ ProcessEnds \/ UNCHANGED storeVars
  BY <1>5 DEF Load, Edit, BeginSave, CreateTemp, WriteTemp, FlushTemp, CloseTemp, ProcessEnds, storeVars, diskVars
<1> QED
  BY <1>1, <1>2, <1>3, <1>4, <1>5 DEF StoreNext, SaveContinues

\* The settings file is an atomic file.
THEOREM StoreImplementsAtomicFile == StoreSpec => ImplementsAtomicFile
<1>1. StoreInit => File!Init
  BY DEF StoreInit, File!Init
<1>2. StoreInv /\ [StoreNext]_storeVars => [File!Next]_<<file, stable>>
  BY FileStep
<1> QED
  BY <1>1, <1>2, StoreInvariance, PTL DEF StoreSpec, ImplementsAtomicFile, File!Spec

-----------------------------------------------------------------------------
(* The program                                                             *)

\* Which threads run is decided by where the UI thread stands, and by whether
\* exitApp() has been through once.
ThreadsInv ==
  /\ running \subseteq {"window", "watcher"}
  /\ ui \in {"off", "initialize", "load", "sleep", "startWindow"} => running = {}
  /\ ui \in {"startWatcher", "rollback"} => running \subseteq {"window"}
  /\ ui = "stopWindow" => running \subseteq stuck \cup {"window"}
  /\ ui = "end" => running \subseteq stuck
  /\ quitting => /\ running \subseteq stuck
                 /\ ui \in {"run", "closeWindow", "stopWatcher", "stopWindow", "end", "crashed"}

\* stop() leaves the thread of its component only if it fails.
LEMMA StopStep ==
  ASSUME NEW component, Stop(component)
  PROVE  /\ running' \subseteq running /\ stuck \subseteq stuck'
         /\ component \in running' => component \in stuck'
BY DEF Stop

LEMMA ThreadsInvStep ==
  ASSUME ThreadsInv, [AppNext]_appVars
  PROVE  ThreadsInv'
<1> USE DEF ThreadsInv, Goto
<1>1. CASE UNCHANGED appVars
  BY <1>1 DEF appVars, uiVars
<1>2. CASE Launch
  BY <1>2 DEF Launch
<1>3. CASE Initialize
  BY <1>3 DEF Initialize
<1>4. CASE LoadSettings
  <2>1. PICK hr \in ReadErrors \cup {"S_OK"} :
          Goto(CASE hr \in TransientErrors /\ Available(retry') -> "sleep"
                 [] hr = "ERROR_NOT_ENOUGH_MEMORY" /\ ~Available(retry') -> "crashed"
                 [] OTHER -> "startWindow")
    BY <1>4 DEF LoadSettings
  <2>2. ui' \in {"sleep", "crashed", "startWindow"}
    BY <2>1
  <2> QED
    BY <1>4, <2>2 DEF LoadSettings
<1>5. CASE SleepBeforeRetry
  BY <1>5 DEF SleepBeforeRetry
<1>6. CASE StartWindow
  BY <1>6 DEF StartWindow
<1>7. CASE StartWatcher
  BY <1>7 DEF StartWatcher
<1>8. CASE Rollback
  BY <1>8, StopStep DEF Rollback
<1>9. CASE CloseWindow
  BY <1>9 DEF CloseWindow
<1>10. CASE StopWatcher
  BY <1>10, StopStep DEF StopWatcher
<1>11. CASE StopWindow
  BY <1>11, StopStep DEF StopWindow
<1>12. CASE ServeRequest
  BY <1>12 DEF ServeRequest, ExitApp, ShowSettings
<1>13. CASE LoopEnds
  BY <1>13 DEF LoopEnds
<1>14. CASE EndProcess \/ Kill
  BY <1>14 DEF EndProcess, Kill, ProcessEnded, NoProcess
<1>15. CASE \/ \E request \in {"exit", "settings"} : NotifyRequest(request)
            \/ Enqueue \/ UserClosesWindow \/ UserEdits \/ SaveClick \/ SaveGoesOn
            \/ StartSecond \/ Activate \/ StoreError \/ SetEvent \/ WaitEnds
  BY <1>15 DEF NotifyRequest, Enqueue, UserClosesWindow, UserEdits, SaveClick, SaveGoesOn,
               StartSecond, Activate, StoreError, SetEvent, WaitEnds, uiVars
<1> QED
  BY <1>1, <1>2, <1>3, <1>4, <1>5, <1>6, <1>7, <1>8, <1>9, <1>10, <1>11, <1>12, <1>13, <1>14, <1>15
  DEF AppNext, Startup, Shutdown

\* No thread runs on when the static objects are destroyed, but one whose
\* stop() failed.
THEOREM StoppedAtEndCorrect == AppSpec => []StoppedAtEnd
<1>1. AppInit => ThreadsInv
  BY DEF AppInit, ThreadsInv
<1>2. ThreadsInv /\ [AppNext]_appVars => ThreadsInv'
  BY ThreadsInvStep
<1>3. ThreadsInv => StoppedAtEnd
  BY DEF ThreadsInv, StoppedAtEnd
<1> QED
  BY <1>1, <1>2, <1>3, PTL DEF AppSpec

\* The event is set only after the outcome is known and an error is stored.
RedirectInv ==
  /\ redirect \in [event : BOOLEAN, hr : {"S_OK", "E_FAIL"}]
  /\ redirect.hr # "S_OK" => activation = "failed"
  /\ redirect.event => activation = "done" \/ redirect.hr # "S_OK"
  /\ second = "EXIT_SUCCESS" => activation = "done"

LEMMA RedirectInvStep ==
  ASSUME RedirectInv, [AppNext]_appVars
  PROVE  RedirectInv'
<1> USE DEF RedirectInv
<1>1. CASE UNCHANGED secondVars
  BY <1>1 DEF secondVars
<1>2. CASE StartSecond
  BY <1>2 DEF StartSecond
<1>3. CASE Activate
  BY <1>3 DEF Activate
<1>4. CASE StoreError
  BY <1>4 DEF StoreError
<1>5. CASE SetEvent
  BY <1>5 DEF SetEvent
<1>6. CASE WaitEnds
  BY <1>6 DEF WaitEnds
<1>7. CASE EndProcess \/ Kill
  BY <1>7 DEF EndProcess, Kill, ProcessEnded
<1>8. CASE \/ Launch \/ Startup \/ Shutdown
           \/ \E request \in {"exit", "settings"} : NotifyRequest(request)
           \/ Enqueue \/ ServeRequest \/ LoopEnds
           \/ UserClosesWindow \/ UserEdits \/ SaveClick \/ SaveGoesOn \/ UNCHANGED appVars
  <2>1. UNCHANGED secondVars
    BY <1>8 DEF Launch, Startup, Initialize, LoadSettings, SleepBeforeRetry, StartWindow, StartWatcher,
                Rollback, Shutdown, CloseWindow, StopWatcher, StopWindow, NotifyRequest, Enqueue,
                ServeRequest, LoopEnds, UserClosesWindow, UserEdits, SaveClick, SaveGoesOn,
                appVars
  <2> QED
    BY <1>1, <2>1
<1> QED
  BY <1>2, <1>3, <1>4, <1>5, <1>6, <1>7, <1>8 DEF AppNext

\* The exit code of a second instance tells the truth about its activation.
THEOREM RedirectReportsTruthCorrect == AppSpec => []RedirectReportsTruth
<1>1. AppInit => RedirectInv
  BY DEF AppInit, RedirectInv
<1>2. RedirectInv /\ [AppNext]_appVars => RedirectInv'
  BY RedirectInvStep
<1>3. RedirectInv => RedirectReportsTruth
  BY DEF RedirectInv, RedirectReportsTruth
<1> QED
  BY <1>1, <1>2, <1>3, PTL DEF AppSpec

-----------------------------------------------------------------------------
(* The program is a client of the settings store                           *)

\* Until load() has succeeded the document is empty, so load() never meets the
\* remains of another one; the editor, which saves, exists only for a
\* document with a root, and save() keeps the UI thread.
DocumentInv ==
  /\ ui \in {"off", "initialize", "load", "sleep"} => tree = "empty" /\ ~root
  /\ ui # "run" => saving = "idle"
  /\ page => root

\* What the steps of the program do to the store.
LEMMA LoadStep ==
  ASSUME NEW hr \in ReadErrors \cup {"S_OK"}, Load(hr)
  PROVE  /\ hr \in TransientErrors => UNCHANGED <<tree, root>>
         /\ saving = "idle" /\ UNCHANGED saveVars
BY DEF Load, ReadFails, Reset, Parse, ReadErrors, TransientErrors

LEMMA DocumentInvStep ==
  ASSUME DocumentInv, [AppNext]_appVars
  PROVE  DocumentInv' /\ [StoreNext]_storeVars
<1> USE DEF DocumentInv, Goto
<1>1. CASE LoadSettings
  <2>1. PICK hr \in ReadErrors \cup {"S_OK"} :
          /\ Load(hr)
          /\ Goto(CASE hr \in TransientErrors /\ Available(retry') -> "sleep"
                    [] hr = "ERROR_NOT_ENOUGH_MEMORY" /\ ~Available(retry') -> "crashed"
                    [] OTHER -> "startWindow")
    BY <1>1 DEF LoadSettings
  <2>2. ui' \in {"sleep", "crashed", "startWindow"} /\ (ui' = "sleep" => hr \in TransientErrors)
    BY <2>1
  <2>3. ui = "load" /\ tree = "empty" /\ ~root /\ ~page /\ page' = page
    BY <1>1 DEF LoadSettings, requestVars
  <2>4. saving' = "idle"
    BY <2>1, LoadStep DEF saveVars
  <2>5. ui' = "sleep" => tree' = "empty" /\ ~root'
    BY <2>1, <2>2, <2>3, LoadStep
  <2>6. StoreNext
    BY <2>1, <2>3 DEF StoreNext
  <2> QED
    BY <2>2, <2>3, <2>4, <2>5, <2>6
<1>2. CASE UserEdits
  BY <1>2 DEF UserEdits, Edit, uiVars, requestVars, saveVars, StoreNext
<1>3. CASE SaveClick
  BY <1>3 DEF SaveClick, BeginSave, uiVars, requestVars, StoreNext
<1>4. CASE SaveGoesOn
  <2>1. UNCHANGED <<tree, root, ui, page>> /\ ui = "run" /\ StoreNext
    BY <1>4 DEF SaveGoesOn, SaveContinues, CreateTemp, WriteTemp, FlushTemp, CloseTemp, MoveTemp, EndMove,
                StoreNext, uiVars, requestVars
  <2> QED
    BY <2>1
<1>5. CASE EndProcess \/ Kill
  BY <1>5 DEF EndProcess, Kill, ProcessEnded, NoProcess, ProcessEnds, ForgetDocument, Return, StoreNext
<1>6. CASE ServeRequest
  BY <1>6 DEF ServeRequest, ExitApp, ShowSettings, storeVars, saveVars
<1>7. CASE \/ Launch \/ Initialize \/ SleepBeforeRetry \/ StartWindow \/ StartWatcher \/ Rollback
           \/ Shutdown \/ LoopEnds
  BY <1>7 DEF Launch, Initialize, SleepBeforeRetry, StartWindow, StartWatcher, Rollback, Shutdown,
              CloseWindow, StopWatcher, StopWindow, LoopEnds, storeVars, saveVars, requestVars
<1>8. CASE \/ \E request \in {"exit", "settings"} : NotifyRequest(request)
           \/ Enqueue \/ UserClosesWindow
           \/ StartSecond \/ Activate \/ StoreError \/ SetEvent \/ WaitEnds \/ UNCHANGED appVars
  BY <1>8 DEF NotifyRequest, Enqueue, UserClosesWindow, StartSecond, Activate, StoreError, SetEvent, WaitEnds,
              appVars, storeVars, saveVars, uiVars, requestVars
<1> QED
  BY <1>1, <1>2, <1>3, <1>4, <1>5, <1>6, <1>7, <1>8 DEF AppNext, Startup

LEMMA DocumentInvariance == AppSpec => []DocumentInv
<1>1. AppInit => DocumentInv
  BY DEF AppInit, StoreInit, DocumentInv
<1>2. DocumentInv /\ [AppNext]_appVars => DocumentInv'
  BY DocumentInvStep
<1> QED
  BY <1>1, <1>2, PTL DEF AppSpec

\* The program, with its starts, retries, saves and deaths, does with the
\* settings what the specification of the store lets a client do.
THEOREM AppUsesStore == AppSpec => StoreSpec
<1>1. AppInit => StoreInit
  BY DEF AppInit
<1>2. DocumentInv /\ [AppNext]_appVars => [StoreNext]_storeVars
  BY DocumentInvStep
<1> QED
  BY <1>1, <1>2, DocumentInvariance, PTL DEF AppSpec, StoreSpec

\* So the settings file of the whole program is replaced in one piece, and
\* what save() reported to be saved survives.
THEOREM AppKeepsSettings == AppSpec => ImplementsAtomicFile /\ []SavedSurvives
BY AppUsesStore, StoreImplementsAtomicFile, SavedSurvivesCorrect, PTL

-----------------------------------------------------------------------------
(* How long the start waits                                                *)

RetryPolicies == [factor : Factors, ratio : Ratios, min : Nat, max : Nat]
RetryStates == [policy : RetryPolicies, attempts : 0..MaxAttempts, current : Nat, delay : Nat]

\* The retry states in which a delay respects its limit and its jitter, and
\* the limit is one whose product with the factor fits into the integers.
GoodRetry(r) ==
  /\ r \in RetryStates
  /\ r.current <= r.policy.max /\ r.policy.max <= LargestMax(r.policy.factor)
  /\ r.delay <= r.current
  /\ 100 * (r.delay + 1) > (100 - r.policy.ratio) * r.current

\* No factor is below 1, and a limit that fits is one that does not wrap.
LEMMA ScaleGrows ==
  ASSUME NEW num \in {2, 3, 4, 5, 7, 9, 11, 13, 15}, NEW d \in {1, 2, 4, 8}, d <= num,
         NEW value \in Nat, value <= MaxInt \div num
  PROVE  ((value * num) % (MaxInt + 1)) \div d \in Nat /\ ((value * num) % (MaxInt + 1)) \div d >= value
<1>1. MaxInt \in Nat /\ value * num \in Nat
  BY RetryAssumption
<1>2. value * num <= MaxInt
  BY <1>1
<1>3. (value * num) % (MaxInt + 1) = value * num
  BY <1>1, <1>2
<1>4. value * d <= value * num
  BY <1>1
<1>5. (value * num) \div d \in Nat /\ (value * num) \div d >= value
  BY <1>1, <1>4
<1> QED
  BY <1>3, <1>5

LEMMA FactorRanges ==
  ASSUME NEW f \in Factors
  PROVE  /\ f.num \in {2, 3, 4, 5, 7, 9, 11, 13, 15} /\ f.shift \in 0..3
         /\ 2 ^ f.shift \in {1, 2, 4, 8} /\ 2 ^ f.shift <= f.num
<1>1. 2 ^ 0 = 1 /\ 2 ^ 1 = 2 /\ 2 ^ 2 = 4 /\ 2 ^ 3 = 8
  OBVIOUS
<1>2. \/ f.num \in {9, 11, 13, 15} /\ f.shift = 3
      \/ f.num \in {5, 7} /\ f.shift \in {1, 2}
      \/ f.num = 3 /\ f.shift \in {0, 1}
      \/ f.num \in {2, 4} /\ f.shift = 0
  BY DEF Factors
<1>3. f.shift \in {0, 1, 2, 3} /\ 2 ^ f.shift \in {1, 2, 4, 8}
  BY <1>1, <1>2
<1>4. 2 ^ f.shift <= f.num
  <2>1. CASE f.num \in {9, 11, 13, 15} /\ f.shift = 3
    <3>1. 2 ^ f.shift = 8
      BY <1>1, <2>1
    <3> QED
      BY <2>1, <3>1
  <2>2. CASE f.num \in {5, 7} /\ f.shift \in {1, 2}
    <3>1. 2 ^ f.shift \in {2, 4}
      BY <1>1, <2>2
    <3> QED
      BY <2>2, <3>1
  <2>3. CASE f.num = 3 /\ f.shift \in {0, 1}
    <3>1. 2 ^ f.shift \in {1, 2}
      BY <1>1, <2>3
    <3> QED
      BY <2>3, <3>1
  <2>4. CASE f.num \in {2, 4} /\ f.shift = 0
    <3>1. 2 ^ f.shift = 1
      BY <1>1, <2>4
    <3> QED
      BY <2>4, <3>1
  <2> QED
    BY <1>2, <2>1, <2>2, <2>3, <2>4
<1> QED
  BY <1>2, <1>3, <1>4

\* nextDelay() never makes the delay smaller and keeps it below the limit.
LEMMA ScaleAndClampStep ==
  ASSUME NEW r, GoodRetry(r)
  PROVE  /\ ScaleAndClamp(r.policy, r.current) \in Nat
         /\ ScaleAndClamp(r.policy, r.current) >= r.current
         /\ ScaleAndClamp(r.policy, r.current) <= r.policy.max
<1> DEFINE num == r.policy.factor.num
           d == 2 ^ r.policy.factor.shift
           scaled == ((r.current * num) % (MaxInt + 1)) \div d
<1>1. r.policy.factor \in Factors /\ r.current \in Nat /\ r.policy.max \in Nat
  BY DEF GoodRetry, RetryStates, RetryPolicies
<1>2. num \in {2, 3, 4, 5, 7, 9, 11, 13, 15} /\ d \in {1, 2, 4, 8} /\ d <= num
  BY <1>1, FactorRanges
<1>3. r.current <= r.policy.max /\ r.policy.max <= MaxInt \div num
  BY DEF GoodRetry, LargestMax
<1>4. r.current <= MaxInt \div num
  BY <1>1, <1>2, <1>3, RetryAssumption
<1> HIDE DEF num, d
<1>5. scaled \in Nat /\ scaled >= r.current
  BY <1>1, <1>2, <1>4, ScaleGrows
<1>6. ScaleAndClamp(r.policy, r.current) = Lesser(scaled, r.policy.max)
  BY DEF ScaleAndClamp, num, d
<1> HIDE DEF scaled
<1> QED
  BY <1>1, <1>3, <1>5, <1>6 DEF Lesser

\* The jitter is a share of the delay.
LEMMA JitterStep ==
  ASSUME NEW p \in RetryPolicies, NEW max \in Nat, NEW j \in Jitter(p, max)
  PROVE  j \in Nat /\ j <= max /\ 100 * (j + 1) > (100 - p.ratio) * max
<1>1. p.ratio \in {0, 25, 50, 75, 100}
  BY DEF RetryPolicies, Ratios
<1>2. CASE p.ratio = 0
  BY <1>2 DEF Jitter
<1>3. CASE p.ratio = 25
  BY <1>3 DEF Jitter
<1>4. CASE p.ratio = 50
  BY <1>4 DEF Jitter
<1>5. CASE p.ratio = 75
  BY <1>5 DEF Jitter
<1>6. CASE p.ratio = 100
  BY <1>6 DEF Jitter
<1> QED
  BY <1>1, <1>2, <1>3, <1>4, <1>5, <1>6

LEMMA NextDelayStep ==
  ASSUME NEW r, GoodRetry(r), NEW s \in NextDelay(r)
  PROVE  /\ GoodRetry(s)
         /\ s.policy = r.policy /\ s.attempts = r.attempts /\ s.current >= r.current
<1> DEFINE next == ScaleAndClamp(r.policy, r.current)
<1>1. PICK j \in Jitter(r.policy, next) :
        s = [r EXCEPT !.current = next, !.delay = Lesser(j, r.policy.max)]
  BY DEF NextDelay
<1>2. next \in Nat /\ next >= r.current /\ next <= r.policy.max
  BY ScaleAndClampStep
<1> HIDE DEF next
<1>3. r \in RetryStates /\ r.policy \in RetryPolicies /\ r.policy.max \in Nat
  BY DEF GoodRetry, RetryStates, RetryPolicies
<1>4. j \in Nat /\ j <= next /\ 100 * (j + 1) > (100 - r.policy.ratio) * next
  BY <1>2, <1>3, JitterStep
<1>5. Lesser(j, r.policy.max) = j
  BY <1>2, <1>3, <1>4 DEF Lesser
<1>6. s = [r EXCEPT !.current = next, !.delay = j]
  BY <1>1, <1>5
<1>7. s \in RetryStates
  BY <1>2, <1>3, <1>4, <1>6 DEF RetryStates
<1>8. s.policy = r.policy /\ s.attempts = r.attempts /\ s.current = next /\ s.delay = j
  BY <1>3, <1>6 DEF RetryStates
<1> QED
  BY <1>2, <1>4, <1>7, <1>8 DEF GoodRetry

\* A new retry state is a good one, for every policy the templates accept.
LEMMA NewRetryStep ==
  ASSUME NEW p \in Policies
  PROVE  GoodRetry(NewRetry(p)) /\ NewRetry(p).attempts = 0 /\ NewRetry(p).policy = p
<1>1. p \in RetryPolicies
  <2>1. \A f \in Factors : LargestMax(f) \in Nat
    BY RetryAssumption, FactorRanges DEF LargestMax
  <2> QED
    BY <2>1, RetryAssumption DEF Policies, RetryPolicies
<1>2. p.min <= p.max /\ p.max <= LargestMax(p.factor)
  BY DEF Policies
<1>3. NewRetry(p) \in RetryStates
  BY <1>1, RetryAssumption DEF NewRetry, RetryStates, RetryPolicies
<1>4. 100 * (p.min + 1) > (100 - p.ratio) * p.min
  <2>1. p.min \in Nat /\ p.ratio \in {0, 25, 50, 75, 100}
    BY <1>1 DEF RetryPolicies, Ratios
  <2> QED
    BY <2>1
<1> QED
  BY <1>1, <1>2, <1>3, <1>4 DEF GoodRetry, NewRetry, RetryPolicies

LEMMA NoRetryStep == GoodRetry(NoRetry) /\ NoRetry.attempts = 0 /\ NoRetry.current = 0 /\ NoRetry.policy.max = 0
<1> DEFINE p == [factor |-> [num |-> 2, shift |-> 0], ratio |-> 0, min |-> 0, max |-> 0]
<1>1. p \in RetryPolicies
  BY DEF RetryPolicies, Factors, Ratios
<1>2. NoRetry = [policy |-> p, attempts |-> 0, current |-> 0, delay |-> 0]
  BY DEF NoRetry, NewRetry
<1>3. NoRetry \in RetryStates
  BY <1>1, <1>2, RetryAssumption DEF RetryStates
<1>4. 0 <= MaxInt \div 2
  BY RetryAssumption
<1> QED
  BY <1>2, <1>3, <1>4 DEF GoodRetry, LargestMax

\* At the N-th attempt initialize() has slept N times at most the limit, and
\* the last attempt is not followed by a sleep.
WaitInv ==
  /\ GoodRetry(retry) /\ waited \in Nat
  /\ ui \in {"off", "initialize"} => retry = NoRetry /\ waited = 0
  /\ ui = "load" => retry.attempts < MaxAttempts /\ waited <= retry.attempts * retry.policy.max
  /\ ui = "sleep" => /\ retry.attempts \in 1..(MaxAttempts - 1)
                     /\ waited <= (retry.attempts - 1) * retry.policy.max
  /\ WaitBounded

LEMMA GoodRetryType ==
  ASSUME NEW r, GoodRetry(r)
  PROVE  /\ r.attempts \in 0..MaxAttempts /\ r.current \in Nat /\ r.policy.max \in Nat
         /\ r.current <= r.policy.max
BY DEF GoodRetry, RetryStates, RetryPolicies

LEMMA AttemptStep ==
  ASSUME NEW r, GoodRetry(r), NEW n \in 0..MaxAttempts
  PROVE  LET s == [r EXCEPT !.attempts = n] IN
         GoodRetry(s) /\ s.attempts = n /\ s.policy = r.policy /\ s.current = r.current
<1> DEFINE s == [r EXCEPT !.attempts = n]
<1>1. r \in RetryStates
  BY DEF GoodRetry
<1>2. s \in RetryStates
  BY <1>1 DEF RetryStates
<1>3. s.attempts = n /\ s.policy = r.policy /\ s.current = r.current /\ s.delay = r.delay
  BY <1>1 DEF RetryStates
<1> HIDE DEF s
<1>4. GoodRetry(s)
  BY <1>2, <1>3 DEF GoodRetry
<1> QED
  BY <1>3, <1>4 DEF s

LEMMA NoProcessWait ==
  ASSUME retry' = NoRetry, waited' = 0, ui' \notin {"load", "sleep"}
  PROVE  WaitInv'
<1>1. (MaxAttempts - 1) * NoRetry.policy.max = 0
  BY NoRetryStep, RetryAssumption
<1> QED
  BY <1>1, NoRetryStep DEF WaitInv, WaitBounded

LEMMA UnchangedWait ==
  ASSUME WaitInv, UNCHANGED <<retry, waited>>,
         ui' = ui \/ ui' \notin {"off", "initialize", "load", "sleep"} \/ (ui = "off" /\ ui' = "initialize")
  PROVE  WaitInv'
BY DEF WaitInv, WaitBounded

LEMMA LoadWait ==
  ASSUME WaitInv, LoadSettings
  PROVE  WaitInv' /\ retry'.policy = retry.policy /\ retry'.current = retry.current
<1> DEFINE max == retry.policy.max
<1>1. PICK hr \in ReadErrors \cup {"S_OK"} :
        /\ retry' = CASE hr = "S_OK" -> retry
                     [] hr \in TransientErrors -> AdvanceAttempt(retry)
                     [] OTHER -> ForceExpire(retry)
        /\ ui' = CASE hr \in TransientErrors /\ Available(retry') -> "sleep"
                   [] hr = "ERROR_NOT_ENOUGH_MEMORY" /\ ~Available(retry') -> "crashed"
                   [] OTHER -> "startWindow"
  BY DEF LoadSettings, Goto
<1>2. /\ GoodRetry(retry) /\ waited \in Nat /\ waited' = waited /\ WaitBounded
      /\ retry.attempts < MaxAttempts /\ waited <= retry.attempts * max
  BY DEF WaitInv, LoadSettings
<1>3. retry.attempts \in 0..MaxAttempts /\ retry.attempts + 1 \in 0..MaxAttempts /\ MaxAttempts \in 0..MaxAttempts
  BY <1>2, GoodRetryType, RetryAssumption
<1>4. ui' \in {"sleep", "crashed", "startWindow"}
  BY <1>1
<1>5. "S_OK" \notin TransientErrors
  BY DEF TransientErrors
<1>6. /\ retry' \in {retry, AdvanceAttempt(retry), ForceExpire(retry)}
      /\ ui' = "sleep" => retry' = AdvanceAttempt(retry) /\ Available(retry')
  <2>1. CASE hr = "S_OK"
    BY <1>1, <1>5, <2>1
  <2>2. CASE hr \in TransientErrors
    BY <1>1, <1>5, <2>2
  <2>3. CASE hr \notin TransientErrors \cup {"S_OK"}
    BY <1>1, <2>3
  <2> QED
    BY <2>1, <2>2, <2>3
<1>7. GoodRetry(retry') /\ retry'.policy = retry.policy /\ retry'.current = retry.current
  <2>1. /\ AdvanceAttempt(retry) = [retry EXCEPT !.attempts = retry.attempts + 1]
        /\ ForceExpire(retry) = [retry EXCEPT !.attempts = MaxAttempts]
    BY DEF AdvanceAttempt, ForceExpire
  <2>2. CASE retry' = AdvanceAttempt(retry)
    BY <1>2, <1>3, <2>1, <2>2, AttemptStep
  <2>3. CASE retry' = ForceExpire(retry)
    BY <1>2, <1>3, <2>1, <2>3, AttemptStep
  <2> QED
    BY <1>2, <1>6, <2>2, <2>3
<1>8. ui' = "sleep" => retry'.attempts = retry.attempts + 1 /\ retry'.attempts < MaxAttempts
  BY <1>2, <1>3, <1>6, AttemptStep DEF AdvanceAttempt, Available
<1>9. ui' = "sleep" => retry'.attempts \in 1..(MaxAttempts - 1) /\ waited' <= (retry'.attempts - 1) * max
  BY <1>2, <1>3, <1>8, RetryAssumption
<1> QED
  BY <1>2, <1>4, <1>7, <1>9 DEF WaitInv, WaitBounded

LEMMA SleepWait ==
  ASSUME WaitInv, SleepBeforeRetry
  PROVE  WaitInv' /\ retry'.policy = retry.policy /\ retry'.current >= retry.current
<1> DEFINE max == retry.policy.max
           n == retry.attempts
<1>1. GoodRetry(retry) /\ waited \in Nat /\ n \in 1..(MaxAttempts - 1) /\ waited <= (n - 1) * max
  BY DEF WaitInv, SleepBeforeRetry
<1>2. max \in Nat /\ retry.current \in Nat /\ retry.current <= max
  BY <1>1, GoodRetryType
<1>3. waited' = waited + retry.current /\ retry' \in NextDelay(retry) /\ ui' = "load"
  BY DEF SleepBeforeRetry, Goto
<1>4. GoodRetry(retry') /\ retry'.policy = retry.policy /\ retry'.attempts = n /\ retry'.current >= retry.current
  BY <1>1, <1>3, NextDelayStep
<1> HIDE DEF max, n
<1>5. waited' \in Nat /\ waited' <= (n - 1) * max + max
  BY <1>1, <1>2, <1>3, RetryAssumption
<1>6. (n - 1) * max + max = n * max /\ n * max <= (MaxAttempts - 1) * max
  BY <1>1, <1>2, RetryAssumption
<1>7. waited' <= n * max /\ waited' <= (MaxAttempts - 1) * max /\ n < MaxAttempts
  BY <1>1, <1>2, <1>5, <1>6, RetryAssumption
<1> QED
  BY <1>3, <1>4, <1>5, <1>7 DEF WaitInv, WaitBounded, max, n

\* Every step keeps the invariant, and none makes a delay smaller.
LEMMA WaitInvStep ==
  ASSUME WaitInv, [AppNext]_appVars
  PROVE  WaitInv' /\ (retry'.policy = retry.policy => retry'.current >= retry.current)
<1> USE DEF Goto
<1> DEFINE Grows == retry'.policy = retry.policy => retry'.current >= retry.current
<1>1. retry.current \in Nat /\ retry.policy.max \in Nat /\ retry.current <= retry.policy.max
  BY GoodRetryType DEF WaitInv
<1>2. retry' = retry => Grows
  BY <1>1
<1>3. retry' = NoRetry => Grows
  BY <1>1, NoRetryStep
<1>4. CASE LoadSettings
  BY <1>1, <1>4, LoadWait
<1>5. CASE SleepBeforeRetry
  BY <1>5, SleepWait
<1>6. CASE Initialize
  <2>1. CASE ui' = "end" /\ retry' = retry
    <3>1. UNCHANGED <<retry, waited>> /\ ui' \notin {"off", "initialize", "load", "sleep"}
      BY <1>6, <2>1 DEF Initialize
    <3> QED
      BY <1>2, <2>1, <3>1, UnchangedWait
  <2>2. CASE ui' = "load" /\ \E p \in Policies : retry' = NewRetry(p)
    <3>1. GoodRetry(retry') /\ retry'.attempts = 0
      BY <2>2, NewRetryStep
    <3>2. retry'.policy.max \in Nat /\ retry'.current \in Nat
      BY <3>1, GoodRetryType
    <3>3. retry.current = 0 /\ waited' = 0
      BY <1>6, NoRetryStep DEF Initialize, WaitInv
    <3>4. 0 <= 0 * retry'.policy.max /\ 0 <= (MaxAttempts - 1) * retry'.policy.max /\ 0 < MaxAttempts
      BY <3>2, RetryAssumption
    <3> QED
      BY <2>2, <3>1, <3>2, <3>3, <3>4 DEF WaitInv, WaitBounded
  <2> QED
    BY <1>6, <2>1, <2>2 DEF Initialize
<1>7. CASE StartWindow
  BY <1>3, <1>7, NoProcessWait DEF StartWindow
<1>8. CASE EndProcess \/ Kill
  BY <1>3, <1>8, NoProcessWait DEF EndProcess, Kill, ProcessEnded, NoProcess
<1>9. CASE \/ Launch \/ StartWatcher \/ Rollback \/ Shutdown \/ ServeRequest \/ LoopEnds
  <2>1. UNCHANGED <<retry, waited>>
    BY <1>9 DEF Launch, StartWatcher, Rollback, Shutdown, CloseWindow, StopWatcher, StopWindow, ServeRequest, LoopEnds
  <2>2. ui' \notin {"off", "initialize", "load", "sleep"} \/ (ui = "off" /\ ui' = "initialize")
    BY <1>9 DEF Launch, StartWatcher, Rollback, Shutdown, CloseWindow, StopWatcher, StopWindow, ServeRequest,
                LoopEnds, ExitApp, ShowSettings
  <2> QED
    BY <1>2, <2>1, <2>2, UnchangedWait
<1>10. CASE \/ \E request \in {"exit", "settings"} : NotifyRequest(request)
            \/ Enqueue \/ UserClosesWindow \/ UserEdits \/ SaveClick \/ SaveGoesOn
            \/ StartSecond \/ Activate \/ StoreError \/ SetEvent \/ WaitEnds \/ UNCHANGED appVars
  <2>1. UNCHANGED <<retry, waited, ui>>
    BY <1>10 DEF NotifyRequest, Enqueue, UserClosesWindow, UserEdits, SaveClick, SaveGoesOn,
                 StartSecond, Activate, StoreError, SetEvent, WaitEnds, appVars, uiVars
  <2> QED
    BY <1>2, <2>1, UnchangedWait
<1> QED
  BY <1>4, <1>5, <1>6, <1>7, <1>8, <1>9, <1>10 DEF AppNext, Startup

LEMMA WaitInvariance == AppSpec => []WaitInv
<1>1. AppInit => WaitInv
  <2>1. (MaxAttempts - 1) * NoRetry.policy.max = 0
    BY NoRetryStep, RetryAssumption
  <2> QED
    BY <2>1, NoRetryStep DEF AppInit, WaitInv, WaitBounded
<1>2. WaitInv /\ [AppNext]_appVars => WaitInv'
  BY WaitInvStep
<1> QED
  BY <1>1, <1>2, PTL DEF AppSpec

\* A delay of the retries never falls back, with any factor, whatever the width
\* of its integers and the limit the policy was accepted with.
THEOREM DelayGrowsCorrect == AppSpec => DelayGrows
<1>1. WaitInv /\ [AppNext]_appVars => [retry'.policy = retry.policy => retry'.current >= retry.current]_retry
  BY WaitInvStep
<1> QED
  BY <1>1, WaitInvariance, PTL DEF AppSpec, DelayGrows

-----------------------------------------------------------------------------
(* The types, and the invariant of the start                               *)

\* What the processes hold apart from the store and the retries.
RequestTypeOK ==
  /\ listening \in BOOLEAN /\ notifying \in {"none", "exit", "settings"}
  /\ queue \in Seq({"exit", "settings"}) /\ quitting \in BOOLEAN /\ page \in BOOLEAN

UiTypeOK ==
  /\ ui \in {"off", "initialize", "load", "sleep", "startWindow", "startWatcher", "rollback",
             "run", "closeWindow", "stopWatcher", "stopWindow", "end", "crashed"}
  /\ stuck \subseteq {"window", "watcher"}
  /\ second \in {"none", "waiting", "EXIT_SUCCESS", "EXIT_FAILURE"}
  /\ activation \in {"none", "pending", "done", "failed"}

LEMMA RequestTypeStep ==
  ASSUME RequestTypeOK, [AppNext]_appVars
  PROVE  RequestTypeOK'
<1> USE DEF RequestTypeOK
<1>1. CASE Enqueue
  BY <1>1 DEF Enqueue, uiVars
<1>2. CASE ServeRequest
  <2>1. queue' \in Seq({"exit", "settings"})
    BY <1>2, HeadTailProperties DEF ServeRequest
  <2> QED
    BY <1>2, <2>1 DEF ServeRequest, ExitApp, ShowSettings
<1>3. CASE \E request \in {"exit", "settings"} : NotifyRequest(request)
  BY <1>3 DEF NotifyRequest, uiVars
<1>4. CASE EndProcess \/ Kill
  <2>1. <<>> \in Seq({"exit", "settings"})
    OBVIOUS
  <2> QED
    BY <1>4, <2>1 DEF EndProcess, Kill, ProcessEnded, NoProcess
<1>5. CASE Launch \/ CloseWindow \/ StopWindow \/ UserClosesWindow
  BY <1>5 DEF Launch, CloseWindow, StopWindow, UserClosesWindow, requestVars, uiVars
<1>6. CASE \/ Startup \/ StopWatcher \/ LoopEnds \/ UserEdits \/ SaveClick \/ SaveGoesOn
           \/ StartSecond \/ Activate \/ StoreError \/ SetEvent \/ WaitEnds \/ UNCHANGED appVars
  <2>1. UNCHANGED <<listening, notifying, queue, quitting, page>>
    BY <1>6 DEF Startup, Initialize, LoadSettings, SleepBeforeRetry, StartWindow, StartWatcher, Rollback,
                StopWatcher, LoopEnds, UserEdits, SaveClick, SaveGoesOn, StartSecond, Activate, StoreError,
                SetEvent, WaitEnds, appVars, uiVars, requestVars
  <2> QED
    BY <2>1
<1> QED
  BY <1>1, <1>2, <1>3, <1>4, <1>5, <1>6 DEF AppNext, Shutdown

LEMMA UiTypeStep ==
  ASSUME UiTypeOK, [AppNext]_appVars
  PROVE  UiTypeOK'
<1> USE DEF UiTypeOK, Goto
<1>1. CASE LoadSettings
  <2>1. ui' \in {"sleep", "crashed", "startWindow"}
    BY <1>1 DEF LoadSettings
  <2> QED
    BY <1>1, <2>1 DEF LoadSettings, secondVars
<1>2. CASE Rollback \/ StopWatcher \/ StopWindow
  BY <1>2 DEF Rollback, StopWatcher, StopWindow, Stop, secondVars
<1>3. CASE \/ Launch \/ Initialize \/ SleepBeforeRetry \/ StartWindow \/ StartWatcher
           \/ CloseWindow \/ ServeRequest \/ LoopEnds
  BY <1>3 DEF Launch, Initialize, SleepBeforeRetry, StartWindow, StartWatcher, CloseWindow, ServeRequest, LoopEnds,
              ExitApp, ShowSettings, secondVars
<1>4. CASE EndProcess \/ Kill
  BY <1>4 DEF EndProcess, Kill, ProcessEnded, NoProcess
<1>5. CASE \/ \E request \in {"exit", "settings"} : NotifyRequest(request)
           \/ Enqueue \/ UserClosesWindow \/ UserEdits \/ SaveClick \/ SaveGoesOn \/ UNCHANGED appVars
  BY <1>5 DEF NotifyRequest, Enqueue, UserClosesWindow, UserEdits, SaveClick, SaveGoesOn, appVars, uiVars, secondVars
<1>6. CASE StartSecond \/ Activate \/ StoreError \/ SetEvent \/ WaitEnds
  BY <1>6 DEF StartSecond, Activate, StoreError, SetEvent, WaitEnds, uiVars
<1> QED
  BY <1>1, <1>2, <1>3, <1>4, <1>5, <1>6 DEF AppNext, Startup, Shutdown

\* The state of the program is well formed, the start waits for a bounded time
\* with delays and jitter in their range, and only for a file that was locked.
THEOREM AppInvCorrect == AppSpec => []AppInv
<1>1. AppInit => ThreadsInv /\ RedirectInv /\ RequestTypeOK /\ UiTypeOK
  <2>1. <<>> \in Seq({"exit", "settings"})
    OBVIOUS
  <2>2. ASSUME AppInit
        PROVE  ThreadsInv /\ RedirectInv
    BY <2>2 DEF AppInit, ThreadsInv, RedirectInv
  <2>3. ASSUME AppInit
        PROVE  RequestTypeOK /\ UiTypeOK
    BY <2>1, <2>3 DEF AppInit, RequestTypeOK, UiTypeOK
  <2> QED
    BY <2>2, <2>3
<1>2. ThreadsInv /\ [AppNext]_appVars => ThreadsInv'
  BY ThreadsInvStep
<1>3. RedirectInv /\ [AppNext]_appVars => RedirectInv'
  BY RedirectInvStep
<1>4. RequestTypeOK /\ [AppNext]_appVars => RequestTypeOK'
  BY RequestTypeStep
<1>5. UiTypeOK /\ [AppNext]_appVars => UiTypeOK'
  BY UiTypeStep
<1>6. StoreInv /\ DocumentInv /\ WaitInv /\ ThreadsInv /\ RedirectInv /\ RequestTypeOK /\ UiTypeOK => AppInv
  <2> SUFFICES ASSUME StoreInv, DocumentInv, WaitInv, ThreadsInv, RedirectInv, RequestTypeOK, UiTypeOK
               PROVE  AppInv
    OBVIOUS
  <2>1. AppTypeOK
    BY GoodRetryType DEF AppTypeOK, StoreInv, WaitInv, ThreadsInv, RedirectInv, RequestTypeOK, UiTypeOK
  <2>2. WaitBounded /\ JitterInRange
    BY DEF WaitInv, GoodRetry, JitterInRange
  <2>3. RetriedUntouched
    BY DEF DocumentInv, RetriedUntouched
  <2> QED
    BY <2>1, <2>2, <2>3 DEF AppInv
<1> QED
  BY <1>1, <1>2, <1>3, <1>4, <1>5, <1>6, AppUsesStore, StoreInvariance, DocumentInvariance, WaitInvariance, PTL
  DEF AppSpec

=============================================================================
