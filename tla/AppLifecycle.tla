---------------------------- MODULE AppLifecycle ----------------------------
(***************************************************************************)
(* The life of the program: wWinMain() and the redirection of a second      *)
(* instance (src/winui3/main.cc), App (src/winui3/App.xaml.cc) on the UI    *)
(* thread with its dispatcher queue, AppContext::initialize() and exit()    *)
(* (src/app/context), the notifications of the message window's thread and  *)
(* the settings store.  The worker threads appear by what start() and       *)
(* stop() return; modules WindowController and WinEventHookController have  *)
(* their details.                                                           *)
(***************************************************************************)
EXTENDS Retry, SettingsStore, Sequences

CONSTANTS
  MaxQueue,  \* requests in the dispatcher queue at a time
  AppFaults  \* "monitors", "window", "watcher", "stop", "redirect"

VARIABLES
  ui,          \* where the UI thread stands; "off" when no process runs
  retry,       \* the retry state of initialize()
  waited,      \* what initialize() has slept
  running,     \* the components among "window" and "watcher" whose threads run
  stuck,       \* the components whose stop() failed
  listening,   \* whether App listens to the message window
  notifying,   \* the request the message thread is about to enqueue
  queue,       \* the dispatcher queue
  quitting,    \* whether Exit() has been called
  page,        \* whether the settings window shows the rule editor
  second,      \* the second instance of the program
  activation,  \* its RedirectActivationToAsync()
  redirect     \* its RedirectState

uiVars == <<ui, retry, waited, running, stuck, quitting>>
requestVars == <<listening, notifying, queue, page>>
secondVars == <<second, activation, redirect>>
appVars == <<storeVars, uiVars, requestVars, secondVars>>

NoProcess ==
  /\ retry' = NoRetry /\ waited' = 0
  /\ running' = {} /\ stuck' = {} /\ quitting' = FALSE
  /\ listening' = FALSE /\ notifying' = "none" /\ queue' = <<>> /\ page' = FALSE

AppInit ==
  /\ StoreInit
  /\ ui = "off" /\ retry = NoRetry /\ waited = 0
  /\ running = {} /\ stuck = {} /\ quitting = FALSE
  /\ listening = FALSE /\ notifying = "none" /\ queue = <<>> /\ page = FALSE
  /\ second = "none" /\ activation = "none"
  /\ redirect = [event |-> FALSE, hr |-> "S_OK"]

Goto(pc) == ui' = pc

-----------------------------------------------------------------------------
(* wWinMain(), App::App() and AppContext::initialize()                      *)

\* App listens to the message window before it initializes the context.
Launch ==
  /\ ui = "off"
  /\ Goto("initialize")
  /\ listening' = TRUE
  /\ UNCHANGED <<storeVars, retry, waited, running, stuck, quitting, notifying, queue, page, secondVars>>

\* The operation context and the message window, before their threads; a
\* failure is thrown from App's constructor and ends the process.
Initialize ==
  /\ ui = "initialize"
  /\ \/ Goto("load") /\ \E p \in Policies : retry' = NewRetry(p)
     \/ "monitors" \in AppFaults /\ Goto("end") /\ UNCHANGED retry
  /\ UNCHANGED <<storeVars, waited, running, stuck, quitting, requestVars, secondVars>>

LoadSettings_RetriesAll ==
  /\ ui = "load"
  /\ \E hr \in ReadErrors \cup {"S_OK"} :
       /\ Load(hr)
       /\ retry' = IF hr = "S_OK" THEN retry ELSE AdvanceAttempt(retry)
       /\ Goto(IF hr = "S_OK" THEN "startWindow" ELSE "sleep")
  /\ UNCHANGED <<waited, running, stuck, quitting, requestVars, secondVars>>

\* Only an error that may pass is tried again; one code of the two for a lack
\* of memory ends the process.
LoadSettings ==
  /\ ui = "load"
  /\ \E hr \in ReadErrors \cup {"S_OK"} :
       /\ Load(hr)
       /\ retry' = CASE hr = "S_OK" -> retry
                     [] hr \in TransientErrors -> AdvanceAttempt(retry)
                     [] OTHER -> ForceExpire(retry)
       /\ Goto(CASE hr \in TransientErrors /\ Available(retry') -> "sleep"
                 [] hr = "ERROR_NOT_ENOUGH_MEMORY" /\ ~Available(retry') -> "crashed"
                 [] OTHER -> "startWindow")
  /\ UNCHANGED <<waited, running, stuck, quitting, requestVars, secondVars>>

SleepBeforeRetry ==
  /\ ui = "sleep"
  /\ waited' = waited + retry.current
  /\ retry' \in NextDelay(retry)
  /\ Goto("load")
  /\ UNCHANGED <<storeVars, running, stuck, quitting, requestVars, secondVars>>

StartWindow ==
  /\ ui = "startWindow"
  /\ retry' = NoRetry /\ waited' = 0
  /\ \/ running' = running \cup {"window"} /\ Goto("startWatcher")
     \/ "window" \in AppFaults /\ running' = running /\ Goto("end")
  /\ UNCHANGED <<storeVars, stuck, quitting, requestVars, secondVars>>

StartWatcher_NoRollback ==
  /\ ui = "startWatcher"
  /\ \/ running' = running \cup {"watcher"} /\ Goto("run")
     \/ "watcher" \in AppFaults /\ running' = running /\ Goto("end")
  /\ UNCHANGED <<storeVars, retry, waited, stuck, quitting, requestVars, secondVars>>

StartWatcher ==
  /\ ui = "startWatcher"
  /\ \/ running' = running \cup {"watcher"} /\ Goto("run")
     \/ "watcher" \in AppFaults /\ running' = running /\ Goto("rollback")
  /\ UNCHANGED <<storeVars, retry, waited, stuck, quitting, requestVars, secondVars>>

\* stop() of a component: a failure is only logged.  The message thread
\* closes its window between two messages.
Stop(component) ==
  \/ /\ component = "window" => notifying = "none"
     /\ running' = running \ {component}
     /\ UNCHANGED stuck
  \/ /\ "stop" \in AppFaults
     /\ component \in running
     /\ stuck' = stuck \cup {component}
     /\ UNCHANGED running

Rollback_StartsAgain ==
  /\ ui = "rollback"
  /\ Stop("window")
  /\ Goto("startWindow")
  /\ UNCHANGED <<storeVars, retry, waited, quitting, requestVars, secondVars>>

Rollback ==
  /\ ui = "rollback"
  /\ Stop("window")
  /\ Goto("end")
  /\ UNCHANGED <<storeVars, retry, waited, quitting, requestVars, secondVars>>

-----------------------------------------------------------------------------
(* Requests: the message thread enqueues them, the UI thread serves them.   *)

\* A click on the tray icon or a command of its menu: notify() has found App
\* among the listeners ...
NotifyRequest(request) ==
  /\ "window" \in running /\ notifying = "none" /\ listening
  /\ ui # "crashed"
  /\ Len(queue) < MaxQueue
  /\ notifying' = request
  /\ UNCHANGED <<storeVars, uiVars, listening, queue, page, secondVars>>

\* ... and calls it; App enqueues a lambda with a raw pointer to itself.
Enqueue ==
  /\ notifying # "none" /\ ui # "crashed"
  /\ queue' = Append(queue, notifying)
  /\ notifying' = "none"
  /\ UNCHANGED <<storeVars, uiVars, listening, page, secondVars>>

\* showSettingsWindow(): an open window is shown again.  The page of a new
\* one dereferences the root of the document.
ShowSettings ==
  /\ IF page \/ root THEN page' = TRUE /\ Goto("run") ELSE page' = page /\ Goto("crashed")
  /\ UNCHANGED listening

\* exitApp()
ExitApp ==
  /\ listening' = FALSE
  /\ Goto("closeWindow")
  /\ UNCHANGED page

ServeRequest_ExitOnce ==
  /\ ui = "run" /\ saving = "idle" /\ queue # <<>>
  /\ queue' = Tail(queue)
  /\ IF Head(queue) = "exit" /\ ~page THEN ExitApp ELSE ShowSettings
  /\ UNCHANGED <<storeVars, retry, waited, running, stuck, quitting, notifying, secondVars>>

ServeRequest ==
  /\ ui = "run" /\ saving = "idle" /\ queue # <<>>
  /\ queue' = Tail(queue)
  /\ IF Head(queue) = "exit" THEN ExitApp ELSE ShowSettings
  /\ UNCHANGED <<storeVars, retry, waited, running, stuck, quitting, notifying, secondVars>>

CloseWindow ==
  /\ ui = "closeWindow"
  /\ page' = FALSE
  /\ Goto("stopWatcher")
  /\ UNCHANGED <<storeVars, retry, waited, running, stuck, quitting, listening, notifying, queue, secondVars>>

StopWatcher ==
  /\ ui = "stopWatcher"
  /\ Stop("watcher")
  /\ Goto("stopWindow")
  /\ UNCHANGED <<storeVars, retry, waited, quitting, requestVars, secondVars>>

StopWindow ==
  /\ ui = "stopWindow"
  /\ Stop("window")
  /\ Goto("run") /\ quitting' = TRUE
  /\ UNCHANGED <<storeVars, retry, waited, requestVars, secondVars>>

\* The user closes the settings window; the program goes on.
UserClosesWindow ==
  /\ ui = "run" /\ saving = "idle" /\ page
  /\ page' = FALSE
  /\ UNCHANGED <<storeVars, uiVars, listening, notifying, queue, secondVars>>

\* The user edits and saves; save() keeps the UI thread until it returns.
UserEdits == ui = "run" /\ page /\ Edit /\ UNCHANGED <<uiVars, requestVars, secondVars>>
SaveClick == ui = "run" /\ page /\ BeginSave /\ UNCHANGED <<uiVars, requestVars, secondVars>>
SaveGoesOn == ui = "run" /\ SaveContinues /\ UNCHANGED <<uiVars, requestVars, secondVars>>

\* The message loop ends some time after Exit(); requests that were queued
\* before may still be served, among them a second exit.
LoopEnds ==
  /\ ui = "run" /\ saving = "idle" /\ quitting
  /\ Goto("end")
  /\ UNCHANGED <<storeVars, retry, waited, running, stuck, quitting, requestVars, secondVars>>

-----------------------------------------------------------------------------
(* The end of the process                                                   *)

\* A pending activation of the second instance fails when the first one ends.
ProcessEnded ==
  /\ Goto("off")
  /\ NoProcess
  /\ activation' = IF activation = "pending" THEN "failed" ELSE activation
  /\ UNCHANGED <<second, redirect>>

EndProcess == ui \in {"end", "crashed"} /\ ProcessEnds /\ ProcessEnded
Kill == "kill" \in StoreFaults /\ ui # "off" /\ ProcessEnds /\ ProcessEnded

-----------------------------------------------------------------------------
(* RedirectActivation() of a second instance                               *)

StartSecond ==
  /\ second = "none" /\ ui # "off"
  /\ second' = "waiting" /\ activation' = "pending"
  /\ redirect' = [event |-> FALSE, hr |-> "S_OK"]
  /\ UNCHANGED <<storeVars, uiVars, requestVars>>

\* The first instance answers, or the call fails.
Activate ==
  /\ activation = "pending"
  /\ activation' \in {"done"} \cup (IF "redirect" \in AppFaults THEN {"failed"} ELSE {})
  /\ UNCHANGED <<storeVars, uiVars, requestVars, second, redirect>>

\* The coroutine resumes on a thread of the pool: it stores the error ...
StoreError ==
  /\ activation = "failed" /\ redirect.hr = "S_OK"
  /\ redirect' = [redirect EXCEPT !.hr = "E_FAIL"]
  /\ UNCHANGED <<storeVars, uiVars, requestVars, second, activation>>

SetEvent_First ==
  /\ activation \in {"done", "failed"}
  /\ ~redirect.event
  /\ redirect' = [redirect EXCEPT !.event = TRUE]
  /\ UNCHANGED <<storeVars, uiVars, requestVars, second, activation>>

\* ... and sets the event when its scope ends.
SetEvent ==
  /\ activation = "done" \/ redirect.hr # "S_OK"
  /\ ~redirect.event
  /\ redirect' = [redirect EXCEPT !.event = TRUE]
  /\ UNCHANGED <<storeVars, uiVars, requestVars, second, activation>>

\* CoWaitForMultipleObjects() ends with the event, with an error or after
\* kRedirectActivationTimeout; the coroutine keeps the state alive.
WaitEnds ==
  /\ second = "waiting"
  /\ \/ redirect.event /\ second' = IF redirect.hr = "S_OK" THEN "EXIT_SUCCESS" ELSE "EXIT_FAILURE"
     \/ "redirect" \in AppFaults /\ second' = "EXIT_FAILURE"
  /\ UNCHANGED <<storeVars, uiVars, requestVars, activation, redirect>>

-----------------------------------------------------------------------------

Startup == Initialize \/ LoadSettings \/ SleepBeforeRetry \/ StartWindow \/ StartWatcher \/ Rollback
Shutdown == CloseWindow \/ StopWatcher \/ StopWindow

AppNext ==
  \/ Launch \/ Startup \/ Shutdown
  \/ \E request \in {"exit", "settings"} : NotifyRequest(request)
  \/ Enqueue \/ ServeRequest \/ LoopEnds
  \/ UserClosesWindow \/ UserEdits \/ SaveClick \/ SaveGoesOn
  \/ EndProcess \/ Kill
  \/ StartSecond \/ Activate \/ StoreError \/ SetEvent \/ WaitEnds

\* The threads run; the dispatcher queue is served in order, whatever else
\* the user does in between.
AppFairness ==
  /\ WF_appVars(Startup) /\ WF_appVars(Shutdown) /\ WF_appVars(Enqueue)
  /\ WF_appVars(SaveGoesOn) /\ WF_appVars(EndProcess)
  /\ SF_appVars(ServeRequest) /\ SF_appVars(LoopEnds)

AppSpec == AppInit /\ [][AppNext]_appVars /\ AppFairness

-----------------------------------------------------------------------------
(* Properties                                                              *)

\* The variables of the process hold values the code's types allow.
AppTypeOK ==
  /\ StoreTypeOK
  /\ ui \in {"off", "initialize", "load", "sleep", "startWindow", "startWatcher", "rollback",
             "run", "closeWindow", "stopWatcher", "stopWindow", "end", "crashed"}
  /\ retry.attempts \in 0..MaxAttempts /\ retry.current \in Nat /\ waited \in Nat
  /\ running \subseteq {"window", "watcher"} /\ stuck \subseteq {"window", "watcher"}
  /\ listening \in BOOLEAN /\ notifying \in {"none", "exit", "settings"}
  /\ queue \in Seq({"exit", "settings"}) /\ quitting \in BOOLEAN /\ page \in BOOLEAN
  /\ second \in {"none", "waiting", "EXIT_SUCCESS", "EXIT_FAILURE"}
  /\ activation \in {"none", "pending", "done", "failed"}
  /\ redirect \in [event : BOOLEAN, hr : {"S_OK", "E_FAIL"}]

\* When wWinMain() returns and the static objects are destroyed no thread is
\* left running, except one whose stop() failed; so after a start that failed
\* half way, too, and after an exit that was asked for more than once.
StoppedAtEnd == ui = "end" => running \subseteq stuck

\* initialize() keeps the UI thread for a bounded time only.
WaitBounded == waited <= (MaxAttempts - 1) * retry.policy.max

\* A delay grows up to its limit and never falls back, whatever factor the
\* policy has: its product does not overflow.
DelayGrows == [][retry'.policy = retry.policy => retry'.current >= retry.current]_retry

\* Jitter takes at most its share of a delay (up to rounding) and adds nothing to it.
JitterInRange ==
  /\ retry.delay <= retry.current
  /\ 100 * (retry.delay + 1) > (100 - retry.policy.ratio) * retry.current

\* An error that cannot pass is not waited for: initialize() sleeps only after
\* a file that was locked, so the document is untouched when it tries again.
RetriedUntouched == ui = "sleep" => tree = "empty" /\ ~root

\* Starting waits as the policy says and only where waiting can help.
AppInv == AppTypeOK /\ WaitBounded /\ JitterInRange /\ RetriedUntouched

\* The second instance reports success only if the first one was activated,
\* however late the answer comes and whether or not it is an error.
RedirectReportsTruth == second = "EXIT_SUCCESS" => activation = "done"

\* An exit that was asked for ends the process.
ExitServed == "exit" \in {queue[i] : i \in DOMAIN queue} ~> ui = "off"

\* The start of the program ends, with or without settings.
StartEnds == ui = "load" ~> ui \in {"run", "off"}

\* The settings of the rule editor can be opened with every file that load()
\* accepts ("A missing or empty file yields an empty document.", comment of
\* load()).
SettingsOpen == ui = "crashed" => file \notin {"missing", "empty"}

=============================================================================
