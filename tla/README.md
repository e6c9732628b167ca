# RoxyGlance in TLA+

RoxyGlance is a Windows tray program that moves and resizes the windows of other
programs by rules the user writes in a YAML file. This directory holds TLA+
modules translated from its C++ source, TLC configurations that check them on
small instances, and TLAPS proofs of the most important results for every value
of the constants. `PROJECT.json` maps each definition to the source lines it
stands for, and lists the components, the runs, the hazards of the code, the
findings, the theorems, and for each property one mistake in the code it would find.

Paths below are relative to `src/src/app/` unless they start with `winui3/`,
`tests/` or `docs/`, which are directories of `src/`, as `winui3/` is one of `src/src/`.

## 1. The system

Three kinds of threads run:

* the **UI thread**: starts and stops everything (`context/AppContext`), runs the
  WinUI 3 application, edits and saves settings;
* the **message thread**: owns a hidden window (`message/MessageWindow`) with the
  tray icon, receives the tray menu, display changes and explorer restarts;
* the **hook thread**: receives accessibility events (`window/WindowStateWatcher`),
  keeps the cache of window states and runs the rules (`engine/RuleEngine`).

| Component | State | Operations | Interacts with |
| --- | --- | --- | --- |
| `win32/MessageLoopThreadController` | `state_`, `data_`, `mutex_`, `retry_factory_` | `start`, `stopThread`, `reapThread`, `reapThreadAfterStartFailure`, destructor | its subclasses; the worker thread |
| `win32/ThreadContext` | `hr_` on the stack of `start()` | `notify`, `notifyLastError`, `wait_and_load` | starter and worker |
| `win32/WinEventHookController` | the hook of its worker | `start`, `stop`, worker | `WindowStateWatcher` |
| `win32/WindowController` | `hwnd_`, window class, window | `start`, `stop`, worker | `MessageWindow` |
| `win32/TrayIcon` | `hwnd_`, thread-local `that_`, the shell's icon | `attach`, `detach`, `showMenu` | shell, `MessageWindow` |
| `message/MessageWindow` | listeners | `windowProc` | tray icon, `AppContext`, monitors, App |
| `utility/RetryState`, `backoff` | attempts, delay | `advanceAttempt`, `forceExpire`, `nextDelay` | thread controller, `AppContext` |
| `window/WindowStateWatcher`, `WindowStateCache`, `WindowState` | one entry per window handle, filled lazily | event callback, `getOrCreate`, invalidation | hook thread, rule engine |
| `engine/RuleEngine` | published rule set | `checkRules`, `onSettingsChanged` | UI thread publishes, hook thread reads |
| `engine/MoveAndResizeOperation` | bounds computed once | `execute` | monitor cache, window state |
| `compiler/` | none | document to rule set | settings, monitors |
| `monitor/MonitorStateCache` | monitor states | `initialize`, `findById`, `onDisplayChanged` | message thread writes, hook and UI threads read |
| `utility/CallbackHost`, `ListenerHost` | up to three callbacks | add, remove, invoke | everything that observes |
| `settings/` reader and store | YAML tree, its root | `load`, `save` | files, `AppContext`, rule editor |
| `settings/` document | nodes of a rule and the objects made of them | read, write | compiler, rule editor |
| `win32/file` | files | `ReadFile`, `WriteFileAtomic` | settings |
| `context/AppContext` | the parts above | `initialize`, `exit` | UI thread |
| `logging/` | circular buffer | `addLog` | all threads, `LogsViewModel` |
| `winui3/` application | instances, requests, settings window | redirect, `exitApp`, `showSettingsWindow` | dispatcher queue, `AppContext` |
| `winui3/` view models | mirrors of monitors and logs, pending edits of rules | callbacks, edits, apply, save | caches, logger, settings document |
| `winui3/` settings window | page shown, history, selected item | navigate, back, forward | its pages |

What makes it hard: workers that are started and stopped with bounded retries and
may call back into their controller; contexts on a stack that another thread
writes; events that describe windows which have changed or gone since; caches
filled lazily on one thread and invalidated by events; a rule set replaced while
it is used; monitor states and logs shared without locks; files replaced with
crashes possible in between. `PROJECT.json` lists each such hazard at its line.

What makes each component correct:

* *thread controllers*: one worker at a time, no leaked or dangling handle, a
  failed `stop()` can be repeated, every call ends, nothing left behind
  (hook, window class) when the controller is ready, no write into a dead stack
  frame;
* *tray icon and message window*: no icon forgotten, the icon restored after an
  explorer restart, detached before destruction;
* *windows and rules*: no cached answer that differs from the window without an
  invalidation on the way, only matching windows moved, matching windows moved;
* *monitors*: the cache ends up with what the system shows, mirrors catch up with
  it, no callback into a destroyed view model, windows placed in the work area;
* *settings*: a reader of the file finds a whole text, what was saved is found
  again, saving keeps what the user did not change, the three views of a rule
  (document, memory, page) agree, rules match as the documentation says;
* *application*: every thread is stopped at the end of the process, also after a
  start that failed half way or an exit asked for twice; waiting is bounded; a
  second instance does not report a success it did not have;
* *logs and settings window*: the page shows the buffer; going back loses nothing.

## 2. Modules

```
ThreadLifecycle                  abstract: the life of the thread one controller owns
  ^ implemented by
MessageLoopThreadController      base class, its subclass and worker left open
  ^ implemented by          ^ implemented by
WinEventHookController      WindowController
                              ^ implemented by, composed with TrayIcon
                            MessageWindow
WindowRules                      watcher, window cache and rule engine
Monitors                         monitor cache, callbacks, mirrors, relative placement
AtomicFile                       abstract: a file that is replaced in one piece
  ^ implemented by
SettingsStore                    load(), save() and WriteFileAtomic()
  ^ extended, together with Retry, by
AppLifecycle                     main, App, AppContext
SettingsNodes <- RuleCompiler <- RuleEditor    (each extends the one before)
SettingsWindow <- LogView
```

Modules whose names begin with MC give a module its instances for TLC; those that
end in `_proofs` hold the proofs.

**ThreadLifecycle** is the promise of a controller to its owner: a thread is begun
only when none is owned or alive, it is let go of only after it ended, the process
is given up only while a thread is owned. No locks, messages or retries.

**MessageLoopThreadController** has one action per stretch of code between two
points where another thread can see or change something: taking `mutex_`, posting,
waiting, closing. `state`, `data`, `mutex` are the members `state_`, `data_`,
`mutex_`; `maxAttempts` is the limit of the factory in `retry_factory_`;
`call[c]` is the call caller `c` is in with its locals (the thread handle it works
on, the attempts of its retry state, the first failure of the attempt). `handles`
are the open thread handles, so that a leaked or doubly closed handle is visible.
What a subclass and its worker do is nondeterministic here (what posting returns,
when and with which code the worker exits, whether a callback calls `stop()`).
A caller goes `idle -> post -> wait -> post ... -> reap -> idle` in `stopThread()`
(`lastWait` is the single wait after a post that cannot be retried), and
`idle -> started -> idle` or `started -> startWait -> startReap -> idle` in
`start()`. Delays are abstracted: a wait may time out at any moment at which the
thread has not exited.

**WinEventHookController** and **WindowController** EXTEND it and conjoin the code of
the subclass to its actions: where the worker is in its function, the
`ThreadContext`, the message queue (`quit`, `closing`), the hook, the window and
the window class. Each checks `ImplementsBase == Spec`: every step is one of the
base class.

**TrayIcon** is a set of operators on the icon's variables and on `menu`, the record
of `showMenu()`: who owns the message filter hook, in which frame, which hooks are
installed and which the system refused to remove. The menu's modal loop dispatches
messages of the window, so `showMenu()` can be entered again from inside itself and
the window may be destroyed below it. **MessageWindow** uses these operators,
EXTENDS `WindowController` and fixes what `windowProc()` decides: whether
`WM_CREATE` succeeds and with which code `WM_DESTROY` quits, plus the restart of
the explorer. It checks that it is a `WindowController`, and through it a
controller of the base class. A window is named by the thread that created it.

**WindowRules** follows one event from the system to the operation. `window` is what
each handle names at the moment, `queue` the events waiting for the hook thread,
`cache`/`cached` the entries of `StateCache`, `ruleSet` the published rule set and
`job` the callback the hook thread is in: `check` (inside `checkRules()`, with the
rules left of its snapshot and the conditions passed), then `filter` (the part of
`winEventProcStatic()` after line 42). Each condition read is a step, because the
window may change between two of them. `cache[h].of`, `event.id`, `moved` and
`lost` are history: they name windows, which the code cannot, so that the
properties can speak of a handle that is used again.

**Monitors** has three threads around `storage_` of the monitor cache. The message
thread is in `onDisplayChanged()` (`rebuild`: enumerating one monitor per step,
each with its own `GetMonitorInfoW`; then `changed`, before `invoke()` has `lock_`;
then `invoke`, with the callbacks still to be called). The UI thread (`ui`) makes
and destroys `MonitorsViewModel`s, runs the dispatcher queue (`updates`) and
compiles rules; the hook thread (`hook`) executes the relative operation of the
last rule. Reads of `storage_` that take no lock are two steps; when `storage_` is
replaced in between, `reading` becomes `torn` and the value read is any that could
have been there, since the code has no defined one. `displays` is the layout of the
system: its changes post WM_DISPLAYCHANGE once the message window listens, unless
only a work area changed. The count that `initialize()` asks for first and the
enumeration are one step: a layout that becomes empty in between gives the same
empty cache. Lengths are those of one axis and fractions are percentages.

**SettingsStore** has a step for each call of `WriteFileAtomic()` into the system
(`saving` is the next one). `file` and `temp` are what a reader finds under the two
names, `dirty` the files whose data has not reached the disk, `stable` what a power
loss leaves under the file's name; `tree` and `root` are the document in memory.
A write that is interrupted leaves `torn`. `saved` is history. **AtomicFile** is the
promise: a reader always finds one complete version, and a power loss leaves the
last one hardened or the one just put in its place.

**Retry** holds `RetryState` and the exponential backoff with its jitter as operators
on unsigned integers up to `MaxInt`, for every factor `scale_and_clamp` is
specialised for; a product wraps around beyond it.

**AppLifecycle** composes the store, the retries and what the controllers return.
`ui` is where the UI thread stands between `wWinMain()` and its return, `running`
the components whose threads run, `queue` the dispatcher queue, into which the
message thread puts the requests of the tray menu through a listener that may be
removed meanwhile; `second`, `activation` and `redirect` are another instance of
the program, the call by which it redirects its activation, and the state the two
sides of that call share. The controllers appear only by what `start()` and
`stop()` return, which is all `AppContext` sees of them.

**SettingsNodes** reads and writes the nodes of a rule. A text is a short sequence of
characters, because patterns are told apart by the characters they begin and end
with; a number stands for its double, so that a fraction is one; a node is a
record of the keys it has. **RuleCompiler** makes rules of the engine of them.
**RuleEditor** adds the start, the page with its pending changes, every edit the page
offers, and saving. Its `doc`, `rules`, `engine` and `page` are the four places that
hold a rule, `touched` is history: what the user changed, so that a property can
say that the rest stayed.

**SettingsWindow** is the navigation of the window with its history. **LogView** has the
circular buffer, the threads that add to it, the list of listeners and the pages'
lists. Nothing in that code is locked: an access that may overlap has a
beginning and an end; if two overlap, the outcome is that of some order, or
`process` becomes `undefined` and nothing more is promised.

Operators with an underscore (`Reap_...`, `WaitAndLoad_NoWait`) are plausible
mistakes in the operator named before the underscore. No specification uses them;
`PROJECT.json` says which property finds which.

## 3. Runs

| Run | What it asks | Bounds and why they are enough |
| --- | --- | --- |
| `controller` | do two callers, a worker that calls `stop()` and every failure keep handle, state and worker consistent and implement `ThreadLifecycle`; does every `stop()` return, and can a thread be reclaimed by repeating it? | 2 callers; 2 threads, so that a thread follows a failed start and a failed stop; 2 attempts, a first and a last; policy `kReturnTimeout`, as in `tests/message_loop_thread_controller.cc`; every fault but those of a subclass, `CloseHandle` and `GetExitCodeThread` among them (59,782 states) |
| `hook` | the hook thread with its subclass: contexts, hooks, give-up, refinement, what a stop that cannot close the handle leaves, and that a stop resolves | 2 callers, 2 threads; 1 attempt before the first successful start and 5 after it, the numbers of the code (`win32/WinEventHookController.cc:101`); policy `kFailFast`; handle failures included (44,958) |
| `message_window` | window thread, tray icon and menu: class, window, `hwnd_`, icon over explorer restarts and failures of the shell, hook of the menu, refinement, and that `start()` returns | 1 caller: `AppContext` starts and stops the window from the UI thread only; 2 threads: a window that outlives its loop and its successor; one refused hook at a time (68,424) |
| `rules` | are cached states coherent, only matching windows moved, matching ones moved? | one handle and two windows, so that the handle is used again; two waiting events, so that a rename or a destruction overtakes a foreground event; two rule sets, one replacing the other (292,299) |
| `rules_noexcept` | *violated*: does no exception leave `checkRules()`? | as `rules`, without faults |
| `monitors` | does the cache follow the displays, do the pages follow the cache, are callbacks right, and where does a window land whose bounds are new or kept from another one? | 2 changes, so that one hits the rebuild of the other; 2 windows, with a shadow and without; 6 layouts: one display, two, roles exchanged, mirrored, another work area, none; a page, and a rule on the primary or on a monitor that may be missing (965,810) |
| `store` | is the file replaced in one piece and what was saved found again, with a failure of each call and a power loss between any two? | two texts: an old and a new one |
| `app` | start, retries, requests, exit, second instance: is everything stopped, is waiting bounded, is the report true, does a start end, is an exit served? | 3 attempts, 1 to 10 s, as `AppContext` has them; integers of 16 bits, for which every factor meets its limit; 2 requests in the queue, so that an exit is followed by another request (385,812) |
| `app_missing_file` | *violated*: can the settings be opened whatever file `load()` accepted? | as `app`, without faults |
| `editor` | do document, memory, page and engine agree, does saving keep what was not changed, do rules match as documented? | 6 files that hold every form of a node, one at a time: each trigger form, foreign keys and names, numbers out of range, a name that is no text, all ways in which a rule does not parse; 3 edits: add, delete and add again (269,500) |
| `editor_conditions` | *violated*: is every rule with an action in force? | one rule with two conditions, to which the user adds the third |
| `logs` | does the page show the buffer; is the history kept? | a buffer of 2 and 4 logs, so that it wraps around with updates waiting; 2 threads that log; 2 pages of history (95,573) |

One handle suffices in `rules` because no step of the hook thread touches the
entries of two handles and the callback is never re-entered (its only calls into
the system are reads and an asynchronous `SetWindowPos`).

Constants that bound: `MaxThreads` (a controller could begin threads for ever),
`MaxWindows`, `MaxEvents`, `MaxChanges`, `MaxRules`, `MaxQueue`, `MaxEdits`,
`MaxLogs`, `MaxHistory`; `InitialAttempts`, `StartedAttempts` and `MaxAttempts`
stand for the limits of the retry factories. Each `...Faults` constant selects the
failures the environment may produce. Deadlock is not checked where the program
may be at rest: all displays changed (`monitors`), no process running (`app`),
all logs added (`logs`).

### Fairness

* Controllers: weak fairness of every call that has begun (its thread is scheduled
  and each of its waits is bounded, except for the worker's report, which the
  worker makes on its way), whichever caller that is: `mutex_` admits one. In the
  base class the worker's exit and the return of its callback are strongly fair,
  since it may enter `stop()` and be rejected any number of times in between.
  `PersistentSpec` adds, strongly fair because each attempt may fail in between, a
  client that calls `stop()` again after a failure, and that the wait and the calls
  on the handle of a thread that exited do not fail for ever; `Reclaimable` is only
  promised to such a client on such a system.
* No fairness of `start()`, `stop()`, failures, explorer restarts, menu choices or
  of what other programs do to their windows.
* Message window: strong fairness of the handling of messages, because a message
  queue is served in order and other messages cannot starve one.
* Window rules: weak fairness of the hook thread alone.
* Monitors: weak fairness of the message thread and of what the UI thread has begun,
  strong fairness of running the next update, because the dispatcher queue is
  served in order. No display change, page or rule is promised.
* Application: weak fairness of starting, stopping, saving and enqueueing, strong
  fairness of serving the next request and of the end of the message loop after
  `Exit()`, both of which other requests and the user's edits may interrupt.
* Logs: weak fairness of each thread's call of `addLog()` once it has begun and of
  the UI thread; no log is promised.

## 4. Findings

* `rules_noexcept`: `checkRules()` is `noexcept` (`engine/RuleEngine.cc:20`) but its
  predicates throw when the window is gone, which may happen between an event and
  its callback.
* `app_missing_file`: "A missing or empty file yields an empty document"
  (`settings/BasicSettingsReader.h:56`), but the document it yields has no root, and
  opening the rule editor dereferences it (`settings/UserSettings.cc:60`).
* `editor_conditions`: `docs/configuration.md:77-82` shows a rule with three
  conditions; `PredicateSet` (`engine/Predicate.h:17`) holds two. The third makes
  `CompileFilter()` throw and none of the file's rules is in force.

Where the documentation and the code differ, and the model follows the code:

* `docs/configuration.md:39-40` lets a rule omit `where` and `then`; such a rule does
  not parse (`settings/Rule.cc:15-21`), and `RuleEditor` leaves it out with a log.
* `docs/configuration.md:105` aligns a window to an edge of the work area with `0.0` or
  `1.0`. The margin is the visible frame minus the outer rectangle
  (`win32/window.cc:23`), and a positive one is added to the position of the outer
  rectangle (`engine/MoveAndResizeOperation.cc:44`), so that the frame begins two
  shadows behind the edge and leaves the work area at `1.0`. `FrameNearWorkArea` states
  what the code does: at most twice the shadow outside, inside without one.
* `docs/configuration.md:90` gives 0 to 0x4000 for `x` and `y` of an absolute
  position; the code accepts -0x4000, too (`settings/constants.h:42`).

What the models reach and no property excludes, because the code promises
nothing else. The premises of the properties name these cases:

* `~TrayIconBase` asserts `hwnd_ == nullptr` (`win32/TrayIcon.cc:71`), but if the
  explorer restarts and `WM_CLOSE` is handled before `TaskbarCreated`, `NIM_DELETE`
  fails and `detach()` keeps `hwnd_`.
* A menu that is asked for inside the modal loop of another sets `hhook_` to its own
  hook. If the system refuses to remove that one, the outer menu clears `hhook_` when
  it removes its own (`win32/TrayIcon.cc:206-207`), and the refused one is forgotten.
* A foreground event falls through to `processWindowEvent()`
  (`window/WindowStateWatcher.cc:57`), whose first line assumes that it gets none
  (`window/WindowStateCache.cc:7`); the function has no case for it and the model
  gives it no effect.
* `getOrCreate()` without memory drops the event (`window/WindowStateWatcher.cc:36`).
* `monitor/MonitorStateCache.h:15-16` asks that workers are done before a rebuild;
  `onDisplayChanged()` waits for none of them.
* A number out of range, or a monitor's name that is no text, is found when the rules
  are compiled: `onSettingsChanged()` is `noexcept` and catches `std::bad_alloc` only
  (`engine/RuleEngine.cc:47`), so that the program terminates at its start.
* A relative operation keeps the bounds it computed for the first window it meets
  (`engine/MoveAndResizeOperation.cc:33`), with its shadow margin and the work area
  of that moment: `KeptBoundsOfOwnMonitor` says how far that may be off.
* `shadowMargin()` throws for a window that is gone (`window/WindowState.cc:37`), out
  of `execute()`, which is `noexcept`: the program terminates (`ShadowMarginThrows` in
  `Monitors`, `OperationTerminates` in `WindowRules`).
* If `CloseHandle` fails in `reapThread()`, the call returns with `state_` at `kStopping`
  under either policy (`win32/MessageLoopThreadController.cc:264-267`); a later
  `stop()` closes the handle of the thread that has ended (`NotLeftRunning`).
* If `CloseHandle` fails while a failed start of a `WindowController` is reaped, the
  state stays `kStopping` with `hwnd_` null: `stop()` (`win32/WindowController.cc:221`)
  and `start()` are both refused from then on.
* Logs: two threads that log at once may lose, double or reorder an entry of the
  buffer; a page misses what is logged between its copy and its registration
  (`winui3/ViewModels/Logging/LogsViewModel.cc`); a notification may meet a view
  model that is being destroyed, since `ListenerHost` takes no lock.
* After a document that does not parse the root stays null
  (`settings/BasicSettingsReader.h:71`): the editor's page ends the process as it does
  for an empty document, and nothing is ever saved.

## 5. Proofs

Eight modules, checked by TLAPS for every value of the constants. Each rests on the
assumption about the constants that the component's module states; TLC evaluates
them on every run. In each, an inductive invariant comes first (TLC has checked it on
the component's run), with one lemma per action, and the theorems follow.

`MessageLoopThreadController_proofs`, for any callers, threads and limits, from
`ControllerAssumption`:

* The inductive invariant `Inv` is `TypeOK`, `HandleMatchesState`, `SingleWorker` and
  `CallsOwnTheirThread` with what ties them together: a caller past the lock works
  on the thread in `data_`, a thread that was not begun has no handle, and a caller
  between the two critical sections of `start()` is the only one.
  `HandleMatchesState` alone is not inductive: closing the handle in
  `call[c].hthread` empties `handles` only because that is the handle in `data_`,
  which is `CallsOwnTheirThread`; that a thread is exited when it is reaped needs the
  `reap` clause of the same conjunct.
* `ControllerInvCorrect` and its parts follow; `StopReportsExitCorrect` and
  `FailedStopKeepsThreadCorrect` are action properties, by cases on the three places
  where a `stop()` returns. `ImplementsLifecycleCorrect`: every step maps to a step
  of `ThreadLifecycle` or a stutter.

`WinEventHookController_proofs`: `ImplementsBaseCorrect` makes every behaviour of the
hook controller one of the base class, so that all of the above holds for it; with
`HookInvCorrect` (the worker's place agrees with the thread's life) it gives
`HookSafeCorrect`, `ContextAliveCorrect`, `NoHookWhenReadyCorrect` and
`NotLeftRunningCorrect`: under `kFailFast`, which the assumption fixes as the class
does, each place where a call lets go of `mutex_` is one where the worker has ended
or the state is not `kStopping` (`NotLeftRunningStep`). `AbandonsOnlyAfterLimitCorrect` needs one more fact, kept
by `AbandonInv`: a caller in the wait that follows a post which failed for good waits
for a worker that has ended. It rests on `PostedThreadHasQueue`: no `stop()` posts
before the worker has a message queue, because `start()` waits for its report.

`MessageWindow_proofs`: `ImplementsWindowControllerCorrect` makes the message window a
`WindowController`, whose steps are shown to be steps of the base class once
`WorkerInv` is known (the worker's place agrees with the thread's life and with its
context; the class is registered only for a thread that will unregister it, unless
its loop failed). `WindowInvCorrect` adds `HwndInv` (what `hwnd_` may be in each state:
it may be stale or empty only while a worker whose start failed is reaped) and
`AbandonInv` (`WM_CLOSE` is refused for good only by a window that is gone).
`IconInvCorrect` rests on `TrayInv` (an attached icon is shown, awaits
`TaskbarCreated`, or was refused, and no thread has one before its `WM_CREATE`) and
on `GoodMenu`: every hook of the menu but one refused one is that of the frame on top.
The refinement holds for every value of `Faults` because `WindowProc` does not depend
on it: `windowProc()` may refuse its window, or quit with a failure, without any
failure of the system, as it does when the icon cannot be attached.

`WindowRules_proofs`, for any handles, windows, events and rule sets, from
`RulesAssumption`: `CacheInvCorrect` and `OnlyMatchingIsMovedCorrect`. `CacheCoherent`
is kept by every step once window numbers are known to grow (`Numbered`: a window
that is created has the number of no entry) and the filters of the hook thread are
known to drop no rename of a window that exists (`FilterKeeps`). That only matching
windows are moved needs `ChecksHold`: each condition that passed still holds, or the
rename that broke it is on its way; a step of another program keeps it
(`SystemKeeps`), a read from the cache establishes it for the next condition because
of `CacheCoherent` (`EvaluateKeeps`).

`Monitors_proofs`, for any layouts, pages, rules and changes, from
`MonitorsAssumption` (handles differ, the first monitor is the primary one, no more
pages than callbacks fit):

* `CallbackOnLiveViewModelCorrect`. `CallbackInv` is inductive: registered view models
  are alive, and those `invoke()` still has to call are registered. The second part
  holds because callbacks are added and removed only while `lock_` is free, the
  first because the destructor returns only after the removal.
* `CacheInvCorrect`: `FollowInv` says what a rebuild has read so far and that a layout
  which changed under it has posted a message; `RuleInv` and `ViewTypeInv` are the
  types of the other two threads.
* `MirrorCurrentCorrect`: `SyncInv` says that the last update on its way to a page
  carries what the cache holds, and that a page with none shows it.
* `FrameNearWorkAreaCorrect`: integer arithmetic with rounding, for any sizes and
  margins.
* `KeptBoundsOfOwnMonitorCorrect`: `BoundsInv` says that the bounds of each rule were
  computed for some window by some work area its monitor had, which `SeenInv` (every
  cached state is one the displays had) gives at the moment they are computed; no
  later event, rule set or display changes the bounds of a rule.

`AppLifecycle_proofs`, from `TextsAssumption` and `RetryAssumption`, for the store and
the program that uses it:

* `StoreInv` says, for each place in `WriteFileAtomic()`, what the temporary file
  holds and whether it has reached the disk; `SavedSurvivesCorrect` and the refinement
  `StoreImplementsAtomicFile` follow.
* `ThreadsInv` (which threads run is decided by where the UI thread stands) gives
  `StoppedAtEndCorrect`, `RedirectInv` (the event is set only after the result is
  stored) `RedirectReportsTruthCorrect`.
* `AppUsesStore`: every behaviour of the program is one of the store, by `DocumentInv`
  (the document is empty before it is loaded, and nothing is being saved where the
  program loads, exits or fails). So `AppKeepsSettings`: what was proved of the
  store alone holds of the whole program.
* `DelayGrowsCorrect` and `AppInvCorrect`: `GoodRetry` keeps a delay within its policy,
  whose limit was accepted only if a product with the factor does not wrap around;
  `WaitInv` adds up the time that was waited. The largest integer is a parameter,
  `MaxInt`, since the provers know no power with a variable exponent; the runs give
  it the value for 16 bits.

`RuleEditor_proofs`, for any files, texts, numbers, windows and numbers of edits, from
`EditorAssumption` (what a document may hold). `IInvCorrect` is the inductive
invariant: `RulesInv` (each rule in memory agrees with its node), `PageInv` (each view
model is well formed and shows its rule, but for what is pending), `AheadInv`
(the document is ahead of the file by a pending type at most), `EngineInv` (the engine
has the rules of the file of the last start) and `StartInv` (such a file starts the
engine again). One part is needed by no property and by the proof alone: a key
that was deleted and added again is pending, so that saving writes it. From it:

* `EditorInvCorrect`, `ViewIsDocumentCorrect` and `SavedUnlessKnownCorrect`. Saving is
  where they meet: what `applyChanges()` writes is read again as what was shown, for
  numbers (`FieldsSaved`), conditions (`WhereSaved`) and triggers (`TriggersWritten`).
* `KeysPartitionedCorrect`: the order of the keys that are offered survives taking one
  out and putting it back (`KeyTaken`, `KeyReturned`).
* `MatchesAsDocumentedCorrect`: the compiled predicates match what the table of the
  documentation says, for patterns and windows of any length (`PredicateMatches`); a
  pattern that is written is read again as it was unless it is ambiguous
  (`ReadWritten`).
* `SavesOnlyChangesCorrect` needs a second invariant on top of `IInv`: `KeptInv` says
  that the document differs from the file only in what was touched, and so does
  what an open page would write if it were saved now. Each edit touches what it is
  about to write (`EditTouched` and the lemmas after it), writing a page changes no
  more of a node than its pending changes (`NodeKeptSaved`), and two such changes in
  a row are one (`ChangedTwice`). For triggers this is a fact about the list: names
  the program does not know keep their places whichever known names are switched
  before, however often (`OtherNamesStay`, from `SelectedTwice` and `SelectedBefore`).

`LogView_proofs`, for any threads, pages and capacity of the buffer, from
`LogAssumption` (finitely many threads):

* `LogInvCorrect`. `Mirrors` is what an undisturbed page keeps in step with the buffer:
  it shows the buffer as it was after some log, the logs since then wait for it in
  their order, and the ones that do not wait yet are being added and come later.
  `NextUpdate` makes of this that the update that runs is the one for the log after
  the newest shown, and `InSlotExact` that its pointer still shows that log. That the
  queue, once it has run, leaves the buffer itself (`AfterUpdatesAreLogs`) is an
  induction over the queue.
* `HistoryKeptCorrect`: `SettingsInv` (no page follows itself, the selected item is the
  page shown) makes the handler that navigating calls do no more than select
  (`NavigatedSelects`).

What a loop computes for a sequence of any length is proved without the library's
induction theorems, which take an operator: `UpTo` is induction for a set of
numbers, from the least element of its complement, and `FirstExists` builds the
function that `Selected` defines. `AfterUpdates` is solved in closed form, and that
it has no other value is `UpTo` again.

The controller proofs use one assumption about the client, stated in the model as
`NoUnfinishedStart`: `stop()` does not overtake an unfinished `start()` of another
thread. `AppContext` calls both from the UI thread; the class itself does not
enforce it, and without it `assert(state_ == State::kRunning)` in
`reapThreadAfterStartFailure()` can fail: no property here speaks of that case.

Only model-checked: all liveness (fairness and ENABLED are out of the prover's
reach). Every invariant and every action property of a passing run has a theorem.

## 6. Not modelled

* The delays of the controllers: only the number of attempts; a wait may time out
  whenever the thread has not exited. Delays are in `Retry` and `AppLifecycle`.
* `utility/random`: `Retry` takes the ends of the range a jitter promises.
* A data race on `retry_factory_`, written without `mutex_` at the end of `start()`:
  excluded by the same assumption about the client.
* `notify_one()` on a `ThreadContext` after the starter has read the value and left
  its frame: the notification uses the address only.
* Friendly names of monitors; the capacity of `CallbackHost` and `ListenerHost`,
  which three pages of one kind would exceed (a fourth listener is refused
  silently); floats, which are percentages here.
* `commit()` of the settings store, which nothing calls.
* The wording of `ParseError`: only whether a node has an error.
* `debug/WindowEventLogAdapter`: debug builds only, formats a log line.
* `numeric/`: vector arithmetic without state, in scalar and SIMD forms that the
  unit tests compare; the rounding that places a window is in `Monitors`.
* The helpers of `win32/` around single system calls; `winui3/Controls`, converters,
  resources and XAML: they pass on edits that `RuleEditor` has.
* Lexing and emitting YAML: an external library; the model has the nodes it returns.

## 7. Plan

Left: a run of the capacity of `ListenerHost` with more pages than it holds.
