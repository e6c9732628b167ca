------------------------------ MODULE Monitors ------------------------------
(***************************************************************************)
(* The states of the monitors and who uses them (src/app/monitor):          *)
(* the message thread rebuilds the cache on WM_DISPLAYCHANGE and invokes    *)
(* the callbacks, the view models of the UI thread mirror it, rules are     *)
(* compiled against it on the UI thread, and the hook thread places windows *)
(* in the work areas it holds.  Lengths are those of one axis.              *)
(***************************************************************************)
EXTENDS Integers, Sequences, FiniteSets

CONSTANTS
  Layouts,     \* what the displays may be: sequences, the primary first
  Windows,
  Margin,      \* the shadow margin of each window: [pos, size], before and around it
  Fractions,   \* relative bounds a rule may have, in percent: [pos, size]
  RuleIds,     \* monitor ids rules may name; 0 stands for the primary
  ViewModels,  \* MonitorsViewModels that may be made
  MaxChanges,  \* bound: changes of the displays
  MaxRules,    \* bound: rules compiled
  Faults       \* failures the environment may produce

\* Every display there may be.
Displays == UNION {{l[i] : i \in 1..Len(l)} : l \in Layouts}
Handles  == {m.handle : m \in Displays}
Works    == {m.work : m \in Displays}
Areas(l) == [i \in 1..Len(l) |-> l[i].area]

MonitorState == [handle : Handles, id : Int, area : UNION {{l[i].area : i \in 1..Len(l)} : l \in Layouts},
                 work : Works, primary : BOOLEAN]

ASSUME MonitorsAssumption ==
  /\ Layouts \subseteq Seq(MonitorState)
  /\ Works \subseteq [pos : Int, size : Nat]
  /\ Margin \in [Windows -> [pos : Nat, size : Nat]]   \* inner minus outer rectangle
  /\ \A l \in Layouts : \A i, j \in 1..Len(l) : l[i].handle = l[j].handle => i = j
  /\ \A l \in Layouts : \A i \in 1..Len(l) : l[i].primary <=> i = 1
  /\ \A f \in Fractions : f.pos \in 0..100 /\ f.size \in 0..100
  /\ Cardinality(ViewModels) <= 3   \* the capacity of callbacks_
  /\ MaxChanges \in Nat
  /\ MaxRules \in Nat
  /\ Faults \subseteq {"memory", "window"}

VARIABLES
  displays,   \* the displays of the system
  changes,    \* number of changes so far
  listening,  \* does the message window run?
  pending,    \* WM_DISPLAYCHANGE messages that wait for the message thread
  storage,    \* storage_ of the cache: monitor states, one per handle
  rebuild,    \* the message thread within onDisplayChanged()
  callbacks,  \* registered view models, called in any order
  updates,    \* the dispatcher queue of the UI thread
  status,     \* the life of each view model
  items,      \* Items_ of each view model
  ui,         \* the UI thread within a constructor, destructor or compilation
  rules,      \* the operations compiled so far; the last one is in use
  hook,       \* the hook thread within execute()
  reading,    \* is a thread reading storage_, and has it changed meanwhile?
  placed,     \* the last SetWindowPos, with the rule's handle and history
  process,    \* "alive", or "terminated" by an exception
  unseen,     \* did the displays change without a rebuild that follows? (history)
  skipped     \* view models registered after the change they missed (history)

vars == <<displays, changes, listening, pending, storage, rebuild, callbacks, updates,
          status, items, ui, rules, hook, reading, placed, process, unseen, skipped>>
systemVars == <<displays, changes, listening>>
cacheVars  == <<pending, storage, rebuild>>
viewVars   == <<callbacks, updates, status, items, ui>>
hookVars   == <<hook, placed>>
historyVars == <<unseen, skipped>>

Readers    == {"ui", "hook"}
NoRebuild  == [pc |-> "idle", list |-> <<>>, states |-> {}, targets |-> {}]
UiIdle     == [pc |-> "idle", target |-> "none"]
HookIdle   == [pc |-> "idle", window |-> "none", rule |-> 0]
NoBounds   == [pos |-> 0, size |-> 0]
NoPlacement == [window |-> "none", handle |-> "none", bounds |-> NoBounds, torn |-> FALSE]

-----------------------------------------------------------------------------
(* Pure parts.                                                             *)

\* What a complete enumeration yields: of displays that show the same area,
\* the first one.
Visible(l) == {l[i] : i \in {j \in 1..Len(l) : \A k \in 1..(j - 1) : l[k].area # l[j].area}}

Handled_FallsBackToOthers(states, h) ==
  LET own == {s \in states : s.handle = h} IN IF own = {} THEN states ELSE own

Handled(states, h) == {s \in states : s.handle = h}

\* GetMonitorInfoW: the state of a handle, nothing when it is gone.
MonitorInfo(h) == {displays[i] : i \in {j \in 1..Len(displays) : displays[j].handle = h}}

\* makeMonitorViewModels() throws unless a monitor is the primary one.
HasPrimary(states) == states = {} \/ \E s \in states : s.primary

Ceil(percent, length) == -((-(percent * length)) \div 100)
Floor(percent, length) == (percent * length) \div 100

Place_OfWholeSize(work, relative, margin) ==
  LET size == Ceil(relative.size, work.size)
  IN [pos  |-> work.pos + Floor(relative.pos, work.size) + margin.pos,
      size |-> size + margin.size]

\* The bounds of a window: its size first, then its place in what is left.
Place(work, relative, margin) ==
  LET size == Ceil(relative.size, work.size)
  IN [pos  |-> work.pos + Floor(relative.pos, work.size - size) + margin.pos,
      size |-> size + margin.size]

\* What is seen of a window that SetWindowPos gave these bounds: its outer
\* rectangle without the shadow, which is where GetWindowShadowMargin() found
\* the inner one.
Frame(w, bounds) == [pos  |-> bounds.pos + Margin[w].pos,
                     size |-> bounds.size - Margin[w].size]

-----------------------------------------------------------------------------
Init ==
  /\ displays \in Layouts
  /\ changes = 0
  /\ listening = FALSE
  /\ pending = 0
  /\ storage = Visible(displays)
  /\ rebuild = NoRebuild
  /\ callbacks = {}
  /\ updates = <<>>
  /\ status = [v \in ViewModels |-> "none"]
  /\ items = [v \in ViewModels |-> {}]
  /\ ui = UiIdle
  /\ rules = <<>>
  /\ hook = HookIdle
  /\ reading = [r \in Readers |-> "no"]
  /\ placed = NoPlacement
  /\ process = "alive"
  /\ unseen = FALSE
  /\ skipped = {}

\* WM_DISPLAYCHANGE is sent when the area of a display changes, not when only
\* its work area does.
ChangeDisplays(l) ==
  /\ changes < MaxChanges
  /\ l # displays
  /\ displays' = l
  /\ changes' = changes + 1
  /\ IF listening /\ Areas(l) # Areas(displays)
       THEN pending' = pending + 1 /\ UNCHANGED unseen
       ELSE unseen' = TRUE /\ UNCHANGED pending
  /\ UNCHANGED <<listening, storage, rebuild, viewVars, rules, hookVars, reading,
                 process, skipped>>

\* AppContext::initialize() has filled the cache before it starts the window.
StartMessageWindow ==
  /\ ~listening
  /\ listening' = TRUE
  /\ UNCHANGED <<displays, changes, cacheVars, viewVars, rules, hookVars, reading,
                 process, historyVars>>

-----------------------------------------------------------------------------
(* The message thread: onDisplayChanged() and invoke().                    *)

\* storage_ is replaced (or cleared) while other threads may be reading it.
Replace(states) ==
  /\ storage' = states
  /\ reading' = [r \in Readers |-> IF reading[r] = "no" THEN "no" ELSE "torn"]
  /\ rebuild' = [NoRebuild EXCEPT !.pc = "changed"]

Keep == /\ rebuild' = NoRebuild
        /\ UNCHANGED <<storage, reading>>

OnDisplayChanged_ClearsSilently ==
  /\ rebuild.pc = "idle"
  /\ pending > 0
  /\ pending' = pending - 1
  /\ IF displays = <<>>
       THEN storage' = {} /\ UNCHANGED rebuild
       ELSE /\ rebuild' = [NoRebuild EXCEPT !.pc = "enumerate", !.list = displays]
            /\ UNCHANGED storage
  /\ unseen' = FALSE
  /\ UNCHANGED <<systemVars, viewVars, rules, hookVars, reading, process, skipped>>

\* Without displays the cache is cleared, else it is rebuilt.
OnDisplayChanged ==
  /\ rebuild.pc = "idle"
  /\ pending > 0
  /\ pending' = pending - 1
  /\ IF displays = <<>>
       THEN IF storage = {} THEN Keep ELSE Replace({})
       ELSE /\ rebuild' = [NoRebuild EXCEPT !.pc = "enumerate", !.list = displays]
            /\ UNCHANGED <<storage, reading>>
  /\ unseen' = FALSE
  /\ UNCHANGED <<systemVars, viewVars, rules, hookVars, process, skipped>>

EnumerateMonitor_KeepsMirrors ==
  LET next == Head(rebuild.list) IN
  /\ rebuild.pc = "enumerate"
  /\ rebuild.list # <<>>
  /\ rebuild' = IF MonitorInfo(next.handle) = {}
       THEN NoRebuild
       ELSE [rebuild EXCEPT !.list = Tail(@), !.states = @ \cup MonitorInfo(next.handle)]
  /\ UNCHANGED <<systemVars, pending, storage, viewVars, rules, hookVars, reading,
                 process, historyVars>>

\* EnumDisplayMonitorsCallback(): the area comes from the enumeration, the
\* state from GetMonitorInfoW, which asks for the displays of this moment.
EnumerateMonitor ==
  LET next     == Head(rebuild.list)
      mirrored == \E s \in rebuild.states : s.area = next.area
  IN
  /\ rebuild.pc = "enumerate"
  /\ rebuild.list # <<>>
  /\ rebuild' = IF ~mirrored /\ MonitorInfo(next.handle) = {}
       THEN NoRebuild
       ELSE [rebuild EXCEPT
               !.list   = Tail(@),
               !.states = IF mirrored THEN @ ELSE @ \cup MonitorInfo(next.handle)]
  /\ UNCHANGED <<systemVars, pending, storage, viewVars, rules, hookVars, reading,
                 process, historyVars>>

\* No memory for the new states: the old ones stay, nothing tries again.
EnumerationFails ==
  /\ "memory" \in Faults
  /\ rebuild.pc = "enumerate"
  /\ rebuild' = NoRebuild
  /\ unseen' = TRUE
  /\ UNCHANGED <<systemVars, pending, storage, viewVars, rules, hookVars, reading,
                 process, skipped>>

EndEnumeration ==
  /\ rebuild.pc = "enumerate"
  /\ rebuild.list = <<>>
  /\ IF storage = rebuild.states THEN Keep ELSE Replace(rebuild.states)
  /\ UNCHANGED <<systemVars, pending, viewVars, rules, hookVars, process, historyVars>>

\* invoke() takes lock_, which it holds until every callback has returned.
Invoke ==
  /\ rebuild.pc = "changed"
  /\ rebuild' = [rebuild EXCEPT !.pc = "invoke", !.targets = callbacks]
  /\ UNCHANGED <<systemVars, pending, storage, viewVars, rules, hookVars, reading,
                 process, historyVars>>

LockFree == rebuild.pc # "invoke"

\* onMonitorChanged() of a view model: an exception ends the process.
InvokeCallback(v) ==
  /\ rebuild.pc = "invoke"
  /\ v \in rebuild.targets
  /\ \/ /\ HasPrimary(storage)
        /\ updates' = Append(updates, [target |-> v, items |-> storage])
        /\ rebuild' = [rebuild EXCEPT !.targets = @ \ {v}]
        /\ skipped' = skipped \ {v}
        /\ UNCHANGED process
     \/ /\ ~HasPrimary(storage)
        /\ process' = "terminated"
        /\ UNCHANGED <<updates, rebuild, skipped>>
  /\ UNCHANGED <<systemVars, pending, storage, callbacks, status, items, ui, rules,
                 hookVars, reading, unseen>>

EndInvoke_KeepsLock ==
  /\ rebuild.pc = "invoke"
  /\ rebuild.targets = {}
  /\ UNCHANGED vars

EndInvoke ==
  /\ rebuild.pc = "invoke"
  /\ rebuild.targets = {}
  /\ rebuild' = NoRebuild
  /\ UNCHANGED <<systemVars, pending, storage, viewVars, rules, hookVars, reading,
                 process, historyVars>>

MessageThread == \/ OnDisplayChanged
                 \/ EnumerateMonitor
                 \/ EndEnumeration
                 \/ Invoke
                 \/ \E v \in ViewModels : InvokeCallback(v)
                 \/ EndInvoke

-----------------------------------------------------------------------------
(* The UI thread.                                                          *)

StartsReading(r) == reading' = [reading EXCEPT ![r] = "reading"]
EndsReading(r)   == reading' = [reading EXCEPT ![r] = "no"]

\* What a reader may find: anything once storage_ was replaced underneath it.
Found(r, value, values) == IF reading[r] = "torn" THEN values ELSE {value}

OpenPage(v) ==
  /\ ui = UiIdle
  /\ status[v] = "none"
  /\ ui' = [pc |-> "snapshot", target |-> v]
  /\ StartsReading("ui")
  /\ UNCHANGED <<systemVars, cacheVars, callbacks, updates, status, items, rules,
                 hookVars, process, historyVars>>

\* Items_ is made in the constructor of the view model, without lock_.
MakeItems(v) ==
  /\ ui = [pc |-> "snapshot", target |-> v]
  /\ EndsReading("ui")
  /\ \E found \in Found("ui", storage, {Visible(l) : l \in Layouts}) :
       \/ /\ HasPrimary(found)
          /\ items' = [items EXCEPT ![v] = found]
          /\ ui' = [ui EXCEPT !.pc = "add"]
          /\ UNCHANGED process
       \/ /\ ~HasPrimary(found)
          /\ process' = "terminated"
          /\ UNCHANGED <<items, ui>>
  /\ UNCHANGED <<systemVars, cacheVars, callbacks, updates, status, rules, hookVars,
                 historyVars>>

\* A change between the two is seen only if its callbacks are still to come.
AddCallback(v) ==
  /\ ui = [pc |-> "add", target |-> v]
  /\ LockFree
  /\ callbacks' = callbacks \cup {v}
  /\ status' = [status EXCEPT ![v] = "live"]
  /\ ui' = UiIdle
  /\ skipped' = IF items[v] # storage /\ rebuild.pc # "changed"
                  THEN skipped \cup {v} ELSE skipped
  /\ UNCHANGED <<systemVars, cacheVars, updates, items, rules, hookVars, reading,
                 process, unseen>>

\* The last reference is gone: the destructor runs.
ClosePage(v) ==
  /\ ui = UiIdle
  /\ status[v] = "live"
  /\ status' = [status EXCEPT ![v] = "dying"]
  /\ ui' = [pc |-> "remove", target |-> v]
  /\ UNCHANGED <<systemVars, cacheVars, callbacks, updates, items, rules, hookVars,
                 reading, process, historyVars>>

RemoveCallback_Unlocked(v) ==
  /\ ui = [pc |-> "remove", target |-> v]
  /\ callbacks' = callbacks \ {v}
  /\ status' = [status EXCEPT ![v] = "gone"]
  /\ ui' = UiIdle
  /\ UNCHANGED <<systemVars, cacheVars, updates, items, rules, hookVars, reading,
                 process, historyVars>>

RemoveCallback(v) ==
  /\ ui = [pc |-> "remove", target |-> v]
  /\ LockFree
  /\ callbacks' = callbacks \ {v}
  /\ status' = [status EXCEPT ![v] = "gone"]
  /\ ui' = UiIdle
  /\ UNCHANGED <<systemVars, cacheVars, updates, items, rules, hookVars, reading,
                 process, historyVars>>

\* The dispatcher runs a delegate that holds its view model weakly.
RunUpdate ==
  /\ ui = UiIdle
  /\ updates # <<>>
  /\ updates' = Tail(updates)
  /\ LET update == Head(updates)
     IN items' = IF status[update.target] = "live"
                   THEN [items EXCEPT ![update.target] = update.items]
                   ELSE items
  /\ UNCHANGED <<systemVars, cacheVars, callbacks, status, ui, rules, hookVars, reading,
                 process, historyVars>>

\* The rule set with a relative operation on this monitor is in use from here.
\* torn (history): were its bounds computed while storage_ was replaced?
Publish(handle, relative) ==
  rules' = Append(rules, [handle |-> handle, relative |-> relative, dirty |-> TRUE,
                          bounds |-> NoBounds, torn |-> FALSE])

\* resolveMonitorId(0): the primary monitor of this moment.
CompileForPrimary(relative) ==
  /\ ui = UiIdle
  /\ Len(rules) < MaxRules
  /\ 0 \in RuleIds
  /\ displays # <<>>
  /\ Publish(displays[1].handle, relative)
  /\ UNCHANGED <<systemVars, cacheVars, viewVars, hookVars, reading, process, historyVars>>

CompileForId(id) ==
  /\ ui = UiIdle
  /\ Len(rules) < MaxRules
  /\ id # 0
  /\ ui' = [pc |-> "resolve", target |-> id]
  /\ StartsReading("ui")
  /\ UNCHANGED <<systemVars, cacheVars, callbacks, updates, status, items, rules,
                 hookVars, process, historyVars>>

\* findById(); a rule without a monitor is left out.
ResolveId(id, relative) ==
  /\ ui = [pc |-> "resolve", target |-> id]
  /\ ui' = UiIdle
  /\ EndsReading("ui")
  /\ LET resolved == {t.handle : t \in {s \in storage : s.id = id}}
     IN \/ \E h \in Found("ui", resolved, SUBSET Handles) :
             \E handle \in h : Publish(handle, relative)
        \/ /\ reading["ui"] = "torn" \/ resolved = {}
           /\ UNCHANGED rules
  /\ UNCHANGED <<systemVars, cacheVars, callbacks, updates, status, items, hookVars,
                 process, historyVars>>

UiContinues == \/ \E v \in ViewModels : \/ MakeItems(v)
                                        \/ AddCallback(v)
                                        \/ RemoveCallback(v)
               \/ RunUpdate
               \/ \E id \in RuleIds, f \in Fractions : ResolveId(id, f)

UiThread == \/ UiContinues
            \/ \E v \in ViewModels : OpenPage(v) \/ ClosePage(v)
            \/ \E f \in Fractions : CompileForPrimary(f)
            \/ \E id \in RuleIds : CompileForId(id)

-----------------------------------------------------------------------------
(* The hook thread: RelativeMoveAndResizeOperation::execute().             *)

SetWindowPos(w, rule) ==
  /\ placed' = [window |-> w, handle |-> rule.handle, bounds |-> rule.bounds,
                torn |-> rule.torn]
  /\ hook' = HookIdle

ExecuteClean(w) ==
  /\ listening
  /\ hook = HookIdle
  /\ rules # <<>>
  /\ ~rules[Len(rules)].dirty
  /\ SetWindowPos(w, rules[Len(rules)])
  /\ UNCHANGED <<systemVars, cacheVars, viewVars, rules, reading, process, historyVars>>

\* get() finds the state of the handle; without one the operation fails.
ExecuteDirty(w) ==
  /\ listening
  /\ hook = HookIdle
  /\ rules # <<>>
  /\ rules[Len(rules)].dirty
  /\ Handled(storage, rules[Len(rules)].handle) # {}
  /\ hook' = [pc |-> "got", window |-> w, rule |-> Len(rules)]
  /\ StartsReading("hook")
  /\ UNCHANGED <<systemVars, cacheVars, viewVars, rules, placed, process, historyVars>>

\* The work area is read through the pointer get() returned.  The bounds, with
\* the margin of this window, are kept for every later one.
ComputeBounds ==
  LET rule == rules[hook.rule]
      own  == {s.work : s \in Handled(storage, rule.handle)}
  IN
  /\ hook.pc = "got"
  /\ EndsReading("hook")
  /\ \E work \in IF reading["hook"] = "torn" THEN Works ELSE own :
       LET computed == [rule EXCEPT
             !.dirty  = FALSE,
             !.bounds = Place(work, rule.relative, Margin[hook.window]),
             !.torn   = reading["hook"] = "torn"]
       IN /\ rules' = [rules EXCEPT ![hook.rule] = computed]
          /\ SetWindowPos(hook.window, computed)
  /\ UNCHANGED <<systemVars, cacheVars, viewVars, process, historyVars>>

\* shadowMargin() throws when the window is gone or refuses to tell, and
\* execute() is noexcept.
ShadowMarginThrows ==
  /\ "window" \in Faults
  /\ hook.pc = "got"
  /\ process' = "terminated"
  /\ UNCHANGED <<systemVars, cacheVars, viewVars, rules, hookVars, reading, historyVars>>

-----------------------------------------------------------------------------
Next ==
  /\ process = "alive"
  /\ \/ \E l \in Layouts : ChangeDisplays(l)
     \/ StartMessageWindow
     \/ MessageThread
     \/ EnumerationFails
     \/ UiThread
     \/ \E w \in Windows : ExecuteClean(w) \/ ExecuteDirty(w)
     \/ ComputeBounds
     \/ ShadowMarginThrows

Spec == Init /\ [][Next]_vars

\* Each thread runs, and the dispatcher queue is served in order: other work
\* of the UI thread does not keep an update waiting for ever.
FairSpec ==
  /\ Spec
  /\ WF_vars(process = "alive" /\ MessageThread)
  /\ WF_vars(process = "alive" /\ UiContinues)
  /\ SF_vars(process = "alive" /\ RunUpdate)

-----------------------------------------------------------------------------
(* Properties.                                                             *)

\* Every variable holds a value the code's types allow.
TypeOK ==
  /\ displays \in Layouts
  /\ pending \in 0..MaxChanges
  /\ storage \subseteq MonitorState
  /\ \A s, t \in storage : s.handle = t.handle => s = t
  /\ rebuild.pc \in {"idle", "enumerate", "changed", "invoke"}
  /\ rebuild.states \subseteq MonitorState
  /\ callbacks \in SUBSET ViewModels
  /\ status \in [ViewModels -> {"none", "live", "dying", "gone"}]
  /\ \A v \in ViewModels : items[v] \subseteq MonitorState
  /\ Len(rules) <= MaxRules
  /\ \A i \in 1..Len(rules) : rules[i].handle \in Handles
  /\ reading \in [Readers -> {"no", "reading", "torn"}]
  /\ process \in {"alive", "terminated"}

\* Once the messages are handled the cache holds what the system shows, one
\* state for displays that mirror each other, however the displays changed
\* while they were enumerated.
CacheCurrent ==
  pending = 0 /\ rebuild.pc \in {"idle", "changed", "invoke"} /\ ~unseen =>
    storage = Visible(displays)

\* The cache is well formed and follows the displays.
CacheInv == TypeOK /\ CacheCurrent

\* Once the dispatcher has run the updates, an open page shows the cache,
\* unless it missed the change between its constructor and its registration.
MirrorCurrent ==
  \A v \in ViewModels :
    /\ status[v] = "live"
    /\ rebuild.pc \in {"idle", "enumerate"}
    /\ v \notin skipped
    /\ \A i \in 1..Len(updates) : updates[i].target # v
    => items[v] = storage

\* invoke() passes a raw pointer: no callback runs on a view model whose
\* destructor has returned.
CallbackOnLiveViewModel ==
  rebuild.pc = "invoke" =>
    \A v \in rebuild.targets : status[v] \in {"live", "dying"}

\* A frame that begins in the work area or behind its begin, and ends behind
\* its end by the shadows at most.
Near(frame, work, shadows) ==
  /\ work.pos <= frame.pos
  /\ frame.pos + frame.size <= work.pos + work.size + shadows

\* The frame of the window the bounds are computed for lies in the work area of
\* its monitor, shifted by twice the shadow in front of it: the margin that is
\* inner minus outer is added to the position of an outer rectangle.  Only a
\* window without a shadow is promised to be inside.  Not if the state changed
\* while it was read.
FrameNearWorkArea ==
  [][hook.pc = "got" /\ hook'.pc = "idle" /\ reading["hook"] = "reading" =>
       \E s \in Handled(storage, placed'.handle) :
         Near(Frame(placed'.window, placed'.bounds), s.work,
              2 * Margin[placed'.window].pos)]_vars

\* However long ago the bounds of a rule were computed, for whichever window,
\* and whatever rules and displays came since, a window is placed by a work
\* area that the rule's own monitor had, off by no more than the shadows of
\* that window and its own.
KeptBoundsOfOwnMonitor ==
  placed.window # "none" /\ ~placed.torn =>
    \E w \in Windows, s \in Displays :
      /\ s.handle = placed.handle
      /\ Near(Frame(placed.window, placed.bounds), s.work,
              Margin[w].pos + Margin[w].size + Margin[placed.window].pos
                - Margin[placed.window].size)

\* A change of the displays reaches every open page, and a page that is being
\* closed goes away.
ChangeReachesPages ==
  \A v \in ViewModels :
    status[v] = "dying" \/ (status[v] = "live" /\ v \notin skipped /\ items[v] # storage) ~>
      \/ status[v] = "gone"
      \/ status[v] = "live" /\ items[v] = storage
      \/ process # "alive"

=============================================================================
