---------------------------- MODULE WindowRules ----------------------------
(***************************************************************************)
(* How an accessibility event becomes an operation on a window:             *)
(* StateWatcher::winEventProcStatic (src/app/window/WindowStateWatcher),    *)
(* the cache of window states (WindowStateCache, WindowState) and           *)
(* RuleEngine::checkRules (src/app/engine/RuleEngine).                      *)
(*                                                                         *)
(* Three parties run concurrently.  The windows of other programs come,     *)
(* change and go; each change queues an event for the hook thread.  The     *)
(* hook thread takes one event at a time, and reads the attributes of a     *)
(* window that no cached value answers from the window itself, which may    *)
(* have changed since.  The UI thread publishes rule sets.                  *)
(*                                                                         *)
(* The path of the process is cached like the class, the location like the  *)
(* title: they are left out.  A condition is the set of values it accepts,  *)
(* whichever matcher it was compiled to.                                    *)
(***************************************************************************)
EXTENDS Naturals, SequencesExt

CONSTANTS
  Hwnds,       \* window handles, which the system uses again
  Classes, Titles,
  EmptyTitle,  \* the title of a window without one
  NoValue,     \* an attribute that is not loaded, or dirty
  RuleSets,    \* what the settings may compile to
  MaxWindows,  \* bound: windows created in one behaviour
  MaxEvents,   \* bound: events waiting at once
  Faults       \* failures the environment may produce

Windows   == 1..MaxWindows
NoWindow  == 0
Values    == Classes \cup Titles
Triggers  == {"foreground", "show"}
Attributes == {"class", "title"}
Condition == [attribute : Attributes, accepts : SUBSET Values]

ASSUME RulesAssumption ==
  /\ Hwnds # {}
  /\ EmptyTitle \in Titles
  /\ NoValue \notin Values
  /\ \A rules \in RuleSets : \A i \in 1..Len(rules) :
       /\ rules[i].trigger \subseteq Triggers
       /\ \A k \in 1..Len(rules[i].conditions) : rules[i].conditions[k] \in Condition
  /\ MaxWindows \in Nat
  /\ MaxEvents \in Nat
  /\ Faults \subseteq {"memory"}

VARIABLES
  window,   \* the window each handle names, with its attributes
  created,  \* number of windows created so far
  queue,    \* events that wait for the hook thread
  cache,    \* the entry of each handle in cache_; "of" is the window it was made for
  cached,   \* handles that have an entry
  ruleSet,  \* rule_set_ of the engine
  job,      \* the event the hook thread handles, and how far it is
  process,  \* "alive", or "terminated" by an exception in a noexcept function
  moved,    \* windows an operation was executed on (history)
  lost      \* windows an event of which was dropped for lack of memory (history)

systemVars == <<window, created>>
historyVars == <<moved, lost>>
vars == <<systemVars, queue, cache, cached, ruleSet, job, process, historyVars>>

Absent  == [id |-> NoWindow, class |-> NoValue, title |-> NoValue, dying |-> FALSE]
NoState == [of |-> NoWindow, class |-> NoValue, title |-> NoValue]
NoEvent == [type |-> "none", hwnd |-> CHOOSE h \in Hwnds : TRUE, self |-> FALSE, id |-> NoWindow]
Idle    == [pc |-> "idle", event |-> NoEvent, rules |-> <<>>, passed |-> 0]

Init ==
  /\ window = [h \in Hwnds |-> Absent]
  /\ created = 0
  /\ queue = <<>>
  /\ cache = [h \in Hwnds |-> NoState]
  /\ cached = {}
  /\ ruleSet = <<>>
  /\ job = Idle
  /\ process = "alive"
  /\ moved = {}
  /\ lost = {}

-----------------------------------------------------------------------------
(* The windows of other programs, and the UI thread.                       *)

Exists(h) == window[h].id # NoWindow

Event(type, h, self) == [type |-> type, hwnd |-> h, self |-> self, id |-> window[h].id]

\* self is FALSE for the event of an object inside the window.
QueueEvent(type, h, self) ==
  /\ Len(queue) < MaxEvents
  /\ queue' = Append(queue, Event(type, h, self))

CreateWindow(h) ==
  /\ ~Exists(h)
  /\ created < MaxWindows
  /\ created' = created + 1
  /\ \E c \in Classes, t \in Titles :
       window' = [window EXCEPT ![h] =
                    [id |-> created', class |-> c, title |-> t, dying |-> FALSE]]
  /\ UNCHANGED <<queue, cache, cached, ruleSet, job, process, historyVars>>

ShowWindow(h, self) ==
  /\ Exists(h) /\ ~window[h].dying
  /\ QueueEvent("show", h, self)
  /\ UNCHANGED <<systemVars, cache, cached, ruleSet, job, process, historyVars>>

FocusWindow(h) ==
  /\ Exists(h) /\ ~window[h].dying
  /\ QueueEvent("foreground", h, TRUE)
  /\ UNCHANGED <<systemVars, cache, cached, ruleSet, job, process, historyVars>>

RenameWindow(h) ==
  /\ Exists(h) /\ ~window[h].dying
  /\ \E t \in Titles \ {window[h].title} : window' = [window EXCEPT ![h].title = t]
  /\ QueueEvent("name", h, TRUE)
  /\ UNCHANGED <<created, cache, cached, ruleSet, job, process, historyVars>>

\* DestroyWindow queues its event while the handle is still valid ...
DestroyWindow(h) ==
  /\ Exists(h) /\ ~window[h].dying
  /\ window' = [window EXCEPT ![h].dying = TRUE]
  /\ QueueEvent("destroy", h, TRUE)
  /\ UNCHANGED <<created, cache, cached, ruleSet, job, process, historyVars>>

\* ... and then invalidates it, whether or not the event was received.
ReleaseHandle(h) ==
  /\ window[h].dying
  /\ window' = [window EXCEPT ![h] = Absent]
  /\ UNCHANGED <<created, queue, cache, cached, ruleSet, job, process, historyVars>>

\* onSettingsChanged() stores the compiled rule set; if there is no memory for
\* it the old one stays.
SettingsChanged(rules) ==
  /\ ruleSet' = rules
  /\ UNCHANGED <<systemVars, queue, cache, cached, job, process, historyVars>>

-----------------------------------------------------------------------------
(* The cache.                                                              *)

\* getOrCreate(h)
Cached(h) ==
  /\ cached' = cached \cup {h}
  /\ cache' = IF h \in cached THEN cache
              ELSE [cache EXCEPT ![h] = [NoState EXCEPT !.of = window[h].id]]

ProcessWindowEvent_KeepsTitle(type, h) ==
  /\ cached' = IF type = "destroy" THEN cached \ {h} ELSE cached
  /\ cache' = IF type = "destroy" THEN [cache EXCEPT ![h] = NoState] ELSE cache

\* processWindowEvent(event, h)
ProcessWindowEvent(type, h) ==
  CASE type = "destroy" -> /\ cached' = cached \ {h}
                           /\ cache' = [cache EXCEPT ![h] = NoState]
    [] type = "name"    -> /\ cache' = [cache EXCEPT ![h].title = NoValue]
                           /\ UNCHANGED cached
    [] OTHER            -> UNCHANGED <<cache, cached>>

\* windowClass() and windowTitle() of the state of h answer v: from the entry,
\* or from the window, which fills the entry.  An empty title is not kept.
ReadAttribute(h, a, v) ==
  /\ a \in Attributes
  /\ \/ /\ cache[h][a] # NoValue
        /\ v = cache[h][a]
        /\ UNCHANGED cache
     \/ /\ cache[h][a] = NoValue
        /\ Exists(h)
        /\ v = window[h][a]
        /\ cache' = IF v = EmptyTitle THEN cache ELSE [cache EXCEPT ![h][a] = v]

\* There is no window to read from: the accessor throws.
ReadFails(h, a) == cache[h][a] = NoValue /\ ~Exists(h)

-----------------------------------------------------------------------------
(* The hook thread.                                                        *)

hookUnchanged == <<systemVars, ruleSet>>

\* IsRootWindow(h): GetAncestor finds no window for a handle that is gone.
IsRootWindow(h) == Exists(h)

Triggered_OnlyBy(type) == SelectSeq(ruleSet, LAMBDA r : r.trigger = {type})

\* checkRules(): the rules of the snapshot that have the trigger.
Triggered(type) == SelectSeq(ruleSet, LAMBDA r : type \in r.trigger)

\* getOrCreate() and, unless it found no memory, the start of checkRules().
EnterCheck(e) ==
  \/ /\ Cached(e.hwnd)
     /\ job' = [pc |-> "check", event |-> e, rules |-> Triggered(e.type), passed |-> 0]
     /\ UNCHANGED lost
  \/ /\ "memory" \in Faults
     /\ e.hwnd \notin cached
     /\ job' = Idle
     /\ lost' = lost \cup {e.id}
     /\ UNCHANGED <<cache, cached>>

\* The hook thread receives the next event.
ReceiveForeground ==
  /\ job.pc = "idle"
  /\ queue # <<>>
  /\ Head(queue).type = "foreground"
  /\ queue' = Tail(queue)
  /\ EnterCheck(Head(queue))
  /\ UNCHANGED <<hookUnchanged, process, moved>>

ReceiveOther ==
  /\ job.pc = "idle"
  /\ queue # <<>>
  /\ Head(queue).type # "foreground"
  /\ queue' = Tail(queue)
  /\ job' = [Idle EXCEPT !.pc = "filter", !.event = Head(queue)]
  /\ UNCHANGED <<hookUnchanged, cache, cached, process, historyVars>>

\* The events of objects inside a window, and of a window that is no longer
\* there, are dropped.
Filter ==
  /\ job.pc = "filter"
  /\ ~job.event.self \/ ~IsRootWindow(job.event.hwnd)
  /\ job' = Idle
  /\ UNCHANGED <<hookUnchanged, queue, cache, cached, process, historyVars>>

ReceiveShow ==
  /\ job.pc = "filter"
  /\ job.event.self /\ IsRootWindow(job.event.hwnd)
  /\ job.event.type = "show"
  /\ EnterCheck(job.event)
  /\ UNCHANGED <<hookUnchanged, queue, process, moved>>

\* A foreground event gets here, too, after its rules were checked.
UpdateCache ==
  /\ job.pc = "filter"
  /\ job.event.self /\ IsRootWindow(job.event.hwnd)
  /\ job.event.type # "show"
  /\ ProcessWindowEvent(job.event.type, job.event.hwnd)
  /\ job' = Idle
  /\ UNCHANGED <<hookUnchanged, queue, process, historyVars>>

Rule == Head(job.rules)

NextRule_StillMatched == [job EXCEPT !.rules = Tail(@)]

NextRule == [job EXCEPT !.rules = Tail(@), !.passed = 0]

\* The next condition of the rule.
EvaluateCondition ==
  /\ job.pc = "check"
  /\ job.rules # <<>>
  /\ job.passed < Len(Rule.conditions)
  /\ LET condition == Rule.conditions[job.passed + 1] IN
       \/ /\ \E v \in Values :
               /\ ReadAttribute(job.event.hwnd, condition.attribute, v)
               /\ job' = IF v \in condition.accepts
                           THEN [job EXCEPT !.passed = @ + 1]
                           ELSE NextRule
          /\ UNCHANGED process
       \/ /\ ReadFails(job.event.hwnd, condition.attribute)
          /\ process' = "terminated"
          /\ UNCHANGED <<cache, job>>
  /\ UNCHANGED <<hookUnchanged, queue, cached, historyVars>>

\* All conditions hold; the result of the operation is ignored.
ExecuteOperation ==
  /\ job.pc = "check"
  /\ job.rules # <<>>
  /\ job.passed = Len(Rule.conditions)
  /\ moved' = moved \cup ({window[job.event.hwnd].id} \ {NoWindow})
  /\ job' = NextRule
  /\ UNCHANGED <<hookUnchanged, queue, cache, cached, process, lost>>

\* A relative operation asks for the shadow of a window that is gone:
\* shadowMargin() throws, and execute() is noexcept.
OperationTerminates ==
  /\ job.pc = "check"
  /\ job.rules # <<>>
  /\ job.passed = Len(Rule.conditions)
  /\ ~Exists(job.event.hwnd)
  /\ process' = "terminated"
  /\ UNCHANGED <<hookUnchanged, queue, cache, cached, job, historyVars>>

EndCheck ==
  /\ job.pc = "check"
  /\ job.rules = <<>>
  /\ job' = IF job.event.type = "foreground" THEN [job EXCEPT !.pc = "filter"] ELSE Idle
  /\ UNCHANGED <<hookUnchanged, queue, cache, cached, process, historyVars>>

-----------------------------------------------------------------------------
SystemNext == \E h \in Hwnds : \/ CreateWindow(h)
                               \/ \E self \in BOOLEAN : ShowWindow(h, self)
                               \/ FocusWindow(h)
                               \/ RenameWindow(h)
                               \/ DestroyWindow(h)
                               \/ ReleaseHandle(h)

HookNext == \/ ReceiveForeground
            \/ ReceiveOther
            \/ Filter
            \/ ReceiveShow
            \/ UpdateCache
            \/ EvaluateCondition
            \/ ExecuteOperation
            \/ OperationTerminates
            \/ EndCheck

Terminated == process # "alive" /\ UNCHANGED vars

Next ==
  \/ /\ process = "alive"
     /\ \/ SystemNext
        \/ \E rules \in RuleSets : SettingsChanged(rules)
        \/ HookNext
  \/ Terminated

Spec == Init /\ [][Next]_vars

\* The hook thread goes on handling events for as long as the process lives.
FairSpec == Spec /\ WF_vars(process = "alive" /\ HookNext)

-----------------------------------------------------------------------------
(* Properties.                                                             *)

EventType == [type : {"none", "foreground", "show", "name", "destroy"},
              hwnd : Hwnds, self : BOOLEAN, id : Windows \cup {NoWindow}]

\* Every variable holds a value the code's types allow.
TypeOK ==
  /\ window \in [Hwnds -> [id : Windows \cup {NoWindow}, class : Classes \cup {NoValue},
                           title : Titles \cup {NoValue}, dying : BOOLEAN]]
  /\ created \in 0..MaxWindows
  /\ queue \in Seq(EventType)
  /\ cache \in [Hwnds -> [of : Windows \cup {NoWindow}, class : Classes \cup {NoValue},
                          title : Titles \cup {NoValue}]]
  /\ cached \in SUBSET Hwnds
  /\ ruleSet \in RuleSets \cup {<<>>}
  /\ job.pc \in {"idle", "check", "filter"}
  /\ job.event \in EventType
  /\ process \in {"alive", "terminated"}
  /\ moved \in SUBSET Windows
  /\ lost \in SUBSET (Windows \cup {NoWindow})

\* The entry of h was made for the window h names now: the handle has not been
\* used again since.
OwnState(h) == Exists(h) /\ cache[h].of = window[h].id

IsRename(e, h) == e.type = "name" /\ e.hwnd = h /\ e.self

\* The hook thread has yet to hear that h was renamed.
RenamePending(h) == \/ \E i \in 1..Len(queue) : IsRename(queue[i], h)
                    \/ job.pc = "filter" /\ IsRename(job.event, h)

\* What the cache answers is what the window would answer, or the event that
\* makes the entry dirty is on its way, however reads, renames and events
\* follow each other: as long as the handle has not been used again.
CacheCoherent ==
  \A h \in cached : OwnState(h) =>
    /\ cache[h].class \in {NoValue, window[h].class}
    /\ cache[h].title \in {NoValue, window[h].title} \/ RenamePending(h)

Satisfies(condition, h) == window[h][condition.attribute] \in condition.accepts

MovesMatching ==
  ExecuteOperation /\ OwnState(job.event.hwnd) =>
    \A k \in 1..Len(Rule.conditions) :
      \/ Satisfies(Rule.conditions[k], job.event.hwnd)
      \/ Rule.conditions[k].attribute = "title" /\ RenamePending(job.event.hwnd)

\* An operation is executed on a window that matches every condition of its
\* rule, or that was renamed so late that its event is still on the way, though
\* the conditions are read one by one while the window changes.
OnlyMatchingIsMoved == [][MovesMatching]_vars

\* The State that rules are checked on stays in the cache until they are.
StateInUse == job.pc = "check" => job.event.hwnd \in cached

\* The cache answers for the windows that exist and keeps what is in use.
CacheInv == TypeOK /\ CacheCoherent /\ StateInUse

\* An event with which rules are to be checked waits for the hook thread.
Waiting(h, w, type) ==
  \E i \in 1..Len(queue) : queue[i] = [type |-> type, hwnd |-> h, self |-> TRUE, id |-> w]

\* A rule of every rule set asks for no more than the class of h.
AlwaysMatches(h, type) ==
  \A rules \in RuleSets \cup {ruleSet} : \E i \in 1..Len(rules) :
    /\ type \in rules[i].trigger
    /\ \A k \in 1..Len(rules[i].conditions) :
         rules[i].conditions[k].attribute = "class" /\ Satisfies(rules[i].conditions[k], h)

\* A window that is shown or comes to the foreground while a rule matches it is
\* moved, unless it is destroyed first, the handle has an old entry, there is
\* no memory, or the process is terminated.
MatchingIsMoved ==
  \A h \in Hwnds, w \in Windows, type \in Triggers :
    /\ Waiting(h, w, type)
    /\ window[h].id = w
    /\ h \in cached => OwnState(h)
    /\ AlwaysMatches(h, type)
    ~> w \in moved \/ w \in lost \/ window[h].id # w \/ process # "alive"

\* No exception leaves checkRules(), execute() or a window event listener
\* (noexcept).
NeverTerminated == process # "terminated"

=============================================================================
