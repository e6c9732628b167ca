------------------------- MODULE WindowRules_proofs -------------------------
(***************************************************************************)
(* Proofs about WindowRules for any handles, windows, events and rule sets: *)
(* the cache never answers for an existing window what the window would     *)
(* not, unless the event that corrects it is on its way, and so the         *)
(* operations reach only windows that match.                                *)
(***************************************************************************)
EXTENDS WindowRules, TLAPS

\* The numbers of windows grow: a window that is created has none of those an
\* entry was made for.
Numbered ==
  \A h \in Hwnds : /\ window[h].id <= created
                   /\ cache[h].of <= created

\* job is a record whose fields are not bounded by the constants.
JobRecord ==
  /\ job = [pc |-> job.pc, event |-> job.event, rules |-> job.rules, passed |-> job.passed]
  /\ job.passed \in Nat

RulesInv == CacheInv /\ Numbered /\ JobRecord

-----------------------------------------------------------------------------
(* Types.                                                                  *)

LEMMA EventHasType ==
  ASSUME TypeOK, NEW h \in Hwnds, NEW self \in BOOLEAN,
         NEW type \in {"none", "foreground", "show", "name", "destroy"}
  PROVE  Event(type, h, self) \in EventType
BY DEF TypeOK, Event, EventType

LEMMA IdleHasType ==
  /\ Idle.pc = "idle" /\ Idle.event \in EventType
  /\ Idle.event.type = "none"
<1>1. NoEvent \in EventType
  BY RulesAssumption DEF NoEvent, EventType, NoWindow
<1> QED BY <1>1 DEF Idle, NoEvent

\* The event the hook thread takes from the queue is one.
LEMMA HeadHasType ==
  ASSUME TypeOK, queue # <<>>
  PROVE  /\ Head(queue) \in EventType
         /\ Tail(queue) \in Seq(EventType)
BY DEF TypeOK

LEMMA SystemType == ASSUME RulesInv, SystemNext PROVE TypeOK'
<1> USE DEF RulesInv, CacheInv
<1>1. PICK h \in Hwnds : \/ CreateWindow(h)
                         \/ \E self \in BOOLEAN : ShowWindow(h, self)
                         \/ FocusWindow(h)
                         \/ RenameWindow(h)
                         \/ DestroyWindow(h)
                         \/ ReleaseHandle(h)
  BY DEF SystemNext
<1>2. ASSUME NEW type \in {"none", "foreground", "show", "name", "destroy"}, NEW self \in BOOLEAN,
             QueueEvent(type, h, self)
      PROVE  queue' \in Seq(EventType)
  BY <1>2, EventHasType DEF QueueEvent, TypeOK
<1>3. CASE CreateWindow(h)
  <2>1. PICK c \in Classes, t \in Titles :
          window' = [window EXCEPT ![h] = [id |-> created', class |-> c, title |-> t, dying |-> FALSE]]
    BY <1>3 DEF CreateWindow
  <2>2. created' \in 0..MaxWindows /\ created' \in Windows
    BY <1>3, RulesAssumption DEF CreateWindow, TypeOK, Windows
  <2> QED BY <1>3, <2>1, <2>2 DEF CreateWindow, TypeOK, historyVars
<1>4. CASE \E self \in BOOLEAN : ShowWindow(h, self)
  BY <1>2, <1>4 DEF ShowWindow, TypeOK, systemVars, historyVars
<1>5. CASE FocusWindow(h)
  BY <1>2, <1>5 DEF FocusWindow, TypeOK, systemVars, historyVars
<1>6. CASE RenameWindow(h)
  <2>1. queue' \in Seq(EventType)
    BY <1>2, <1>6 DEF RenameWindow
  <2>2. PICK t \in Titles : window' = [window EXCEPT ![h].title = t]
    BY <1>6 DEF RenameWindow
  <2>3. [window[h] EXCEPT !.title = t] \in [id : Windows \cup {NoWindow}, class : Classes \cup {NoValue},
                                            title : Titles \cup {NoValue}, dying : BOOLEAN]
    BY DEF TypeOK
  <2>4. window' = [window EXCEPT ![h] = [window[h] EXCEPT !.title = t]]
    BY <2>2 DEF TypeOK
  <2>5. window' \in [Hwnds -> [id : Windows \cup {NoWindow}, class : Classes \cup {NoValue},
                               title : Titles \cup {NoValue}, dying : BOOLEAN]]
    BY <2>3, <2>4 DEF TypeOK
  <2> QED BY <1>6, <2>1, <2>5 DEF RenameWindow, TypeOK, historyVars
<1>7. CASE DestroyWindow(h)
  BY <1>2, <1>7 DEF DestroyWindow, TypeOK, historyVars
<1>8. CASE ReleaseHandle(h)
  BY <1>8 DEF ReleaseHandle, TypeOK, historyVars, Absent
<1> QED BY <1>1, <1>3, <1>4, <1>5, <1>6, <1>7, <1>8

LEMMA CachedType ==
  ASSUME TypeOK, NEW h \in Hwnds, Cached(h)
  PROVE  /\ cached' \in SUBSET Hwnds
         /\ cache' \in [Hwnds -> [of : Windows \cup {NoWindow}, class : Classes \cup {NoValue},
                                  title : Titles \cup {NoValue}]]
BY DEF TypeOK, Cached, NoState

LEMMA EnterCheckType ==
  ASSUME TypeOK, NEW e \in EventType, EnterCheck(e)
  PROVE  /\ cached' \in SUBSET Hwnds
         /\ cache' \in [Hwnds -> [of : Windows \cup {NoWindow}, class : Classes \cup {NoValue},
                                  title : Titles \cup {NoValue}]]
         /\ job'.pc \in {"idle", "check", "filter"} /\ job'.event \in EventType
         /\ lost' \in SUBSET (Windows \cup {NoWindow})
<1>1. CASE /\ Cached(e.hwnd)
           /\ job' = [pc |-> "check", event |-> e, rules |-> Triggered(e.type), passed |-> 0]
           /\ UNCHANGED lost
  BY <1>1, CachedType DEF EventType, TypeOK
<1>2. CASE job' = Idle /\ lost' = lost \cup {e.id} /\ UNCHANGED <<cache, cached>>
  BY <1>2, IdleHasType DEF EventType, TypeOK
<1> QED BY <1>1, <1>2 DEF EnterCheck

LEMMA ReadType ==
  ASSUME TypeOK, NEW h \in Hwnds, NEW a, NEW v, ReadAttribute(h, a, v)
  PROVE  cache' \in [Hwnds -> [of : Windows \cup {NoWindow}, class : Classes \cup {NoValue},
                              title : Titles \cup {NoValue}]]
<1>1. CASE a = "class" /\ v = window[h].class
  BY <1>1 DEF ReadAttribute, TypeOK
<1>2. CASE a = "title" /\ v = window[h].title
  <2>1. v \in Titles \cup {NoValue}
    BY <1>2 DEF TypeOK
  <2>2. cache' = cache \/ cache' = [cache EXCEPT ![h].title = v]
    BY <1>2 DEF ReadAttribute
  <2>3. [cache[h] EXCEPT !.title = v] \in [of : Windows \cup {NoWindow}, class : Classes \cup {NoValue},
                                           title : Titles \cup {NoValue}]
    BY <2>1 DEF TypeOK
  <2>4. cache' = cache \/ cache' = [cache EXCEPT ![h] = [cache[h] EXCEPT !.title = v]]
    BY <2>2 DEF TypeOK
  <2> QED BY <2>3, <2>4 DEF TypeOK
<1>3. CASE UNCHANGED cache
  BY <1>3 DEF TypeOK
<1> QED BY <1>1, <1>2, <1>3 DEF ReadAttribute, Attributes

LEMMA HookType == ASSUME RulesInv, HookNext PROVE TypeOK'
<1> USE DEF hookUnchanged, systemVars, historyVars
<1>0. TypeOK
  BY DEF RulesInv, CacheInv
<1>1. CASE ReceiveForeground
  <2>1. EnterCheck(Head(queue)) /\ Head(queue) \in EventType /\ Tail(queue) \in Seq(EventType)
    BY <1>0, <1>1, HeadHasType DEF ReceiveForeground
  <2> QED BY <1>0, <1>1, <2>1, EnterCheckType DEF ReceiveForeground, TypeOK
<1>2. CASE ReceiveOther
  BY <1>0, <1>2, HeadHasType DEF ReceiveOther, TypeOK, Idle
<1>3. CASE Filter
  BY <1>0, <1>3, IdleHasType DEF Filter, TypeOK
<1>4. CASE ReceiveShow
  <2>1. EnterCheck(job.event) /\ job.event \in EventType
    BY <1>0, <1>4 DEF ReceiveShow, TypeOK
  <2> QED BY <1>0, <1>4, <2>1, EnterCheckType DEF ReceiveShow, TypeOK
<1>5. CASE UpdateCache
  <2> DEFINE h == job.event.hwnd
  <2>1. ProcessWindowEvent(job.event.type, h) /\ h \in Hwnds
    BY <1>0, <1>5 DEF UpdateCache, TypeOK, EventType
  <2>2. /\ cached' \in SUBSET Hwnds
        /\ cache' \in [Hwnds -> [of : Windows \cup {NoWindow}, class : Classes \cup {NoValue},
                                 title : Titles \cup {NoValue}]]
    BY <1>0, <2>1 DEF ProcessWindowEvent, TypeOK, NoState
  <2> QED BY <1>0, <1>5, <2>2, IdleHasType DEF UpdateCache, TypeOK
<1>6. CASE EvaluateCondition
  <2> DEFINE h == job.event.hwnd
             attribute == Rule.conditions[job.passed + 1].attribute
  <2>1. h \in Hwnds
    BY <1>0 DEF TypeOK, EventType
  <2>2. job'.pc \in {"idle", "check", "filter"} /\ job'.event \in EventType
    BY <1>0, <1>6 DEF EvaluateCondition, NextRule, TypeOK, RulesInv, JobRecord
  <2>3. cache' = cache \/ \E v \in Values : ReadAttribute(h, attribute, v)
    BY <1>6 DEF EvaluateCondition
  <2>4. cache' \in [Hwnds -> [of : Windows \cup {NoWindow}, class : Classes \cup {NoValue},
                              title : Titles \cup {NoValue}]]
    BY <1>0, <2>1, <2>3, ReadType DEF TypeOK
  <2> QED BY <1>0, <1>6, <2>2, <2>4 DEF EvaluateCondition, TypeOK
<1>7. CASE ExecuteOperation
  BY <1>0, <1>7 DEF ExecuteOperation, NextRule, TypeOK, EventType, RulesInv, JobRecord
<1>8. CASE EndCheck
  BY <1>0, <1>8, IdleHasType DEF EndCheck, TypeOK, RulesInv, JobRecord
<1>9. CASE OperationTerminates
  BY <1>0, <1>9 DEF OperationTerminates, TypeOK
<1> QED BY <1>1, <1>2, <1>3, <1>4, <1>5, <1>6, <1>7, <1>8, <1>9 DEF HookNext

LEMMA JobRecordStep == ASSUME RulesInv, [Next]_vars PROVE JobRecord'
<1>1. CASE UNCHANGED job
  BY <1>1 DEF RulesInv, JobRecord
<1>2. CASE job' = Idle
  BY <1>2 DEF Idle, JobRecord
<1>3. ASSUME NEW e, job' = [pc |-> "check", event |-> e, rules |-> Triggered(e.type), passed |-> 0]
      PROVE  JobRecord'
  BY <1>3 DEF JobRecord
<1>4. CASE HookNext
  <2>1. CASE \E e : EnterCheck(e)
    BY <1>2, <1>3, <2>1 DEF EnterCheck
  <2>2. CASE ReceiveOther
    BY <2>2 DEF ReceiveOther, Idle, JobRecord
  <2>3. CASE Filter \/ UpdateCache
    BY <1>2, <2>3 DEF Filter, UpdateCache
  <2>4. CASE EvaluateCondition \/ ExecuteOperation
    <3>1. JobRecord
      BY DEF RulesInv
    <3>2. CASE job' = NextRule
      BY <3>1, <3>2 DEF NextRule, JobRecord
    <3>3. CASE job' = [job EXCEPT !.passed = @ + 1]
      BY <3>1, <3>3 DEF JobRecord
    <3> QED BY <1>1, <2>4, <3>2, <3>3 DEF EvaluateCondition, ExecuteOperation
  <2>5. CASE EndCheck
    BY <1>2, <2>5 DEF EndCheck, RulesInv, JobRecord
  <2>6. CASE OperationTerminates
    BY <1>1, <2>6 DEF OperationTerminates
  <2> QED BY <1>4, <2>1, <2>2, <2>3, <2>4, <2>5, <2>6 DEF HookNext, ReceiveForeground, ReceiveShow
<1>5. CASE SystemNext \/ (\E rules \in RuleSets : SettingsChanged(rules)) \/ UNCHANGED vars
  BY <1>1, <1>5 DEF SystemNext, CreateWindow, ShowWindow, FocusWindow, RenameWindow, DestroyWindow,
                    ReleaseHandle, SettingsChanged, vars
<1> QED BY <1>4, <1>5 DEF Next, Terminated

LEMMA TypeStep == ASSUME RulesInv, [Next]_vars PROVE TypeOK'
<1>1. CASE \E rules \in RuleSets : SettingsChanged(rules)
  BY <1>1 DEF SettingsChanged, RulesInv, CacheInv, TypeOK, systemVars, historyVars
<1>2. CASE UNCHANGED vars
  BY <1>2 DEF vars, RulesInv, CacheInv, TypeOK, systemVars, historyVars
<1> QED BY <1>1, <1>2, SystemType, HookType DEF Next, Terminated

-----------------------------------------------------------------------------
(* What the queue holds.                                                   *)

LEMMA PendingStays ==
  ASSUME TypeOK, NEW h \in Hwnds, NEW e \in EventType, queue' = Append(queue, e), UNCHANGED job
  PROVE  /\ RenamePending(h) => RenamePending(h)'
         /\ IsRename(e, h) => RenamePending(h)'
<1>1. \A i \in 1..Len(queue) : i \in 1..Len(queue') /\ queue'[i] = queue[i]
  BY DEF TypeOK
<1>2. Len(queue') \in 1..Len(queue') /\ queue'[Len(queue')] = e
  BY DEF TypeOK
<1> QED BY <1>1, <1>2 DEF RenamePending, IsRename

LEMMA PendingReceived ==
  ASSUME TypeOK, NEW h \in Hwnds, queue # <<>>, queue' = Tail(queue), job.pc = "idle",
         RenamePending(h), ~IsRename(Head(queue), h)
  PROVE  RenamePending(h)'
<1>1. PICK i \in 1..Len(queue) : IsRename(queue[i], h)
  BY DEF RenamePending
<1>2. i # 1
  BY <1>1 DEF TypeOK
<1>3. i - 1 \in 1..Len(queue') /\ queue'[i - 1] = queue[i]
  BY <1>1, <1>2 DEF TypeOK
<1> QED BY <1>1, <1>3 DEF RenamePending, IsRename

-----------------------------------------------------------------------------
(* The windows change.                                                     *)

\* What a step of other programs leaves of the window an entry was made for.
Kept(h) ==
  OwnState(h)' =>
    /\ OwnState(h)
    /\ window'[h].class = window[h].class
    /\ window'[h].title = window[h].title \/ RenamePending(h)'
    /\ RenamePending(h) => RenamePending(h)'

LEMMA SystemKeeps ==
  ASSUME RulesInv, SystemNext
  PROVE  /\ UNCHANGED <<cache, cached, job>>
         /\ Numbered'
         /\ \A h \in Hwnds : Kept(h)
<1> USE DEF historyVars
<1>1. TypeOK /\ Numbered
  BY DEF RulesInv, CacheInv
<1>2. PICK h \in Hwnds : \/ CreateWindow(h)
                         \/ \E self \in BOOLEAN : ShowWindow(h, self)
                         \/ FocusWindow(h)
                         \/ RenameWindow(h)
                         \/ DestroyWindow(h)
                         \/ ReleaseHandle(h)
  BY DEF SystemNext
<1>3. ASSUME UNCHANGED <<cache, job>>, NEW e \in EventType, queue' = Append(queue, e), NEW g \in Hwnds,
             window'[g].id = window[g].id, window'[g].class = window[g].class,
             window'[g].title = window[g].title \/ IsRename(e, g)
      PROVE  Kept(g)
  BY <1>1, <1>3, PendingStays DEF Kept, OwnState, Exists
<1>4. CASE CreateWindow(h)
  <2>1. /\ UNCHANGED <<queue, cache, cached, job>>
        /\ created' = created + 1 /\ window'[h].id = created'
        /\ \A g \in Hwnds \ {h} : window'[g] = window[g]
    BY <1>1, <1>4 DEF CreateWindow, TypeOK
  <2>2. Numbered'
    BY <1>1, <2>1 DEF Numbered, TypeOK, Windows, NoWindow
  <2>3. cache[h].of # created'
    BY <1>1, <2>1 DEF Numbered, TypeOK, Windows, NoWindow
  <2>4. \A g \in Hwnds : Kept(g)
    BY <2>1, <2>3 DEF Kept, OwnState, Exists, RenamePending
  <2> QED BY <2>1, <2>2, <2>4
<1>5. CASE \E self \in BOOLEAN : ShowWindow(h, self)
  <2>1. PICK self \in BOOLEAN : ShowWindow(h, self)
    BY <1>5
  <2>2. Event("show", h, self) \in EventType /\ queue' = Append(queue, Event("show", h, self))
    BY <1>1, <2>1, EventHasType DEF ShowWindow, QueueEvent
  <2> QED BY <1>1, <1>3, <2>1, <2>2 DEF ShowWindow, systemVars, Numbered
<1>6. CASE FocusWindow(h)
  <2>1. Event("foreground", h, TRUE) \in EventType /\ queue' = Append(queue, Event("foreground", h, TRUE))
    BY <1>1, <1>6, EventHasType DEF FocusWindow, QueueEvent
  <2> QED BY <1>1, <1>3, <1>6, <2>1 DEF FocusWindow, systemVars, Numbered
<1>7. CASE RenameWindow(h)
  <2>1. Event("name", h, TRUE) \in EventType /\ queue' = Append(queue, Event("name", h, TRUE))
    BY <1>1, <1>7, EventHasType DEF RenameWindow, QueueEvent
  <2>2. IsRename(Event("name", h, TRUE), h)
    BY DEF IsRename, Event
  <2>3. /\ UNCHANGED <<cache, cached, job, created>>
        /\ \A g \in Hwnds : /\ window'[g].id = window[g].id /\ window'[g].class = window[g].class
                            /\ window'[g].title = window[g].title \/ g = h
    BY <1>1, <1>7 DEF RenameWindow, TypeOK
  <2> QED BY <1>1, <1>3, <2>1, <2>2, <2>3 DEF Numbered
<1>8. CASE DestroyWindow(h)
  <2>1. Event("destroy", h, TRUE) \in EventType /\ queue' = Append(queue, Event("destroy", h, TRUE))
    BY <1>1, <1>8, EventHasType DEF DestroyWindow, QueueEvent
  <2>2. /\ UNCHANGED <<cache, cached, job, created>>
        /\ \A g \in Hwnds : /\ window'[g].id = window[g].id /\ window'[g].class = window[g].class
                            /\ window'[g].title = window[g].title
    BY <1>1, <1>8 DEF DestroyWindow, TypeOK
  <2> QED BY <1>1, <1>3, <2>1, <2>2 DEF Numbered
<1>9. CASE ReleaseHandle(h)
  <2>1. /\ UNCHANGED <<queue, cache, cached, job, created>>
        /\ window'[h].id = NoWindow
        /\ \A g \in Hwnds \ {h} : window'[g] = window[g]
    BY <1>1, <1>9 DEF ReleaseHandle, TypeOK, Absent
  <2>2. Numbered'
    BY <1>1, <2>1 DEF Numbered, TypeOK, NoWindow
  <2> QED BY <2>1, <2>2 DEF Kept, OwnState, Exists, RenamePending
<1> QED BY <1>2, <1>4, <1>5, <1>6, <1>7, <1>8, <1>9

-----------------------------------------------------------------------------
(* The hook thread.                                                        *)

\* The conditions that passed still hold, or a rename is on its way.
Holds(condition) ==
  /\ condition.attribute \in Attributes
  /\ \/ Satisfies(condition, job.event.hwnd)
     \/ condition.attribute = "title" /\ RenamePending(job.event.hwnd)

ChecksHold ==
  job.pc = "check" /\ job.rules # <<>> /\ OwnState(job.event.hwnd) =>
    \A k \in 1..job.passed : Holds(Rule.conditions[k])

Inv == RulesInv /\ ChecksHold

\* Entries stay as they are, are made anew, or are removed.
EntriesKept ==
  \A h \in cached' :
    \/ h \in cached /\ cache'[h] = cache[h]
    \/ cache'[h] = [NoState EXCEPT !.of = window[h].id]

LEMMA KeptIsCoherent ==
  ASSUME RulesInv, TypeOK', UNCHANGED systemVars, EntriesKept,
         \A h \in Hwnds : RenamePending(h) => RenamePending(h)'
  PROVE  CacheCoherent'
<1> SUFFICES ASSUME NEW h \in cached', OwnState(h)'
             PROVE  /\ cache'[h].class \in {NoValue, window'[h].class}
                    /\ cache'[h].title \in {NoValue, window'[h].title} \/ RenamePending(h)'
  BY DEF CacheCoherent
<1>1. CASE h \in cached /\ cache'[h] = cache[h]
  BY <1>1 DEF RulesInv, CacheInv, CacheCoherent, OwnState, Exists, systemVars, TypeOK
<1>2. CASE cache'[h] = [NoState EXCEPT !.of = window[h].id]
  BY <1>2 DEF NoState
<1> QED BY <1>1, <1>2 DEF EntriesKept

LEMMA EnterCheckKeeps ==
  ASSUME RulesInv, TypeOK', UNCHANGED systemVars, NEW e \in EventType, EnterCheck(e),
         \A h \in Hwnds : RenamePending(h) => RenamePending(h)'
  PROVE  CacheInv' /\ Numbered' /\ ChecksHold'
<1>1. e.hwnd \in Hwnds /\ TypeOK /\ Numbered
  BY DEF EventType, RulesInv, CacheInv
<1>2. CASE Cached(e.hwnd) /\ job' = [pc |-> "check", event |-> e, rules |-> Triggered(e.type), passed |-> 0]
  <2>1. /\ cached' = cached \cup {e.hwnd}
        /\ cache' = IF e.hwnd \in cached THEN cache
                    ELSE [cache EXCEPT ![e.hwnd] = [NoState EXCEPT !.of = window[e.hwnd].id]]
    BY <1>2 DEF Cached
  <2>2. EntriesKept
    BY <1>1, <2>1 DEF EntriesKept, TypeOK
  <2>3. Numbered'
    BY <1>1, <2>1 DEF Numbered, TypeOK, NoState, systemVars
  <2>4. StateInUse'
    BY <1>2, <2>1 DEF StateInUse
  <2>5. ChecksHold'
    BY <1>2 DEF ChecksHold
  <2> QED BY <2>2, <2>3, <2>4, <2>5, KeptIsCoherent DEF CacheInv
<1>3. CASE job' = Idle /\ UNCHANGED <<cache, cached>>
  <2>1. EntriesKept /\ Numbered' /\ job'.pc = "idle"
    BY <1>1, <1>3, IdleHasType DEF EntriesKept, Numbered, systemVars
  <2> QED BY <2>1, KeptIsCoherent DEF CacheInv, StateInUse, ChecksHold
<1> QED BY <1>2, <1>3 DEF EnterCheck

\* A step after which no rules are checked.
LEMMA UncheckedKeeps ==
  ASSUME RulesInv, TypeOK', UNCHANGED <<systemVars, cache, cached>>, job'.pc # "check",
         \A h \in Hwnds : OwnState(h) /\ RenamePending(h) => RenamePending(h)'
  PROVE  CacheInv' /\ Numbered' /\ ChecksHold'
<1>1. CacheCoherent'
  BY DEF CacheCoherent, RulesInv, CacheInv, OwnState, Exists, systemVars, TypeOK
<1>2. Numbered'
  BY DEF Numbered, RulesInv, systemVars
<1> QED BY <1>1, <1>2 DEF CacheInv, StateInUse, ChecksHold

LEMMA ReceiveKeeps ==
  ASSUME RulesInv, TypeOK', ReceiveForeground \/ ReceiveOther
  PROVE  CacheInv' /\ Numbered' /\ ChecksHold'
<1>1. TypeOK /\ queue # <<>> /\ queue' = Tail(queue) /\ job.pc = "idle" /\ UNCHANGED systemVars
  BY DEF ReceiveForeground, ReceiveOther, RulesInv, CacheInv, hookUnchanged
<1>2. Head(queue) \in EventType
  BY <1>1, HeadHasType
<1>3. CASE ReceiveForeground
  <2>1. \A h \in Hwnds : ~IsRename(Head(queue), h)
    BY <1>3 DEF ReceiveForeground, IsRename
  <2>2. \A h \in Hwnds : RenamePending(h) => RenamePending(h)'
    BY <1>1, <2>1, PendingReceived
  <2> QED BY <1>1, <1>2, <1>3, <2>2, EnterCheckKeeps DEF ReceiveForeground
<1>4. CASE ReceiveOther
  <2>1. job'.pc = "filter" /\ job'.event = Head(queue) /\ UNCHANGED <<cache, cached>>
    BY <1>4 DEF ReceiveOther, Idle
  <2>2. ASSUME NEW h \in Hwnds, RenamePending(h)
        PROVE  RenamePending(h)'
    <3>1. CASE IsRename(Head(queue), h)
      BY <2>1, <3>1 DEF RenamePending, IsRename
    <3> QED BY <1>1, <2>2, <3>1, PendingReceived
  <2> QED BY <1>1, <2>1, <2>2, UncheckedKeeps
<1> QED BY <1>3, <1>4

\* The filters drop no rename of a window an entry is in use for.
LEMMA FilterKeeps ==
  ASSUME RulesInv, TypeOK', Filter \/ EndCheck
  PROVE  CacheInv' /\ Numbered' /\ ChecksHold'
<1>1. UNCHANGED <<systemVars, cache, cached, queue>>
  BY DEF Filter, EndCheck, hookUnchanged
<1>2. job'.pc # "check"
  BY IdleHasType DEF Filter, EndCheck, RulesInv, JobRecord
<1>3. ASSUME NEW h \in Hwnds, OwnState(h), RenamePending(h)
      PROVE  RenamePending(h)'
  <2>1. CASE \E i \in 1..Len(queue) : IsRename(queue[i], h)
    BY <1>1, <2>1 DEF RenamePending, IsRename
  <2>2. CASE job.pc = "filter" /\ IsRename(job.event, h)
    BY <1>3, <2>2 DEF Filter, EndCheck, IsRename, OwnState, IsRootWindow
  <2> QED BY <1>3, <2>1, <2>2 DEF RenamePending
<1> QED BY <1>1, <1>2, <1>3, UncheckedKeeps

LEMMA ShowKeeps ==
  ASSUME RulesInv, TypeOK', ReceiveShow
  PROVE  CacheInv' /\ Numbered' /\ ChecksHold'
<1>1. EnterCheck(job.event) /\ job.event \in EventType /\ UNCHANGED <<systemVars, queue>>
  BY DEF ReceiveShow, RulesInv, CacheInv, TypeOK, hookUnchanged
<1>2. \A h \in Hwnds : ~IsRename(job.event, h)
  BY DEF ReceiveShow, IsRename
<1>3. \A h \in Hwnds : RenamePending(h) => RenamePending(h)'
  BY <1>1, <1>2 DEF RenamePending, IsRename
<1> QED BY <1>1, <1>3, EnterCheckKeeps

LEMMA UpdateKeeps ==
  ASSUME RulesInv, TypeOK', UpdateCache
  PROVE  CacheInv' /\ Numbered' /\ ChecksHold'
<1> DEFINE h == job.event.hwnd
<1>1. /\ TypeOK /\ Numbered /\ h \in Hwnds /\ job.pc = "filter"
      /\ UNCHANGED <<systemVars, queue>> /\ job' = Idle
      /\ ProcessWindowEvent(job.event.type, h)
  BY DEF UpdateCache, RulesInv, CacheInv, TypeOK, EventType, hookUnchanged
<1>2. job'.pc = "idle"
  BY <1>1, IdleHasType
<1>3. ASSUME NEW g \in Hwnds, RenamePending(g), ~IsRename(job.event, g)
      PROVE  RenamePending(g)'
  BY <1>1, <1>3 DEF RenamePending, IsRename
<1>4. CASE job.event.type = "name"
  <2>1. UNCHANGED cached /\ cache' = [cache EXCEPT ![h].title = NoValue]
    BY <1>1, <1>4 DEF ProcessWindowEvent
  <2>2. \A g \in Hwnds \ {h} : cache'[g] = cache[g]
    BY <1>1, <2>1 DEF TypeOK
  <2>3. cache'[h].title = NoValue /\ cache'[h].class = cache[h].class /\ cache'[h].of = cache[h].of
    BY <1>1, <2>1 DEF TypeOK
  <2>4. \A g \in Hwnds \ {h} : ~IsRename(job.event, g)
    BY DEF IsRename
  <2>5. CacheCoherent'
    <3> SUFFICES ASSUME NEW g \in cached', OwnState(g)'
                 PROVE  /\ cache'[g].class \in {NoValue, window'[g].class}
                        /\ cache'[g].title \in {NoValue, window'[g].title} \/ RenamePending(g)'
      BY DEF CacheCoherent
    <3>1. g \in cached /\ g \in Hwnds /\ OwnState(g)
      BY <1>1, <2>1, <2>2, <2>3 DEF TypeOK, OwnState, Exists, systemVars
    <3>2. CASE g = h
      BY <1>1, <2>3, <3>1, <3>2 DEF RulesInv, CacheInv, CacheCoherent, systemVars
    <3>3. CASE g # h
      BY <1>1, <1>3, <2>2, <2>4, <3>1, <3>3 DEF RulesInv, CacheInv, CacheCoherent, systemVars
    <3> QED BY <3>2, <3>3
  <2>6. Numbered'
    BY <1>1, <2>2, <2>3 DEF Numbered, systemVars
  <2> QED BY <1>2, <2>5, <2>6 DEF CacheInv, StateInUse, ChecksHold
<1>5. CASE job.event.type # "name"
  <2>1. \A g \in Hwnds : RenamePending(g) => RenamePending(g)'
    BY <1>3, <1>5 DEF IsRename
  <2>2. \A g \in Hwnds : cache'[g] = cache[g] \/ (cache'[g] = NoState /\ g \notin cached')
    BY <1>1, <1>5 DEF ProcessWindowEvent, TypeOK
  <2>3. cached' \subseteq cached /\ cached \subseteq Hwnds
    BY <1>1, <1>5 DEF ProcessWindowEvent, TypeOK
  <2>4. EntriesKept
    BY <2>2, <2>3 DEF EntriesKept
  <2>5. Numbered'
    BY <1>1, <2>2 DEF Numbered, systemVars, NoState, NoWindow, TypeOK
  <2> QED BY <1>1, <1>2, <2>1, <2>4, <2>5, KeptIsCoherent DEF CacheInv, StateInUse, ChecksHold
<1> QED BY <1>4, <1>5

\* A read answers from the entry or fills it from the window.
LEMMA ReadKeeps ==
  ASSUME RulesInv, TypeOK', UNCHANGED <<systemVars, cached>>, NEW h \in cached, NEW a, NEW v,
         ReadAttribute(h, a, v), \A g \in Hwnds : RenamePending(g)' = RenamePending(g)
  PROVE  /\ CacheCoherent' /\ Numbered'
         /\ \A g \in Hwnds : OwnState(g)' = OwnState(g)
         /\ OwnState(h) => v = window[h][a] \/ (a = "title" /\ RenamePending(h))
<1>1. TypeOK /\ Numbered /\ CacheCoherent /\ h \in Hwnds /\ a \in {"class", "title"}
  BY DEF RulesInv, CacheInv, TypeOK, ReadAttribute, Attributes
<1>2. /\ \A g \in Hwnds \ {h} : cache'[g] = cache[g]
      /\ cache'[h].of = cache[h].of
      /\ cache'[h].class = cache[h].class \/ cache'[h].class = window[h].class
      /\ cache'[h].title = cache[h].title \/ cache'[h].title = window[h].title
  <2>1. CASE UNCHANGED cache
    BY <2>1
  <2>2. CASE cache' = [cache EXCEPT ![h].class = window[h].class]
    BY <1>1, <2>2 DEF TypeOK
  <2>3. CASE cache' = [cache EXCEPT ![h].title = window[h].title]
    BY <1>1, <2>3 DEF TypeOK
  <2>4. UNCHANGED cache \/ cache' = [cache EXCEPT ![h][a] = window[h][a]]
    BY DEF ReadAttribute
  <2> QED BY <1>1, <2>1, <2>2, <2>3, <2>4
<1>3. \A g \in Hwnds : OwnState(g)' = OwnState(g)
  BY <1>2 DEF OwnState, Exists, systemVars
<1>4. CacheCoherent'
  <2> SUFFICES ASSUME NEW g \in cached, OwnState(g)
               PROVE  /\ cache'[g].class \in {NoValue, window[g].class}
                      /\ cache'[g].title \in {NoValue, window[g].title} \/ RenamePending(g)
    BY <1>1, <1>3 DEF CacheCoherent, TypeOK, systemVars
  <2>1. g \in Hwnds
    BY <1>1 DEF TypeOK
  <2>2. CASE g = h
    BY <1>1, <1>2, <2>2 DEF CacheCoherent
  <2>3. CASE g # h
    BY <1>1, <1>2, <2>1, <2>3 DEF CacheCoherent
  <2> QED BY <2>2, <2>3
<1>5. Numbered'
  BY <1>1, <1>2 DEF Numbered, systemVars
<1>6. ASSUME OwnState(h)
      PROVE  v = window[h][a] \/ (a = "title" /\ RenamePending(h))
  <2>1. v = window[h][a] \/ (cache[h][a] # NoValue /\ v = cache[h][a])
    BY DEF ReadAttribute
  <2>2. CASE a = "class"
    BY <1>1, <1>6, <2>1, <2>2 DEF CacheCoherent
  <2>3. CASE a = "title"
    BY <1>1, <1>6, <2>1, <2>3 DEF CacheCoherent
  <2> QED BY <1>1, <2>2, <2>3
<1> QED BY <1>1, <1>3, <1>4, <1>5, <1>6

LEMMA EvaluateKeeps ==
  ASSUME Inv, TypeOK', EvaluateCondition
  PROVE  CacheInv' /\ Numbered' /\ ChecksHold'
<1> DEFINE h == job.event.hwnd
           condition == Rule.conditions[job.passed + 1]
<1>1. /\ RulesInv /\ ChecksHold /\ TypeOK /\ h \in cached /\ job.pc = "check" /\ job.rules # <<>>
      /\ UNCHANGED <<systemVars, queue, cached>>
  BY DEF EvaluateCondition, Inv, RulesInv, CacheInv, StateInUse, hookUnchanged
<1>2. job.passed \in Nat
  BY <1>1 DEF RulesInv, JobRecord
<1>3. h \in Hwnds
  BY <1>1 DEF TypeOK
<1>4. CASE UNCHANGED <<cache, job>>
  <2>1. CacheCoherent' /\ Numbered' /\ StateInUse'
    BY <1>1, <1>4 DEF RulesInv, CacheInv, CacheCoherent, OwnState, Exists, systemVars, RenamePending,
                      IsRename, Numbered, StateInUse
  <2>2. ChecksHold /\ UNCHANGED <<systemVars, queue, cache, job>>
    BY <1>1, <1>4
  <2>3. OwnState(h)' = OwnState(h) /\ RenamePending(h)' = RenamePending(h)
    BY <2>2 DEF OwnState, Exists, RenamePending, IsRename, systemVars
  <2>4. \A k \in 1..job.passed : Holds(Rule.conditions[k]) => Holds(Rule.conditions[k])'
    BY <2>2, <2>3 DEF Rule, Holds, Satisfies, systemVars
  <2>5. ChecksHold'
    BY <2>2, <2>3, <2>4 DEF ChecksHold
  <2> QED BY <2>1, <2>5 DEF CacheInv
<1>5. ASSUME NEW v \in Values, ReadAttribute(h, condition.attribute, v),
             job' = IF v \in condition.accepts THEN [job EXCEPT !.passed = @ + 1] ELSE NextRule
      PROVE  CacheInv' /\ Numbered' /\ ChecksHold'
  <2>1. job'.pc = "check" /\ job'.event = job.event
    BY <1>1, <1>5 DEF NextRule, RulesInv, JobRecord
  <2>2. \A g \in Hwnds : RenamePending(g)' = RenamePending(g)
    BY <1>1, <2>1 DEF RenamePending, IsRename
  <2>3. /\ CacheCoherent' /\ Numbered'
        /\ \A g \in Hwnds : OwnState(g)' = OwnState(g)
        /\ OwnState(h) => \/ v = window[h][condition.attribute]
                          \/ condition.attribute = "title" /\ RenamePending(h)
    BY <1>1, <1>5, <2>2, ReadKeeps
  <2>4. OwnState(h)' = OwnState(h)
    BY <1>3, <2>1, <2>3 DEF OwnState, Exists
  <2>5. CASE v \in condition.accepts
    <3>1. job'.passed = job.passed + 1 /\ job'.rules = job.rules
      BY <1>1, <1>5, <2>5 DEF RulesInv, JobRecord
    <3>2. ASSUME OwnState(h)
          PROVE  \A k \in 1..job.passed : Holds(Rule.conditions[k])
      BY <1>1, <3>2 DEF ChecksHold
    <3>3. ASSUME OwnState(h)
          PROVE  Holds(condition)
      BY <1>5, <2>3, <2>5, <3>3 DEF Holds, Satisfies, ReadAttribute
    <3>4. ASSUME OwnState(h), NEW k \in 1..(job.passed + 1)
          PROVE  Holds(Rule.conditions[k])
      <4>1. k \in 1..job.passed \/ k = job.passed + 1
        BY <1>2, <3>4
      <4> QED BY <3>2, <3>3, <3>4, <4>1
    <3>5. ASSUME NEW k \in 1..(job.passed + 1), Holds(Rule.conditions[k])
          PROVE  Holds(Rule.conditions[k])'
      BY <1>1, <1>3, <2>1, <2>2, <3>1, <3>5 DEF Holds, Satisfies, Rule, systemVars
    <3>6. ChecksHold'
      BY <2>1, <2>4, <3>1, <3>4, <3>5 DEF ChecksHold
    <3> QED BY <1>1, <2>1, <2>3, <3>6 DEF CacheInv, StateInUse
  <2>6. CASE v \notin condition.accepts
    <3>1. job'.passed = 0
      BY <1>1, <1>5, <2>6 DEF NextRule, RulesInv, JobRecord
    <3> QED BY <1>1, <2>1, <2>3, <3>1 DEF CacheInv, StateInUse, ChecksHold
  <2> QED BY <2>5, <2>6
<1> QED BY <1>4, <1>5 DEF EvaluateCondition

LEMMA ExecuteKeeps ==
  ASSUME Inv, TypeOK', ExecuteOperation
  PROVE  CacheInv' /\ Numbered' /\ ChecksHold'
<1>1. /\ RulesInv /\ job.pc = "check"
      /\ UNCHANGED <<systemVars, queue, cache, cached>>
  BY DEF ExecuteOperation, Inv, hookUnchanged
<1>2. job'.pc = "check" /\ job'.event = job.event /\ job'.passed = 0
  BY <1>1 DEF ExecuteOperation, NextRule, RulesInv, JobRecord
<1>3. CacheCoherent' /\ Numbered' /\ StateInUse'
  BY <1>1, <1>2 DEF RulesInv, CacheInv, CacheCoherent, OwnState, Exists, systemVars, RenamePending,
                    IsRename, Numbered, StateInUse
<1> QED BY <1>2, <1>3 DEF CacheInv, ChecksHold

LEMMA SystemKeepsInv ==
  ASSUME Inv, TypeOK', SystemNext
  PROVE  CacheInv' /\ Numbered' /\ ChecksHold'
<1>1. /\ RulesInv /\ ChecksHold /\ TypeOK
      /\ UNCHANGED <<cache, cached, job>>
      /\ Numbered'
      /\ \A h \in Hwnds : Kept(h)
  BY SystemKeeps DEF Inv, RulesInv, CacheInv
<1>2. CacheCoherent'
  <2> SUFFICES ASSUME NEW h \in cached, OwnState(h)'
               PROVE  /\ cache[h].class \in {NoValue, window'[h].class}
                      /\ cache[h].title \in {NoValue, window'[h].title} \/ RenamePending(h)'
    BY <1>1 DEF CacheCoherent
  <2>1. /\ OwnState(h)
        /\ window'[h].class = window[h].class
        /\ window'[h].title = window[h].title \/ RenamePending(h)'
        /\ RenamePending(h) => RenamePending(h)'
    BY <1>1 DEF Kept, TypeOK
  <2> QED BY <1>1, <2>1 DEF RulesInv, CacheInv, CacheCoherent
<1>3. StateInUse'
  BY <1>1 DEF RulesInv, CacheInv, StateInUse
<1>4. ChecksHold'
  <2> DEFINE h == job.event.hwnd
  <2> SUFFICES ASSUME job.pc = "check", job.rules # <<>>, OwnState(h)', NEW k \in 1..job.passed
               PROVE  Holds(Rule.conditions[k])'
    BY <1>1 DEF ChecksHold
  <2>1. /\ OwnState(h)
        /\ window'[h].class = window[h].class
        /\ window'[h].title = window[h].title \/ RenamePending(h)'
        /\ RenamePending(h) => RenamePending(h)'
    BY <1>1 DEF Kept, TypeOK, EventType
  <2>2. Holds(Rule.conditions[k])
    BY <1>1, <2>1 DEF ChecksHold
  <2> DEFINE condition == Rule.conditions[k]
  <2>3. CASE condition.attribute = "class"
    BY <1>1, <2>1, <2>2, <2>3 DEF Holds, Satisfies, Rule
  <2>4. CASE condition.attribute = "title"
    BY <1>1, <2>1, <2>2, <2>4 DEF Holds, Satisfies, Rule
  <2> QED BY <2>2, <2>3, <2>4 DEF Holds, Attributes
<1> QED BY <1>1, <1>2, <1>3, <1>4 DEF CacheInv

-----------------------------------------------------------------------------
(* The invariant.                                                          *)

LEMMA InitInv == Init => Inv
<1> SUFFICES ASSUME Init PROVE Inv
  OBVIOUS
<1>1. TypeOK
  BY IdleHasType, RulesAssumption DEF Init, TypeOK, Absent, NoState
<1>2. CacheCoherent /\ StateInUse /\ ChecksHold /\ Numbered /\ JobRecord
  BY DEF Init, CacheCoherent, StateInUse, ChecksHold, Numbered, JobRecord, Idle, Absent, NoState, NoWindow
<1> QED BY <1>1, <1>2 DEF Inv, RulesInv, CacheInv

LEMMA InvStep == Inv /\ [Next]_vars => Inv'
<1> SUFFICES ASSUME Inv, [Next]_vars PROVE Inv'
  OBVIOUS
<1>1. RulesInv /\ TypeOK' /\ JobRecord'
  BY TypeStep, JobRecordStep DEF Inv
<1>2. CASE HookNext /\ ~OperationTerminates
  BY <1>1, <1>2, ReceiveKeeps, FilterKeeps, ShowKeeps, UpdateKeeps, EvaluateKeeps, ExecuteKeeps
     DEF HookNext, Inv, RulesInv
<1>3. CASE SystemNext
  BY <1>1, <1>3, SystemKeepsInv DEF Inv, RulesInv
<1>4. ASSUME UNCHANGED <<systemVars, queue, cache, cached, job>>
      PROVE  Inv'
  <2>1. CacheCoherent' /\ Numbered' /\ StateInUse'
    BY <1>1, <1>4 DEF RulesInv, CacheInv, CacheCoherent, OwnState, Exists, systemVars, RenamePending,
                      IsRename, Numbered, StateInUse
  <2>2. ChecksHold'
    BY <1>4 DEF Inv, ChecksHold, OwnState, Exists, Rule, Holds, Satisfies, RenamePending, IsRename,
                systemVars
  <2> QED BY <1>1, <2>1, <2>2 DEF Inv, RulesInv, CacheInv
<1>5. CASE \/ \E rules \in RuleSets : SettingsChanged(rules)
           \/ OperationTerminates
           \/ UNCHANGED vars
  BY <1>4, <1>5 DEF SettingsChanged, OperationTerminates, hookUnchanged, vars
<1> QED BY <1>2, <1>3, <1>5 DEF Next, Terminated

\* Whatever windows of other programs do while their events wait, the cached
\* state of a window answers what the window itself would, except for a title
\* the event of whose change is still on its way; and the state that rules are
\* checked on is not removed meanwhile (WindowStateCache::processWindowEvent,
\* getOrCreate).
THEOREM CacheInvCorrect == Spec => []CacheInv
<1>1. Inv => CacheInv
  BY DEF Inv, RulesInv
<1> QED BY <1>1, InitInv, InvStep, PTL DEF Spec

\* RuleEngine::checkRules reads the conditions of a rule one by one while the
\* window may change between two reads; still an operation reaches only a
\* window that matches all of them, or that was renamed meanwhile.
THEOREM OnlyMatchingIsMovedCorrect == Spec => OnlyMatchingIsMoved
<1>1. ASSUME Inv, ExecuteOperation, OwnState(job.event.hwnd), NEW k \in 1..Len(Rule.conditions)
      PROVE  \/ Satisfies(Rule.conditions[k], job.event.hwnd)
             \/ Rule.conditions[k].attribute = "title" /\ RenamePending(job.event.hwnd)
  <2>1. job.pc = "check" /\ job.rules # <<>> /\ job.passed = Len(Rule.conditions)
    BY <1>1 DEF ExecuteOperation
  <2> QED BY <1>1, <2>1 DEF Inv, ChecksHold, Holds
<1>2. Inv => MovesMatching
  BY <1>1 DEF MovesMatching
<1> QED BY <1>2, InitInv, InvStep, PTL DEF Spec, OnlyMatchingIsMoved

=============================================================================
