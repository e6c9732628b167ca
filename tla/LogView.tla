------------------------------ MODULE LogView ------------------------------
(***************************************************************************)
(* The log of the program (src/app/logging/Logger, utility/ListenerHost)    *)
(* and the page that mirrors it (winui3/ViewModels/Logging/LogsViewModel).  *)
(* Threads add logs to a circular buffer and notify the view models, which  *)
(* enqueue an update of their list for the UI thread.  Nothing is locked.   *)
(*                                                                         *)
(* A log is named by its number.  The buffer holds the newest kLogSize logs *)
(* and the update carries a pointer into it, so what the pointer shows when *)
(* the update runs is the newest log in the same slot.  Accesses that may   *)
(* overlap have a beginning and an end; when they do overlap, the outcome   *)
(* is that of some order of them, or nothing is promised any more.          *)
(***************************************************************************)
EXTENDS Integers, FiniteSets, SettingsWindow

CONSTANTS
  Threads,   \* threads that log: the hook thread and the message thread
  Pages,     \* log pages, opened and closed one after another or together
  kLogSize,  \* capacity of the buffer (64, in debug builds 256)
  MaxLogs    \* bound: logs added in one behaviour

ASSUME LogAssumption ==
  /\ IsFiniteSet(Threads)
  /\ kLogSize \in Nat \ {0}
  /\ MaxLogs \in Nat

VARIABLES
  count,      \* logs added so far
  adding,     \* what each thread is doing in addLog(), with its CollectionChange
  ui,         \* the page of the settings window, and where its construction is
  view,       \* Logs_ of each page, the newest first
  listeners,  \* listeners_ of the logger
  closed,     \* pages whose view model has been destroyed
  updates,    \* updates that wait for the UI thread
  process,    \* "alive", or "undefined" after overlapping accesses
  base,       \* history: logs added when each page copied the buffer
  disturbed   \* history: pages that missed a log, got one twice, out of order or too late

logVars == <<count, adding, view, listeners, closed, updates, process, base, disturbed>>
vars == <<logVars, ui, settings>>

NoPage == "none"

Idle == [pc |-> "idle", log |-> 0, type |-> "kAdded"]

Init ==
  /\ SettingsInit
  /\ count = 0
  /\ adding = [t \in Threads |-> Idle]
  /\ ui = [pc |-> "idle", page |-> NoPage]
  /\ view = [p \in Pages |-> <<>>]
  /\ listeners = {} /\ closed = {}
  /\ updates = <<>>
  /\ process = "alive"
  /\ base = [p \in Pages |-> 0]
  /\ disturbed = {}

At(t, point) == adding[t].pc = point

Oldest == IF count > kLogSize THEN count - kLogSize ELSE 0

\* logs_, the newest first.
Logs == [i \in 1..(count - Oldest) |-> count + 1 - i]

\* What a pointer to the slot of log n shows now.
InSlot(n) == CHOOSE m \in (Oldest + 1)..count : (m - n) % kLogSize = 0

\* Overlapping accesses end as if one came after the other, or in anything.
MayTear(overlap) == process' \in IF overlap THEN {"alive", "undefined"} ELSE {"alive"}

-----------------------------------------------------------------------------
(* Logger::addLog() on thread t                                            *)

ChangeType_Afterwards == IF count + 1 >= kLogSize THEN "kUpdated" ELSE "kAdded"

\* is_full is read before the log is pushed.
ChangeType == IF count >= kLogSize THEN "kUpdated" ELSE "kAdded"

BeginPush(t) ==
  /\ At(t, "idle")
  /\ count + Cardinality({u \in Threads : At(u, "push")}) < MaxLogs
  /\ adding' = [adding EXCEPT ![t] = [pc |-> "push", log |-> 0, type |-> ChangeType]]
  /\ UNCHANGED <<count, ui, settings, view, listeners, closed, updates, process, base, disturbed>>

EndPush(t) ==
  /\ At(t, "push")
  /\ count' = count + 1
  /\ adding' = [adding EXCEPT ![t].pc = "pushed", ![t].log = count + 1]
  /\ MayTear((\E u \in Threads \ {t} : At(u, "push")) \/ ui.pc = "copy")
  \* is_full was read before another push made the buffer full.
  /\ disturbed' = IF count >= kLogSize /\ adding[t].type = "kAdded"
                    THEN disturbed \cup listeners \cup ({ui.page} \cap Pages) ELSE disturbed
  /\ UNCHANGED <<ui, settings, view, listeners, closed, updates, base>>

\* notify() has read a listener; onCollectionChanged() follows.
BeginNotify(t) ==
  /\ At(t, "pushed")
  /\ adding' = [adding EXCEPT ![t].pc = "notify"]
  /\ UNCHANGED <<count, ui, settings, view, listeners, closed, updates, process, base, disturbed>>

\* One update for each listener; the order of their calls is of no consequence
\* since each update concerns one page.
UpdatesOf(change) ==
  LET order == CHOOSE s \in [1..Cardinality(listeners) -> listeners] :
                 \A p \in listeners : \E i \in DOMAIN s : s[i] = p
  IN  [i \in DOMAIN order |-> [page |-> order[i], log |-> change.log, type |-> change.type]]

\* The page copied the log already, the change overtakes that of an older log,
\* or the page has copied the buffer without it and does not listen yet.
Disturbs(t, p) ==
  \/ /\ p \in listeners
     /\ \/ adding[t].log <= base[p]
        \/ \E u \in Threads : ~At(u, "idle") /\ ~At(u, "push") /\ adding[u].log < adding[t].log
  \/ /\ ui = [pc |-> "copied", page |-> p]
     /\ adding[t].log > base[p]

EndNotify(t) ==
  /\ At(t, "notify")
  /\ updates' = updates \o UpdatesOf(adding[t])
  /\ adding' = [adding EXCEPT ![t] = Idle]
  /\ disturbed' = disturbed \cup {p \in Pages : Disturbs(t, p)}
  /\ UNCHANGED <<count, ui, settings, view, listeners, closed, process, base>>

-----------------------------------------------------------------------------
(* The UI thread                                                           *)

\* A navigation in the settings window.  To the logs it makes a new page: the
\* view model's makeLogViewModels() iterates over logs_ ...
BeginCopy ==
  /\ ui.pc = "idle"
  /\ SettingsNext
  /\ LET shows == settings'.current = "LogsPage" IN
       \/ shows /\ ui.page # NoPage /\ UNCHANGED ui
       \/ ~shows /\ ui' = [ui EXCEPT !.page = NoPage]
       \/ /\ shows /\ ui.page = NoPage
          /\ \E p \in Pages \ (listeners \cup closed) : ui' = [pc |-> "copy", page |-> p]
  /\ UNCHANGED logVars

EndCopy ==
  /\ ui.pc = "copy"
  /\ ui' = [ui EXCEPT !.pc = "copied"]
  /\ view' = [view EXCEPT ![ui.page] = Logs]
  /\ base' = [base EXCEPT ![ui.page] = count]
  /\ MayTear(\E t \in Threads : At(t, "push"))
  /\ UNCHANGED <<count, adding, settings, listeners, closed, updates, disturbed>>

\* ... and the view model listens from here on.
AddListener ==
  /\ ui.pc = "copied"
  /\ ui' = [ui EXCEPT !.pc = "idle"]
  /\ listeners' = listeners \cup {ui.page}
  /\ MayTear(\E t \in Threads : At(t, "notify"))
  /\ UNCHANGED <<count, adding, settings, view, closed, updates, base, disturbed>>

\* A page that is no longer shown is destroyed at some time, in
\* LogsViewModel::~LogsViewModel(): a notify() that has read the listener calls
\* a destroyed object.
ClosePage(p) ==
  /\ ui.pc = "idle"
  /\ p \in listeners \ {ui.page}
  /\ listeners' = listeners \ {p}
  /\ closed' = closed \cup {p}
  /\ MayTear(\E t \in Threads : At(t, "notify"))
  /\ UNCHANGED <<count, adding, ui, settings, view, updates, base, disturbed>>

\* enum_flags_test(): kUpdated is kAdded and kRemoved.
Adds_NotUpdated(type) == type = "kAdded"
Adds(type) == type \in {"kAdded", "kUpdated"}
Removes(type) == type = "kUpdated"

Updated(logs, u) ==
  LET added == IF Adds(u.type) THEN <<InSlot(u.log)>> \o logs ELSE logs
  IN  IF Removes(u.type) THEN SubSeq(added, 1, Len(added) - 1) ELSE added

\* The lambda of onCollectionChanged(), which holds the page weakly.  It is late
\* when kLogSize newer logs were pushed: their slot is the one it reads.
RunUpdate ==
  /\ ui.pc = "idle"
  /\ updates # <<>>
  /\ LET u    == Head(updates)
         live == u.page \notin closed
     IN  /\ view' = IF live THEN [view EXCEPT ![u.page] = Updated(@, u)] ELSE view
         /\ disturbed' = IF live /\ u.log <= Oldest THEN disturbed \cup {u.page} ELSE disturbed
         /\ MayTear(/\ live
                    /\ u.log = count + 1 - kLogSize
                    /\ \E t \in Threads : At(t, "push"))
  /\ updates' = Tail(updates)
  /\ UNCHANGED <<count, adding, ui, settings, listeners, closed, base>>

-----------------------------------------------------------------------------
AddLog(t) == BeginPush(t) \/ EndPush(t) \/ BeginNotify(t) \/ EndNotify(t)

UiThread == \/ BeginCopy
            \/ \E p \in Pages : ClosePage(p)
            \/ EndCopy
            \/ AddListener
            \/ RunUpdate

Next == process = "alive" /\ (UiThread \/ \E t \in Threads : AddLog(t))

Spec == Init /\ [][Next]_vars

\* A log that is being added is added, and the dispatcher queue is served.
FairSpec ==
  /\ Spec
  /\ WF_vars(process = "alive" /\ (EndCopy \/ AddListener \/ RunUpdate))
  /\ \A t \in Threads : WF_vars(process = "alive" /\ (EndPush(t) \/ BeginNotify(t) \/ EndNotify(t)))

-----------------------------------------------------------------------------
(* Properties.                                                             *)

\* Every variable holds a value the code's types allow.
TypeOK ==
  /\ count \in 0..MaxLogs
  /\ \A t \in Threads : /\ adding[t].pc \in {"idle", "push", "pushed", "notify"}
                        /\ adding[t].log \in 0..count
  /\ ui.pc \in {"idle", "copy", "copied"}
  /\ \A p \in Pages : view[p] \in Seq(1..count)
  /\ listeners \cap closed = {}
  /\ disturbed \subseteq Pages
  /\ process \in {"alive", "undefined"}

\* What the queued updates will make of the list of page p.
AfterUpdates(p) ==
  LET after[i \in 0..Len(updates)] ==
        IF i = 0 THEN view[p]
        ELSE IF updates[i].page = p THEN Updated(after[i - 1], updates[i]) ELSE after[i - 1]
  IN  after[Len(updates)]

\* With the updates that are under way, an open page shows the buffer, newest
\* first and cut at the same length, whatever logged and was opened or closed
\* meanwhile: unless threads logged at the same time, the page was opened
\* between a push and its notification, or the UI thread fell kLogSize behind.
ViewIsBuffer ==
  process = "alive" /\ (\A t \in Threads : At(t, "idle")) =>
    \A p \in Pages :
      /\ p \in listeners
      /\ p \notin disturbed
      /\ \A i \in 1..Len(updates) : updates[i].page = p => updates[i].log > Oldest
      => AfterUpdates(p) = Logs

\* The mirror of the log is well formed and right.
LogInv == TypeOK /\ ViewIsBuffer

\* A log whose update waits for a page is shown there, unless it is overwritten
\* or the page is closed first, or the page was disturbed before.
UpdateShown ==
  \A p \in Pages, n \in 1..MaxLogs :
    (\E i \in 1..Len(updates) : updates[i].page = p /\ updates[i].log = n) ~>
      \/ \E i \in 1..Len(view[p]) : view[p][i] = n
      \/ n <= Oldest
      \/ p \in closed \cup disturbed
      \/ process # "alive"

=============================================================================
