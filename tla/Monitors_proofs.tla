-------------------------- MODULE Monitors_proofs --------------------------
(***************************************************************************)
(* Proofs about the monitor cache and its users, for any displays, view     *)
(* models and rules: callbacks meet only live view models, the cache        *)
(* follows the displays, open pages follow the cache, and windows are       *)
(* placed by a work area their rule's monitor has or had, off by no more    *)
(* than their shadows.                                                      *)
(***************************************************************************)
EXTENDS Monitors, SequenceTheorems, TLAPS

\* The registered view models exist, and while the lock is held those that are
\* still to be called are registered.
CallbackInv ==
  /\ status \in [ViewModels -> {"none", "live", "dying", "gone"}]
  /\ callbacks \subseteq ViewModels
  /\ \A v \in callbacks : status[v] \in {"live", "dying"}
  /\ rebuild.pc = "invoke" => rebuild.targets \subseteq callbacks

LEMMA InitCallback == Init => CallbackInv
  BY DEF Init, CallbackInv, NoRebuild

\* A rebuild that ends or goes on to invoke() does not hold the lock.
LEMMA KeepIdle == Keep => rebuild'.pc = "idle"
  BY DEF Keep, NoRebuild

LEMMA ReplaceChanged == ASSUME NEW states, Replace(states) PROVE rebuild'.pc = "changed"
  BY DEF Replace, NoRebuild

\* onDisplayChanged() and invoke(): the lock is taken with the view models
\* that are registered, and given back when all of them have been called.
LEMMA MessageThreadKeeps == CallbackInv /\ MessageThread => CallbackInv'
<1> SUFFICES ASSUME CallbackInv, MessageThread PROVE CallbackInv'
  OBVIOUS
<1> USE DEF CallbackInv
<1>1. CASE OnDisplayChanged
  <2>1. rebuild'.pc # "invoke"
    <3>1. CASE displays = <<>>
      BY <1>1, <3>1, KeepIdle, ReplaceChanged DEF OnDisplayChanged
    <3>2. CASE displays # <<>>
      <4>1. rebuild' = [NoRebuild EXCEPT !.pc = "enumerate", !.list = displays]
        BY <1>1, <3>2 DEF OnDisplayChanged
      <4> QED BY <4>1 DEF NoRebuild
    <3> QED BY <3>1, <3>2
  <2>2. UNCHANGED <<status, callbacks>>
    BY <1>1 DEF OnDisplayChanged, viewVars
  <2> QED BY <2>1, <2>2
<1>2. CASE EnumerateMonitor
  <2>1. rebuild'.pc # "invoke"
    BY <1>2 DEF EnumerateMonitor, NoRebuild
  <2> QED BY <1>2, <2>1 DEF EnumerateMonitor, viewVars
<1>3. CASE EndEnumeration
  <2>1. rebuild'.pc # "invoke"
    BY <1>3, KeepIdle, ReplaceChanged DEF EndEnumeration
  <2>2. UNCHANGED <<status, callbacks>>
    BY <1>3 DEF EndEnumeration, viewVars
  <2> QED BY <2>1, <2>2
<1>4. CASE Invoke
  BY <1>4 DEF Invoke, viewVars
<1>5. ASSUME NEW v \in ViewModels, InvokeCallback(v) PROVE CallbackInv'
  <2>1. CASE UNCHANGED rebuild
    BY <1>5, <2>1 DEF InvokeCallback
  <2>2. CASE rebuild' = [rebuild EXCEPT !.targets = @ \ {v}]
    <3>1. rebuild'.pc = "invoke" => rebuild'.targets \subseteq callbacks
      BY <1>5, <2>2 DEF InvokeCallback
    <3> QED BY <1>5, <3>1 DEF InvokeCallback
  <2> QED BY <1>5, <2>1, <2>2 DEF InvokeCallback
<1>6. CASE EndInvoke
  BY <1>6 DEF EndInvoke, NoRebuild, viewVars
<1> QED BY <1>1, <1>2, <1>3, <1>4, <1>5, <1>6 DEF MessageThread

\* The UI thread adds and removes callbacks only while the lock is free.
LEMMA UiThreadKeeps == CallbackInv /\ UiThread => CallbackInv'
<1> SUFFICES ASSUME CallbackInv, UiThread PROVE CallbackInv'
  OBVIOUS
<1> USE DEF CallbackInv, cacheVars
<1>1. ASSUME NEW v \in ViewModels, MakeItems(v) PROVE CallbackInv'
  BY <1>1 DEF MakeItems
<1>2. ASSUME NEW v \in ViewModels, AddCallback(v) PROVE CallbackInv'
  BY <1>2 DEF AddCallback, LockFree
<1>3. ASSUME NEW v \in ViewModels, RemoveCallback(v) PROVE CallbackInv'
  BY <1>3 DEF RemoveCallback, LockFree
<1>4. CASE RunUpdate
  BY <1>4 DEF RunUpdate
<1>5. ASSUME NEW id \in RuleIds, NEW f \in Fractions, ResolveId(id, f) PROVE CallbackInv'
  BY <1>5 DEF ResolveId
<1>6. ASSUME NEW v \in ViewModels, OpenPage(v) PROVE CallbackInv'
  BY <1>6 DEF OpenPage
<1>7. ASSUME NEW v \in ViewModels, ClosePage(v) PROVE CallbackInv'
  BY <1>7 DEF ClosePage
<1>8. ASSUME NEW f \in Fractions, CompileForPrimary(f) PROVE CallbackInv'
  BY <1>8 DEF CompileForPrimary, viewVars
<1>9. ASSUME NEW id \in RuleIds, CompileForId(id) PROVE CallbackInv'
  BY <1>9 DEF CompileForId
<1> QED BY <1>1, <1>2, <1>3, <1>4, <1>5, <1>6, <1>7, <1>8, <1>9 DEF UiThread, UiContinues

LEMMA NextKeeps == CallbackInv /\ [Next]_vars => CallbackInv'
<1> SUFFICES ASSUME CallbackInv, [Next]_vars PROVE CallbackInv'
  OBVIOUS
<1> USE DEF CallbackInv, viewVars, cacheVars
<1>1. ASSUME NEW l \in Layouts, ChangeDisplays(l) PROVE CallbackInv'
  BY <1>1 DEF ChangeDisplays
<1>2. CASE StartMessageWindow
  BY <1>2 DEF StartMessageWindow
<1>3. CASE MessageThread
  BY <1>3, MessageThreadKeeps
<1>4. CASE EnumerationFails
  BY <1>4 DEF EnumerationFails, NoRebuild
<1>5. CASE UiThread
  BY <1>5, UiThreadKeeps
<1>6. ASSUME NEW w \in Windows, ExecuteClean(w) \/ ExecuteDirty(w) PROVE CallbackInv'
  BY <1>6 DEF ExecuteClean, ExecuteDirty
<1>7. CASE ComputeBounds
  BY <1>7 DEF ComputeBounds
<1>8. CASE ShadowMarginThrows
  BY <1>8 DEF ShadowMarginThrows
<1>9. CASE UNCHANGED vars
  BY <1>9 DEF vars
<1> QED BY <1>1, <1>2, <1>3, <1>4, <1>5, <1>6, <1>7, <1>8, <1>9 DEF Next

\* invoke() never calls a view model whose destructor has returned, however
\* many pages are opened and closed (removeCallback() waits for lock_).
THEOREM CallbackOnLiveViewModelCorrect == Spec => []CallbackOnLiveViewModel
<1>1. CallbackInv => CallbackOnLiveViewModel
  BY DEF CallbackInv, CallbackOnLiveViewModel
<1> QED BY <1>1, InitCallback, NextKeeps, PTL DEF Spec

-----------------------------------------------------------------------------
(* Layouts and what an enumeration of one yields                           *)

VisibleUpTo(l, k) == {l[i] : i \in {j \in 1..k : \A m \in 1..(j - 1) : l[m].area # l[j].area}}
UniqueHandles(states) == \A s, t \in states : s.handle = t.handle => s = t

LEMMA LayoutFacts ==
  ASSUME NEW l \in Layouts
  PROVE  /\ l \in Seq(MonitorState) /\ Len(l) \in Nat
         /\ \A i \in 1..Len(l) : l[i] \in MonitorState
         /\ \A i, j \in 1..Len(l) : l[i].handle = l[j].handle => i = j
<1>1. l \in Seq(MonitorState)
  BY MonitorsAssumption
<1> QED
  BY <1>1, MonitorsAssumption, ElementOfSeq, LenProperties

\* A layout without displays is the empty one.
LEMMA EmptyLayout == ASSUME <<>> \in Layouts PROVE Visible(<<>>) = {}
BY DEF Visible

LEMMA VisibleFacts ==
  ASSUME NEW l \in Layouts
  PROVE  Visible(l) \subseteq MonitorState /\ UniqueHandles(Visible(l)) /\ Visible(l) = VisibleUpTo(l, Len(l))
BY LayoutFacts DEF Visible, VisibleUpTo, UniqueHandles

\* GetMonitorInfoW answers with the display that has the handle.
LEMMA MonitorInfoFacts ==
  ASSUME displays \in Layouts, NEW h
  PROVE  /\ MonitorInfo(h) \subseteq MonitorState /\ UniqueHandles(MonitorInfo(h))
         /\ \A s \in MonitorInfo(h) : s.handle = h
         /\ \A i \in 1..Len(displays) : h = displays[i].handle => MonitorInfo(h) = {displays[i]}
BY LayoutFacts DEF MonitorInfo, UniqueHandles

\* The enumeration drops the display that shows an area already seen.
LEMMA VisibleStep ==
  ASSUME NEW l \in Layouts, NEW k \in 0..Len(l), k + 1 \in 1..Len(l)
  PROVE  /\ (\E i \in 1..k : l[i].area = l[k + 1].area) => VisibleUpTo(l, k + 1) = VisibleUpTo(l, k)
         /\ ~(\E i \in 1..k : l[i].area = l[k + 1].area) =>
              VisibleUpTo(l, k + 1) = VisibleUpTo(l, k) \cup {l[k + 1]}
<1>1. k \in Nat /\ 1..(k + 1) = 1..k \cup {k + 1} /\ (k + 1) - 1 = k
  BY LayoutFacts
<1> DEFINE First(j) == \A m \in 1..(j - 1) : l[m].area # l[j].area
<1>2. First(k + 1) <=> ~(\E i \in 1..k : l[i].area = l[k + 1].area)
  BY <1>1
<1> HIDE DEF First
<1>3. VisibleUpTo(l, k + 1) = {l[i] : i \in {j \in 1..k \cup {k + 1} : First(j)}}
  BY <1>1 DEF VisibleUpTo, First
<1>4. VisibleUpTo(l, k) = {l[i] : i \in {j \in 1..k : First(j)}}
  BY DEF VisibleUpTo, First
<1> QED
  BY <1>2, <1>3, <1>4

LEMMA SuffixStep ==
  ASSUME NEW l \in Layouts, NEW k \in 0..Len(l)
  PROVE  /\ k = Len(l) <=> SubSeq(l, k + 1, Len(l)) = <<>>
         /\ k < Len(l) => /\ k + 1 \in 1..Len(l)
                          /\ Head(SubSeq(l, k + 1, Len(l))) = l[k + 1]
                          /\ Tail(SubSeq(l, k + 1, Len(l))) = SubSeq(l, (k + 1) + 1, Len(l))
<1>1. l \in Seq(MonitorState) /\ Len(l) \in Nat
  BY LayoutFacts
<1>2. CASE k = Len(l)
  <2>1. SubSeq(l, k + 1, Len(l)) = <<>>
    BY <1>1, <1>2, SubSeqEmpty
  <2> QED
    BY <1>1, <1>2, <2>1
<1>3. CASE k < Len(l)
  <2>1. k + 1 \in 1..Len(l) /\ Len(l) \in (k + 1)..Len(l)
    BY <1>1, <1>3
  <2>2. /\ Head(SubSeq(l, k + 1, Len(l))) = l[k + 1]
        /\ Tail(SubSeq(l, k + 1, Len(l))) = SubSeq(l, (k + 1) + 1, Len(l))
    BY <1>1, <2>1, HeadTailOfSubSeq
  <2>3. SubSeq(l, k + 1, Len(l)) # <<>>
    <3>1. \A i \in (k + 1)..Len(l) : l[i] \in MonitorState
      BY <1>1, LayoutFacts
    <3>2. Len(SubSeq(l, k + 1, Len(l))) = Len(l) - (k + 1) + 1
      BY <1>1, <2>1, <3>1, SubSeqProperties
    <3>3. Len(l) - (k + 1) + 1 # 0
      BY <1>1, <2>1
    <3>4. Len(<<>>) = 0
      OBVIOUS
    <3> QED
      BY <3>2, <3>3, <3>4, Zenon
  <2> QED
    BY <1>1, <1>3, <2>1, <2>2, <2>3
<1> QED
  BY <1>1, <1>2, <1>3

-----------------------------------------------------------------------------
(* The cache follows the displays                                          *)

\* The enumeration has seen the first k displays of a layout that was shown
\* when it began; it is still shown if no message waits.
Enumerated(l, k) ==
  /\ rebuild.list = SubSeq(l, k + 1, Len(l))
  /\ {s.handle : s \in rebuild.states} \subseteq {l[i].handle : i \in 1..k}
  /\ pending = 0 /\ ~unseen =>
       /\ l = displays
       /\ rebuild.states = VisibleUpTo(l, k)
       /\ {s.area : s \in rebuild.states} = {l[i].area : i \in 1..k}

MessagesInv ==
  /\ displays \in Layouts
  /\ changes \in 0..MaxChanges /\ pending \in 0..changes

StorageInv ==
  /\ storage \subseteq MonitorState /\ UniqueHandles(storage)
  /\ CacheCurrent

RebuildInv ==
  /\ rebuild = [pc |-> rebuild.pc, list |-> rebuild.list, states |-> rebuild.states, targets |-> rebuild.targets]
  /\ rebuild.pc \in {"idle", "enumerate", "changed", "invoke"}
  /\ rebuild.states \subseteq MonitorState /\ UniqueHandles(rebuild.states)
  /\ rebuild.pc = "enumerate" => \E l \in Layouts : \E k \in 0..Len(l) : Enumerated(l, k)

FollowInv == MessagesInv /\ StorageInv /\ RebuildInv

LEMMA FollowInvInit == ASSUME Init PROVE FollowInv
BY VisibleFacts, MonitorsAssumption
DEF Init, FollowInv, MessagesInv, StorageInv, RebuildInv, CacheCurrent, NoRebuild, UniqueHandles

\* A rebuild that is over keeps or replaces the states.
LEMMA IdleRebuild ==
  ASSUME NEW pc \in {"idle", "changed"}, rebuild' = [NoRebuild EXCEPT !.pc = pc]
  PROVE  RebuildInv' /\ rebuild'.pc = pc
BY DEF RebuildInv, NoRebuild, UniqueHandles

LEMMA KeepOrReplace ==
  ASSUME NEW states, IF storage = states THEN Keep ELSE Replace(states)
  PROVE  storage' = states /\ RebuildInv' /\ rebuild'.pc \in {"idle", "changed"}
<1>1. NoRebuild = [NoRebuild EXCEPT !.pc = "idle"]
  BY DEF NoRebuild
<1> QED
  BY <1>1, IdleRebuild DEF Keep, Replace

\* A change of the displays sends a message, or is one the cache does not see.
LEMMA ChangeFollow ==
  ASSUME FollowInv, NEW l \in Layouts, ChangeDisplays(l)
  PROVE  FollowInv'
<1> USE DEF FollowInv
<1>1. MessagesInv'
  BY MonitorsAssumption DEF ChangeDisplays, MessagesInv
<1>2. UNCHANGED <<storage, rebuild>> /\ (pending' # 0 \/ unseen')
  BY DEF ChangeDisplays, MessagesInv, cacheVars
<1>3. StorageInv'
  BY <1>2 DEF StorageInv, CacheCurrent
<1>4. RebuildInv'
  <2>1. ASSUME NEW m \in Layouts, NEW k \in 0..Len(m), Enumerated(m, k)
        PROVE  Enumerated(m, k)'
    BY <1>2, <2>1 DEF Enumerated
  <2> QED
    BY <1>2, <2>1 DEF RebuildInv
<1> QED
  BY <1>1, <1>3, <1>4

LEMMA OnDisplayChangedFollow ==
  ASSUME FollowInv, OnDisplayChanged
  PROVE  FollowInv'
<1> USE DEF FollowInv
<1>1. MessagesInv' /\ UNCHANGED displays /\ ~unseen'
  BY MonitorsAssumption DEF OnDisplayChanged, MessagesInv, systemVars
<1>2. CASE displays = <<>>
  <2>1. storage' = {} /\ RebuildInv' /\ rebuild'.pc \in {"idle", "changed"}
    BY <1>2, KeepOrReplace DEF OnDisplayChanged
  <2>2. StorageInv'
    BY <1>1, <1>2, <2>1, EmptyLayout DEF StorageInv, CacheCurrent, UniqueHandles, MessagesInv
  <2> QED
    BY <1>1, <2>1, <2>2
<1>3. CASE displays # <<>>
  <2>1. UNCHANGED storage /\ rebuild' = [NoRebuild EXCEPT !.pc = "enumerate", !.list = displays]
    BY <1>3 DEF OnDisplayChanged
  <2>2. /\ rebuild'.pc = "enumerate" /\ rebuild'.list = displays /\ rebuild'.states = {}
        /\ rebuild' = [pc |-> rebuild'.pc, list |-> rebuild'.list, states |-> rebuild'.states,
                       targets |-> rebuild'.targets]
    BY <2>1 DEF NoRebuild
  <2>3. StorageInv'
    BY <2>1, <2>2 DEF StorageInv, CacheCurrent
  <2>4. Enumerated(displays, 0)'
    <3>1. displays \in Seq(MonitorState) /\ SubSeq(displays, 1, Len(displays)) = displays /\ 0 + 1 = 1
      BY LayoutFacts, SubSeqFull DEF MessagesInv
    <3> QED
      BY <1>1, <2>2, <3>1 DEF Enumerated, VisibleUpTo
  <2>5. RebuildInv'
    <3>1. 0 \in 0..Len(displays) /\ displays \in Layouts
      BY LayoutFacts DEF MessagesInv
    <3> QED
      BY <1>1, <2>2, <2>4, <3>1 DEF RebuildInv, UniqueHandles
  <2> QED
    BY <1>1, <2>3, <2>5
<1> QED
  BY <1>2, <1>3

\* One display more: the mirror of one already seen is left out, one that is
\* gone ends the rebuild (and then a message waits).
LEMMA EnumerateFollow ==
  ASSUME FollowInv, EnumerateMonitor
  PROVE  FollowInv'
<1> USE DEF FollowInv
<1> DEFINE next == Head(rebuild.list)
           mirrored == \E s \in rebuild.states : s.area = next.area
           info == MonitorInfo(next.handle)
<1>1. MessagesInv' /\ UNCHANGED <<displays, pending, unseen, storage>>
  BY DEF EnumerateMonitor, MessagesInv, systemVars, historyVars
<1>2. PICK l \in Layouts : \E k \in 0..Len(l) : Enumerated(l, k)
  BY DEF EnumerateMonitor, RebuildInv
<1>3. PICK k \in 0..Len(l) : Enumerated(l, k)
  BY <1>2
<1>4. /\ k + 1 \in 1..Len(l) /\ next = l[k + 1] /\ Tail(rebuild.list) = SubSeq(l, (k + 1) + 1, Len(l))
      /\ k \in Nat /\ Len(l) \in Nat /\ k < Len(l)
  <2>1. rebuild.list = SubSeq(l, k + 1, Len(l)) /\ rebuild.list # <<>>
    BY <1>3 DEF EnumerateMonitor, Enumerated
  <2>2. k \in Nat /\ Len(l) \in Nat /\ k <= Len(l)
    BY LayoutFacts
  <2>3. k # Len(l)
    BY <2>1, SuffixStep
  <2>4. k < Len(l)
    BY <2>2, <2>3
  <2> QED
    BY <2>1, <2>2, <2>4, SuffixStep
<1>5. pending = 0 /\ ~unseen => info = {next}
  BY <1>3, <1>4, MonitorInfoFacts DEF Enumerated, MessagesInv
<1>6. CASE ~mirrored /\ info = {}
  <2>1. rebuild' = NoRebuild
    BY <1>6 DEF EnumerateMonitor
  <2>2. RebuildInv' /\ rebuild'.pc = "idle"
    BY <2>1, IdleRebuild DEF NoRebuild
  <2>3. StorageInv'
    BY <1>1, <1>5, <1>6 DEF StorageInv, CacheCurrent
  <2> QED
    BY <1>1, <2>2, <2>3
<1>7. CASE mirrored \/ info # {}
  <2> DEFINE states == IF mirrored THEN rebuild.states ELSE rebuild.states \cup info
  <2>1. rebuild' = [rebuild EXCEPT !.list = Tail(@), !.states = states]
    BY <1>7 DEF EnumerateMonitor
  <2> HIDE DEF states
  <2>2. /\ rebuild'.pc = "enumerate" /\ rebuild'.list = Tail(rebuild.list) /\ rebuild'.states = states
        /\ rebuild' = [pc |-> rebuild'.pc, list |-> rebuild'.list, states |-> rebuild'.states,
                       targets |-> rebuild'.targets]
    BY <2>1 DEF RebuildInv, EnumerateMonitor
  <2>3. /\ next \in MonitorState /\ next.handle = l[k + 1].handle
        /\ \A i \in 1..k : l[i].handle # next.handle
        /\ 1..(k + 1) = 1..k \cup {k + 1}
    BY <1>4, LayoutFacts
  <2>4. /\ info \subseteq MonitorState /\ UniqueHandles(info) /\ \A s \in info : s.handle = next.handle
    BY MonitorInfoFacts DEF MessagesInv
  <2>5. {s.handle : s \in rebuild.states} \subseteq {l[i].handle : i \in 1..k}
    BY <1>3 DEF Enumerated
  <2>6. states \subseteq MonitorState /\ UniqueHandles(states)
    <3>1. \A s \in rebuild.states : s.handle # next.handle
      BY <2>3, <2>5
    <3>2. UniqueHandles(rebuild.states \cup info)
      BY <2>4, <3>1 DEF RebuildInv, UniqueHandles
    <3> QED
      BY <2>4, <3>2 DEF RebuildInv, states
  <2>7. {s.handle : s \in states} \subseteq {l[i].handle : i \in 1..(k + 1)}
    <3>1. \A s \in states : s \in rebuild.states \/ s.handle = l[k + 1].handle
      BY <2>3, <2>4 DEF states
    <3>2. k + 1 \in 1..(k + 1) /\ 1..k \subseteq 1..(k + 1)
      BY <2>3
    <3> QED
      BY <2>5, <3>1, <3>2
  <2>8. ASSUME pending = 0, ~unseen
        PROVE  /\ l = displays
               /\ states = VisibleUpTo(l, k + 1)
               /\ {s.area : s \in states} = {l[i].area : i \in 1..(k + 1)}
    <3>1. /\ l = displays /\ rebuild.states = VisibleUpTo(l, k)
          /\ {s.area : s \in rebuild.states} = {l[i].area : i \in 1..k}
      BY <1>3, <2>8 DEF Enumerated
    <3>2. mirrored <=> \E i \in 1..k : l[i].area = l[k + 1].area
      <4>1. mirrored <=> next.area \in {s.area : s \in rebuild.states}
        OBVIOUS
      <4>2. next.area \in {l[i].area : i \in 1..k} <=> \E i \in 1..k : l[i].area = next.area
        OBVIOUS
      <4> QED
        BY <1>4, <3>1, <4>1, <4>2
    <3>3. states = VisibleUpTo(l, k + 1)
      <4>1. info = {l[k + 1]}
        BY <1>4, <1>5, <2>8
      <4>2. CASE mirrored
        BY <1>4, <3>1, <3>2, <4>2, VisibleStep DEF states
      <4>3. CASE ~mirrored
        <5>1. states = VisibleUpTo(l, k) \cup {l[k + 1]}
          BY <3>1, <4>1, <4>3 DEF states
        <5> HIDE DEF mirrored
        <5> QED
          BY <1>4, <3>2, <4>3, <5>1, VisibleStep
      <4> QED
        BY <4>2, <4>3
    <3>4. {l[i].area : i \in 1..(k + 1)} = {l[i].area : i \in 1..k} \cup {l[k + 1].area}
      BY <2>3
    <3>5. {s.area : s \in states} = {s.area : s \in rebuild.states} \cup {next.area}
      BY <1>5, <2>8 DEF states
    <3> QED
      BY <1>4, <3>1, <3>3, <3>4, <3>5
  <2>9. Enumerated(l, k + 1)'
    BY <1>1, <1>4, <2>2, <2>7, <2>8 DEF Enumerated, VisibleUpTo
  <2>10. k + 1 \in 0..Len(l)
    BY <1>4
  <2>11. RebuildInv'
    BY <2>2, <2>6, <2>9, <2>10 DEF RebuildInv, UniqueHandles
  <2>12. StorageInv'
    BY <1>1, <2>2 DEF StorageInv, CacheCurrent
  <2> QED
    BY <1>1, <2>11, <2>12
<1> QED
  BY <1>6, <1>7

LEMMA EndEnumerationFollow ==
  ASSUME FollowInv, EndEnumeration
  PROVE  FollowInv'
<1> USE DEF FollowInv
<1>1. MessagesInv' /\ UNCHANGED <<displays, pending, unseen>>
  BY DEF EndEnumeration, MessagesInv, systemVars, historyVars
<1>2. storage' = rebuild.states /\ RebuildInv' /\ rebuild'.pc \in {"idle", "changed"}
  BY KeepOrReplace DEF EndEnumeration
<1>3. ASSUME pending = 0, ~unseen
      PROVE  storage' = Visible(displays)
  <2>1. PICK l \in Layouts : \E k \in 0..Len(l) : Enumerated(l, k)
    BY DEF EndEnumeration, RebuildInv
  <2>2. PICK k \in 0..Len(l) : Enumerated(l, k)
    BY <2>1
  <2>3. k = Len(l)
    BY <2>2, SuffixStep DEF Enumerated, EndEnumeration
  <2> QED
    BY <1>2, <1>3, <2>2, <2>3, VisibleFacts DEF Enumerated
<1>4. StorageInv'
  BY <1>1, <1>2, <1>3 DEF StorageInv, CacheCurrent, RebuildInv, UniqueHandles
<1> QED
  BY <1>1, <1>2, <1>4

\* The other steps of the rebuild only move on, and no step of another thread
\* touches it.
LEMMA OtherFollow ==
  ASSUME FollowInv, UNCHANGED <<displays, changes, pending, storage>>, unseen => unseen',
         \/ UNCHANGED <<rebuild, unseen>>
         \/ rebuild' = NoRebuild /\ (rebuild.pc # "enumerate" \/ unseen')
         \/ /\ rebuild.pc \in {"changed", "invoke"} /\ rebuild'.pc = "invoke" /\ rebuild'.states = rebuild.states
            /\ rebuild' = [pc |-> rebuild'.pc, list |-> rebuild'.list, states |-> rebuild'.states,
                           targets |-> rebuild'.targets]
  PROVE  FollowInv'
<1> USE DEF FollowInv
<1>1. MessagesInv'
  BY DEF MessagesInv
<1>2. CASE UNCHANGED <<rebuild, unseen>>
  BY <1>1, <1>2 DEF StorageInv, CacheCurrent, RebuildInv, Enumerated, UniqueHandles
<1>3. CASE rebuild' = NoRebuild /\ (rebuild.pc # "enumerate" \/ unseen')
  <2>1. RebuildInv' /\ rebuild'.pc = "idle"
    BY <1>3, IdleRebuild DEF NoRebuild
  <2> QED
    BY <1>1, <1>3, <2>1 DEF StorageInv, CacheCurrent, RebuildInv
<1>4. CASE /\ rebuild.pc \in {"changed", "invoke"} /\ rebuild'.pc = "invoke" /\ rebuild'.states = rebuild.states
           /\ rebuild' = [pc |-> rebuild'.pc, list |-> rebuild'.list, states |-> rebuild'.states,
                          targets |-> rebuild'.targets]
  BY <1>1, <1>4 DEF StorageInv, CacheCurrent, RebuildInv, UniqueHandles
<1> QED
  BY <1>2, <1>3, <1>4

LEMMA FollowInvStep ==
  ASSUME FollowInv, [Next]_vars
  PROVE  FollowInv'
<1> USE DEF cacheVars, systemVars, historyVars
<1>1. ASSUME NEW l \in Layouts, ChangeDisplays(l) PROVE FollowInv'
  BY <1>1, ChangeFollow
<1>2. CASE OnDisplayChanged
  BY <1>2, OnDisplayChangedFollow
<1>3. CASE EnumerateMonitor
  BY <1>3, EnumerateFollow
<1>4. CASE EndEnumeration
  BY <1>4, EndEnumerationFollow
<1>5. CASE EnumerationFails
  BY <1>5, OtherFollow DEF EnumerationFails
<1>6. CASE EndInvoke
  BY <1>6, OtherFollow DEF EndInvoke
<1>7. CASE Invoke
  <2>1. /\ rebuild'.pc = "invoke" /\ rebuild'.states = rebuild.states
        /\ rebuild' = [pc |-> rebuild'.pc, list |-> rebuild'.list, states |-> rebuild'.states,
                       targets |-> rebuild'.targets]
    BY <1>7 DEF Invoke, FollowInv, RebuildInv
  <2> QED
    BY <1>7, <2>1, OtherFollow DEF Invoke
<1>8. ASSUME NEW v \in ViewModels, InvokeCallback(v) PROVE FollowInv'
  <2>1. CASE UNCHANGED rebuild
    BY <1>8, <2>1, OtherFollow DEF InvokeCallback
  <2>2. CASE rebuild' = [rebuild EXCEPT !.targets = @ \ {v}]
    <3>1. /\ rebuild'.pc = rebuild.pc /\ rebuild'.states = rebuild.states
          /\ rebuild' = [pc |-> rebuild'.pc, list |-> rebuild'.list, states |-> rebuild'.states,
                         targets |-> rebuild'.targets]
      BY <2>2 DEF FollowInv, RebuildInv
    <3> QED
      BY <1>8, <3>1, OtherFollow DEF InvokeCallback
  <2> QED
    BY <1>8, <2>1, <2>2 DEF InvokeCallback
<1>9. CASE \/ StartMessageWindow \/ UiThread \/ ComputeBounds \/ ShadowMarginThrows
           \/ (\E w \in Windows : ExecuteClean(w) \/ ExecuteDirty(w)) \/ UNCHANGED vars
  <2>1. UNCHANGED <<displays, changes, pending, storage, rebuild, unseen>>
    BY <1>9 DEF StartMessageWindow, UiThread, UiContinues, MakeItems, AddCallback, RemoveCallback, RunUpdate,
                ResolveId, OpenPage, ClosePage, CompileForPrimary, CompileForId, ComputeBounds, ExecuteClean,
                ExecuteDirty, ShadowMarginThrows, vars
  <2> QED
    BY <2>1, OtherFollow
<1> QED
  BY <1>1, <1>2, <1>3, <1>4, <1>5, <1>6, <1>7, <1>8, <1>9 DEF Next, MessageThread

LEMMA FollowInvariance == Spec => []FollowInv
<1>1. Init => FollowInv
  BY FollowInvInit
<1>2. FollowInv /\ [Next]_vars => FollowInv'
  BY FollowInvStep
<1> QED
  BY <1>1, <1>2, PTL DEF Spec

-----------------------------------------------------------------------------
(* The rules, and the windows they place                                   *)

Lengths  == [pos : Int, size : Int]
RuleType == [handle : Handles, relative : Fractions, dirty : BOOLEAN, bounds : Lengths, torn : BOOLEAN]

\* The hook thread works on a rule that exists, and the UI thread began to
\* compile one only with room for it.
RuleInv ==
  /\ rules \in Seq(RuleType) /\ Len(rules) <= MaxRules
  /\ ui.pc = "resolve" => Len(rules) < MaxRules
  /\ hook.pc = "got" => hook.window \in Windows /\ hook.rule \in 1..Len(rules)
  /\ reading \in [Readers -> {"no", "reading", "torn"}]
  /\ process \in {"alive", "terminated"}

\* Ceil and Floor of a share of a length.
LEMMA ShareOfLength ==
  ASSUME NEW p \in 0..100, NEW n \in Nat
  PROVE  Ceil(p, n) \in 0..n /\ Floor(p, n) \in 0..n
<1>1. p * n \in Nat /\ p * n <= 100 * n
  OBVIOUS
<1> DEFINE x == p * n
<1>2. x \in Nat /\ x <= 100 * n
  BY <1>1
<1> HIDE DEF x
<1>3. x \div 100 \in 0..n /\ -((-x) \div 100) \in 0..n
  BY <1>2
<1> QED
  BY <1>3 DEF Ceil, Floor, x

\* The frame of a window v that is given the bounds computed for a window w: it
\* begins in the work area and leaves it by the shadows of both at most.
LEMMA PlaceNear ==
  ASSUME NEW work \in [pos : Int, size : Nat], NEW relative \in Fractions,
         NEW w \in Windows, NEW v \in Windows
  PROVE  LET b == Place(work, relative, Margin[w]) IN
         /\ b \in Lengths
         /\ Near(Frame(v, b), work, Margin[w].pos + Margin[w].size + Margin[v].pos - Margin[v].size)
<1> DEFINE size == Ceil(relative.size, work.size)
           gap  == Floor(relative.pos, work.size - size)
           b    == Place(work, relative, Margin[w])
           mw   == Margin[w]
           mv   == Margin[v]
<1>1. /\ work.pos \in Int /\ work.size \in Nat
      /\ mw.pos \in Nat /\ mw.size \in Nat /\ mv.pos \in Nat /\ mv.size \in Nat
  BY MonitorsAssumption
<1>2. relative.pos \in 0..100 /\ relative.size \in 0..100
  BY MonitorsAssumption
<1>3. size \in 0..work.size
  BY <1>1, <1>2, ShareOfLength
<1>4. work.size - size \in Nat
  BY <1>1, <1>3
<1>5. gap \in 0..(work.size - size)
  BY <1>2, <1>4, ShareOfLength
<1>6. b.pos = work.pos + gap + mw.pos /\ b.size = size + mw.size /\ b = [pos |-> b.pos, size |-> b.size]
  BY DEF Place
<1>7. Frame(v, b).pos = b.pos + mv.pos /\ Frame(v, b).size = b.size - mv.size
  BY DEF Frame
<1> HIDE DEF size, gap, b, mw, mv
<1>8. b \in Lengths
  BY <1>1, <1>3, <1>5, <1>6 DEF Lengths
<1>9. Near(Frame(v, b), work, mw.pos + mw.size + mv.pos - mv.size)
  BY <1>1, <1>3, <1>5, <1>6, <1>7 DEF Near
<1> QED
  BY <1>8, <1>9 DEF b, mw, mv

\* A new rule of a monitor that exists.
LEMMA PublishStep ==
  ASSUME rules \in Seq(RuleType), NEW handle \in Handles, NEW f \in Fractions, Publish(handle, f)
  PROVE  rules' \in Seq(RuleType) /\ Len(rules') = Len(rules) + 1
<1>1. [handle |-> handle, relative |-> f, dirty |-> TRUE, bounds |-> NoBounds, torn |-> FALSE] \in RuleType
  BY DEF RuleType, NoBounds, Lengths
<1> QED
  BY <1>1, AppendProperties DEF Publish

LEMMA StateFacts ==
  ASSUME NEW s \in MonitorState
  PROVE  s.handle \in Handles /\ s.work \in [pos : Int, size : Nat]
BY MonitorsAssumption DEF MonitorState

\* What ComputeBounds() leaves in the rule.
LEMMA ComputeBoundsStep ==
  ASSUME FollowInv, RuleInv, ComputeBounds
  PROVE  /\ rules' \in Seq(RuleType) /\ Len(rules') = Len(rules) /\ hook' = HookIdle
         /\ hook.rule \in 1..Len(rules) /\ hook.window \in Windows
         /\ rules[hook.rule].relative \in Fractions
         /\ \E r \in RuleType :
              /\ rules' = [rules EXCEPT ![hook.rule] = r] /\ SetWindowPos(hook.window, r)
              /\ reading["hook"] = "torn" => r.torn
              /\ reading["hook"] # "torn" =>
                   \E s \in Handled(storage, r.handle) :
                     r.bounds = Place(s.work, rules[hook.rule].relative, Margin[hook.window])
<1> DEFINE rule == rules[hook.rule]
           own  == {s.work : s \in Handled(storage, rule.handle)}
           Bounds(work) == Place(work, rule.relative, Margin[hook.window])
           Computed(work) == [rule EXCEPT !.dirty = FALSE, !.bounds = Bounds(work),
                                          !.torn = reading["hook"] = "torn"]
<1>1. /\ hook.window \in Windows /\ hook.rule \in 1..Len(rules) /\ rules \in Seq(RuleType)
      /\ rule \in RuleType
  BY ElementOfSeq DEF ComputeBounds, RuleInv
<1>2. PICK work \in IF reading["hook"] = "torn" THEN Works ELSE own :
        /\ rules' = [rules EXCEPT ![hook.rule] = Computed(work)]
        /\ SetWindowPos(hook.window, Computed(work))
  BY DEF ComputeBounds
<1>3. work \in [pos : Int, size : Nat]
  <2>1. own \subseteq [pos : Int, size : Nat]
    BY StateFacts DEF FollowInv, StorageInv, Handled
  <2> QED
    BY <1>2, <2>1, MonitorsAssumption
<1>4. rule.relative \in Fractions
  BY <1>1 DEF RuleType
<1>5. Bounds(work) \in Lengths
  BY <1>1, <1>3, <1>4, PlaceNear
<1> HIDE DEF Bounds
<1>6. /\ Computed(work) \in RuleType /\ Computed(work).handle = rule.handle
      /\ Computed(work).bounds = Bounds(work) /\ Computed(work).torn = (reading["hook"] = "torn")
  BY <1>1, <1>5 DEF RuleType
<1> HIDE DEF rule, Computed
<1>7. rules' \in Seq(RuleType) /\ Len(rules') = Len(rules) /\ hook' = HookIdle
  BY <1>1, <1>2, <1>6, ExceptSeq DEF SetWindowPos
<1>8. reading["hook"] # "torn" =>
        \E s \in Handled(storage, Computed(work).handle) : Computed(work).bounds = Bounds(s.work)
  BY <1>2, <1>6
<1> QED
  BY <1>1, <1>2, <1>4, <1>6, <1>7, <1>8 DEF Bounds, rule

LEMMA RuleInvStep ==
  ASSUME FollowInv, RuleInv, [Next]_vars
  PROVE  RuleInv'
<1> USE DEF RuleInv
<1>1. CASE ComputeBounds
  <2>1. UNCHANGED <<ui, process>> /\ reading' = [reading EXCEPT !["hook"] = "no"]
    BY <1>1 DEF ComputeBounds, EndsReading, viewVars
  <2>2. rules' \in Seq(RuleType) /\ Len(rules') = Len(rules) /\ hook'.pc = "idle"
    BY <1>1, ComputeBoundsStep DEF HookIdle
  <2> QED
    BY <2>1, <2>2 DEF Readers
<1>2. ASSUME NEW f \in Fractions, CompileForPrimary(f) PROVE RuleInv'
  <2>1. displays[1].handle \in Handles
    <3>1. displays \in Seq(MonitorState) /\ 1 \in 1..Len(displays)
      BY <1>2, LayoutFacts, EmptySeq DEF CompileForPrimary, FollowInv, MessagesInv
    <3> QED
      BY <3>1, StateFacts, ElementOfSeq
  <2>2. rules' \in Seq(RuleType) /\ Len(rules') = Len(rules) + 1
    BY <1>2, <2>1, PublishStep DEF CompileForPrimary
  <2>3. Len(rules) \in Nat
    BY LenProperties
  <2> QED
    BY <1>2, <2>2, <2>3, MonitorsAssumption DEF CompileForPrimary, UiIdle, viewVars, hookVars
<1>3. ASSUME NEW id \in RuleIds, CompileForId(id) PROVE RuleInv'
  BY <1>3 DEF CompileForId, StartsReading, hookVars, Readers
<1>4. ASSUME NEW id \in RuleIds, NEW f \in Fractions, ResolveId(id, f) PROVE RuleInv'
  <2>1. rules' = rules \/ (rules' \in Seq(RuleType) /\ Len(rules') = Len(rules) + 1)
    <3> DEFINE resolved == {t.handle : t \in {s \in storage : s.id = id}}
    <3>1. resolved \subseteq Handles
      BY StateFacts DEF FollowInv, StorageInv
    <3>2. Found("ui", resolved, SUBSET Handles) \subseteq SUBSET Handles
      BY <3>1 DEF Found
    <3>3. CASE \E h \in Found("ui", resolved, SUBSET Handles) : \E handle \in h : Publish(handle, f)
      BY <3>2, <3>3, PublishStep
    <3> QED
      BY <1>4, <3>3 DEF ResolveId
  <2>2. Len(rules) < MaxRules /\ ui' = UiIdle
    BY <1>4 DEF ResolveId
  <2>3. Len(rules) \in Nat
    BY LenProperties
  <2> QED
    BY <1>4, <2>1, <2>2, <2>3, MonitorsAssumption DEF ResolveId, EndsReading, UiIdle, hookVars, Readers
<1>5. ASSUME NEW w \in Windows, ExecuteDirty(w) PROVE RuleInv'
  <2>1. Len(rules) \in 1..Len(rules)
    BY <1>5, EmptySeq, LenProperties DEF ExecuteDirty
  <2> QED
    BY <1>5, <2>1 DEF ExecuteDirty, StartsReading, Readers, viewVars
<1>6. ASSUME NEW w \in Windows, ExecuteClean(w) PROVE RuleInv'
  BY <1>6 DEF ExecuteClean, SetWindowPos, HookIdle, viewVars
<1>7. ASSUME NEW v \in ViewModels,
             \/ OpenPage(v) \/ MakeItems(v) \/ AddCallback(v) \/ ClosePage(v) \/ RemoveCallback(v)
             \/ InvokeCallback(v)
      PROVE  RuleInv'
  <2>1. UNCHANGED <<rules, hook>>
    BY <1>7 DEF OpenPage, MakeItems, AddCallback, ClosePage, RemoveCallback, InvokeCallback, hookVars
  <2>2. ui'.pc = "resolve" => ui.pc = "resolve"
    <3>1. CASE MakeItems(v)
      <4>1. ui' = ui \/ ui' = [ui EXCEPT !.pc = "add"]
        BY <3>1 DEF MakeItems
      <4>2. ui = [pc |-> "snapshot", target |-> v]
        BY <3>1 DEF MakeItems
      <4> QED
        BY <4>1, <4>2
    <3>2. CASE ~MakeItems(v)
      BY <1>7, <3>2 DEF OpenPage, AddCallback, ClosePage, RemoveCallback, InvokeCallback, UiIdle
    <3> QED
      BY <3>1, <3>2
  <2>3. reading' \in [Readers -> {"no", "reading", "torn"}]
    BY <1>7 DEF OpenPage, MakeItems, AddCallback, ClosePage, RemoveCallback, InvokeCallback, StartsReading, EndsReading
  <2>4. process' \in {"alive", "terminated"}
    <3>1. process' = process \/ process' = "terminated"
      BY <1>7 DEF OpenPage, MakeItems, AddCallback, ClosePage, RemoveCallback, InvokeCallback
    <3> QED
      BY <3>1
  <2> QED
    BY <2>1, <2>2, <2>3, <2>4
<1>8. CASE OnDisplayChanged \/ EndEnumeration
  <2>1. UNCHANGED <<rules, ui, hook, process>>
    BY <1>8 DEF OnDisplayChanged, EndEnumeration, viewVars, hookVars
  <2>2. reading' \in [Readers -> {"no", "reading", "torn"}]
    <3>1. reading' = reading \/ reading' = [r \in Readers |-> IF reading[r] = "no" THEN "no" ELSE "torn"]
      BY <1>8 DEF OnDisplayChanged, EndEnumeration, Keep, Replace
    <3> QED
      BY <3>1
  <2> QED
    BY <2>1, <2>2
<1>9. CASE \/ (\E l \in Layouts : ChangeDisplays(l)) \/ StartMessageWindow \/ EnumerateMonitor \/ EnumerationFails
           \/ Invoke \/ EndInvoke \/ RunUpdate \/ ShadowMarginThrows \/ UNCHANGED vars
  BY <1>9 DEF ChangeDisplays, StartMessageWindow, EnumerateMonitor, EnumerationFails, Invoke, EndInvoke, RunUpdate,
              ShadowMarginThrows, vars, viewVars, hookVars
<1> QED
  BY <1>1, <1>2, <1>3, <1>4, <1>5, <1>6, <1>7, <1>8, <1>9 DEF Next, MessageThread, UiThread, UiContinues

LEMMA RuleInvariance == Spec => []RuleInv
<1>1. Init => RuleInv
  BY EmptySeq, MonitorsAssumption DEF Init, RuleInv, UiIdle, HookIdle
<1>2. FollowInv /\ RuleInv /\ [Next]_vars => RuleInv'
  BY RuleInvStep
<1> QED
  BY <1>1, <1>2, FollowInvariance, PTL DEF Spec

\* The steps of the hook thread that place a window; every other one leaves the
\* thread and the last placement alone.
LEMMA OtherThreadsStep ==
  ASSUME [Next]_vars
  PROVE  \/ UNCHANGED hookVars
         \/ ComputeBounds
         \/ \E w \in Windows : ExecuteClean(w) \/ ExecuteDirty(w)
BY DEF Next, ChangeDisplays, StartMessageWindow, MessageThread, OnDisplayChanged, EnumerateMonitor,
       EndEnumeration, Invoke, InvokeCallback, EndInvoke, EnumerationFails, UiThread, UiContinues, MakeItems,
       AddCallback, RemoveCallback, RunUpdate, ResolveId, OpenPage, ClosePage, CompileForPrimary,
       CompileForId, ShadowMarginThrows, hookVars, vars

\* The frame of the window bounds are computed for begins in the work area that
\* was read and ends behind it by twice the shadow in front of it at most, for
\* every share of the area a rule may ask for, every size of it and every shadow.
THEOREM FrameNearWorkAreaCorrect == Spec => FrameNearWorkArea
<1> DEFINE Placed ==
      hook.pc = "got" /\ hook'.pc = "idle" /\ reading["hook"] = "reading" =>
        \E s \in Handled(storage, placed'.handle) :
          Near(Frame(placed'.window, placed'.bounds), s.work, 2 * Margin[placed'.window].pos)
<1>1. ASSUME FollowInv, RuleInv, [Next]_vars PROVE [Placed]_vars
  <2>1. CASE ComputeBounds /\ reading["hook"] = "reading"
    <3>1. PICK r \in RuleType :
            /\ SetWindowPos(hook.window, r)
            /\ \E s \in Handled(storage, r.handle) :
                 r.bounds = Place(s.work, rules[hook.rule].relative, Margin[hook.window])
      BY <1>1, <2>1, ComputeBoundsStep
    <3>2. PICK s \in Handled(storage, r.handle) :
            r.bounds = Place(s.work, rules[hook.rule].relative, Margin[hook.window])
      BY <3>1
    <3>3. s.work \in [pos : Int, size : Nat]
      BY <1>1, <3>2, StateFacts DEF FollowInv, StorageInv, Handled
    <3>4. hook.window \in Windows /\ rules[hook.rule].relative \in Fractions
      BY <1>1, <2>1, ComputeBoundsStep
    <3> DEFINE m == Margin[hook.window]
    <3>5. m.pos \in Nat /\ m.size \in Nat
      BY <3>4, MonitorsAssumption
    <3>6. Near(Frame(hook.window, r.bounds), s.work, m.pos + m.size + m.pos - m.size)
      BY <3>2, <3>3, <3>4, PlaceNear
    <3> HIDE DEF m
    <3>7. m.pos + m.size + m.pos - m.size = 2 * m.pos
      BY <3>5
    <3>8. Near(Frame(hook.window, r.bounds), s.work, 2 * m.pos)
      BY <3>6, <3>7
    <3>9. placed'.handle = r.handle /\ placed'.bounds = r.bounds /\ placed'.window = hook.window
      BY <3>1 DEF SetWindowPos
    <3> QED
      BY <3>2, <3>8, <3>9 DEF m
  <2>2. CASE ComputeBounds /\ reading["hook"] # "reading"
    BY <2>2
  <2>3. CASE UNCHANGED hookVars
    BY <2>3 DEF hookVars
  <2>4. ASSUME NEW w \in Windows, ExecuteClean(w) \/ ExecuteDirty(w)
        PROVE  Placed
    BY <2>4 DEF ExecuteClean, ExecuteDirty, HookIdle
  <2> QED
    BY <1>1, <2>1, <2>2, <2>3, <2>4, OtherThreadsStep
<1> QED
  BY <1>1, FollowInvariance, RuleInvariance, PTL DEF Spec, FrameNearWorkArea

\* Every monitor state is one the displays had.
SeenInv == storage \subseteq Displays /\ rebuild.states \subseteq Displays

LEMMA DisplaysOfLayout ==
  ASSUME NEW l \in Layouts
  PROVE  /\ Visible(l) \subseteq Displays
         /\ \A i \in 1..Len(l) : l[i] \in Displays
BY DEF Visible, Displays

LEMMA SeenInvStep ==
  ASSUME FollowInv, SeenInv, [Next]_vars
  PROVE  SeenInv'
<1> USE DEF SeenInv
<1>1. CASE OnDisplayChanged \/ EndEnumeration
  <2>1. storage' \in {storage, {}, rebuild.states}
    BY <1>1 DEF OnDisplayChanged, EndEnumeration, Keep, Replace
  <2>2. rebuild' \in {NoRebuild, [NoRebuild EXCEPT !.pc = "changed"],
                     [NoRebuild EXCEPT !.pc = "enumerate", !.list = displays]}
    BY <1>1 DEF OnDisplayChanged, EndEnumeration, Keep, Replace
  <2>3. rebuild'.states = {}
    <3>1. [NoRebuild EXCEPT !.pc = "changed"].states = {} /\ NoRebuild.states = {}
      BY DEF NoRebuild
    <3>2. [NoRebuild EXCEPT !.pc = "enumerate", !.list = displays].states = {}
      BY DEF NoRebuild
    <3> QED
      BY <2>2, <3>1, <3>2
  <2> QED
    BY <2>1, <2>3
<1>2. CASE EnumerateMonitor
  <2>1. MonitorInfo(Head(rebuild.list).handle) \subseteq Displays
    BY DisplaysOfLayout DEF MonitorInfo, FollowInv, MessagesInv
  <2>2. rebuild'.states \subseteq rebuild.states \cup MonitorInfo(Head(rebuild.list).handle)
    BY <1>2 DEF EnumerateMonitor, NoRebuild, FollowInv, RebuildInv
  <2> QED
    BY <1>2, <2>1, <2>2 DEF EnumerateMonitor
<1>3. ASSUME NEW v \in ViewModels, InvokeCallback(v) PROVE SeenInv'
  BY <1>3 DEF InvokeCallback, FollowInv, RebuildInv
<1>4. CASE EnumerationFails \/ Invoke \/ EndInvoke
  <2>1. UNCHANGED storage
    BY <1>4 DEF EnumerationFails, Invoke, EndInvoke
  <2>2. CASE EnumerationFails \/ EndInvoke
    BY <2>1, <2>2 DEF EnumerationFails, EndInvoke, NoRebuild
  <2>3. CASE Invoke
    BY <2>1, <2>3 DEF Invoke, FollowInv, RebuildInv
  <2> QED
    BY <1>4, <2>2, <2>3
<1>5. CASE UNCHANGED <<storage, rebuild>>
  BY <1>5
<1> QED
  BY <1>1, <1>2, <1>3, <1>4, <1>5
  DEF Next, ChangeDisplays, StartMessageWindow, MessageThread, UiThread, UiContinues, MakeItems,
      AddCallback, RemoveCallback, RunUpdate, ResolveId, OpenPage, ClosePage, CompileForPrimary,
      CompileForId, ExecuteClean, ExecuteDirty, ComputeBounds, ShadowMarginThrows, cacheVars, vars

\* What was computed for some window from an area the monitor of the handle had:
\* good for any window, but for the shadows.
OfOwnMonitor(h, b) ==
  \E w \in Windows, s \in Displays :
    /\ s.handle = h
    /\ \A v \in Windows :
         Near(Frame(v, b), s.work, Margin[w].pos + Margin[w].size + Margin[v].pos - Margin[v].size)

BoundsInv ==
  /\ \A i \in 1..Len(rules) :
       ~rules[i].dirty /\ ~rules[i].torn => OfOwnMonitor(rules[i].handle, rules[i].bounds)
  /\ placed.window # "none" /\ ~placed.torn =>
       placed.window \in Windows /\ OfOwnMonitor(placed.handle, placed.bounds)

LEMMA OfOwnMonitorKept == ASSUME NEW h, NEW b, OfOwnMonitor(h, b) PROVE OfOwnMonitor(h, b)'
BY DEF OfOwnMonitor

\* A rule set is replaced by one whose bounds are still to be computed.
LEMMA PublishBounds ==
  ASSUME RuleInv, BoundsInv, UNCHANGED placed, NEW handle, NEW f, Publish(handle, f)
  PROVE  BoundsInv'
<1> DEFINE new == [handle |-> handle, relative |-> f, dirty |-> TRUE, bounds |-> NoBounds, torn |-> FALSE]
<1>1. rules \in Seq(RuleType) /\ rules' = Append(rules, new) /\ new.dirty
  BY DEF RuleInv, Publish
<1> HIDE DEF new
<1>2. /\ Len(rules) \in Nat /\ Len(rules') = Len(rules) + 1
      /\ \A i \in 1..Len(rules) : rules'[i] = rules[i]
      /\ rules'[Len(rules) + 1] = new
  BY <1>1
<1>3. \A i \in 1..Len(rules') : i \in 1..Len(rules) \/ i = Len(rules) + 1
  BY <1>2
<1> QED
  BY <1>1, <1>2, <1>3, OfOwnMonitorKept DEF BoundsInv

LEMMA BoundsInvStep ==
  ASSUME FollowInv, RuleInv, SeenInv, BoundsInv, [Next]_vars
  PROVE  BoundsInv'
<1>1. CASE ComputeBounds
  <2>1. PICK r \in RuleType :
          /\ rules' = [rules EXCEPT ![hook.rule] = r] /\ SetWindowPos(hook.window, r)
          /\ reading["hook"] = "torn" => r.torn
          /\ reading["hook"] # "torn" =>
               \E s \in Handled(storage, r.handle) :
                 r.bounds = Place(s.work, rules[hook.rule].relative, Margin[hook.window])
    BY <1>1, ComputeBoundsStep
  <2>2. /\ hook.window \in Windows /\ rules[hook.rule].relative \in Fractions
        /\ rules \in Seq(RuleType) /\ hook.rule \in 1..Len(rules) /\ Len(rules') = Len(rules)
    BY <1>1, ComputeBoundsStep DEF RuleInv
  <2>3. ASSUME ~r.torn PROVE OfOwnMonitor(r.handle, r.bounds)
    <3>1. PICK s \in Handled(storage, r.handle) :
            r.bounds = Place(s.work, rules[hook.rule].relative, Margin[hook.window])
      BY <2>1, <2>3
    <3>2. s \in Displays /\ s.handle = r.handle /\ s.work \in [pos : Int, size : Nat]
      BY <3>1, StateFacts DEF Handled, SeenInv, FollowInv, StorageInv
    <3>3. \A v \in Windows :
            Near(Frame(v, r.bounds), s.work,
                 Margin[hook.window].pos + Margin[hook.window].size + Margin[v].pos - Margin[v].size)
      BY <2>2, <3>1, <3>2, PlaceNear
    <3> QED
      BY <2>2, <3>2, <3>3 DEF OfOwnMonitor
  <2>4. \A i \in 1..Len(rules) : rules'[i] = IF i = hook.rule THEN r ELSE rules[i]
    BY <2>1, <2>2
  <2>5. /\ placed'.window = hook.window /\ placed'.handle = r.handle
        /\ placed'.bounds = r.bounds /\ placed'.torn = r.torn
    BY <2>1 DEF SetWindowPos
  <2> QED
    BY <2>2, <2>3, <2>4, <2>5, OfOwnMonitorKept DEF BoundsInv
<1>2. ASSUME NEW w \in Windows, ExecuteClean(w) PROVE BoundsInv'
  <2>1. Len(rules) \in 1..Len(rules)
    BY <1>2, EmptySeq, LenProperties DEF ExecuteClean, RuleInv
  <2>2. LET rule == rules[Len(rules)] IN
          /\ ~rule.dirty
          /\ placed'.window = w /\ placed'.handle = rule.handle
          /\ placed'.bounds = rule.bounds /\ placed'.torn = rule.torn
    BY <1>2 DEF ExecuteClean, SetWindowPos
  <2> QED
    BY <1>2, <2>1, <2>2, OfOwnMonitorKept DEF BoundsInv, ExecuteClean
<1>3. ASSUME NEW f \in Fractions, CompileForPrimary(f) PROVE BoundsInv'
  BY <1>3, PublishBounds DEF CompileForPrimary, hookVars
<1>4. ASSUME NEW id \in RuleIds, NEW f \in Fractions, ResolveId(id, f) PROVE BoundsInv'
  <2>1. UNCHANGED placed
    BY <1>4 DEF ResolveId, hookVars
  <2>2. CASE UNCHANGED rules
    BY <2>1, <2>2, OfOwnMonitorKept DEF BoundsInv
  <2>3. ASSUME NEW handle, Publish(handle, f) PROVE BoundsInv'
    BY <2>1, <2>3, PublishBounds
  <2> QED
    BY <1>4, <2>2, <2>3 DEF ResolveId
<1>5. CASE UNCHANGED <<rules, placed>>
  BY <1>5, OfOwnMonitorKept DEF BoundsInv
<1> QED
  BY <1>1, <1>2, <1>3, <1>4, <1>5
  DEF Next, ChangeDisplays, StartMessageWindow, MessageThread, OnDisplayChanged, EnumerateMonitor,
      EndEnumeration, Invoke, InvokeCallback, EndInvoke, EnumerationFails, UiThread, UiContinues, MakeItems,
      AddCallback, RemoveCallback, RunUpdate, OpenPage, ClosePage, CompileForId, ExecuteDirty,
      ShadowMarginThrows, hookVars, vars

\* Bounds are kept over changes of the displays and used for other windows: they
\* stay those of an area the rule's own monitor had, off by the shadows at most.
THEOREM KeptBoundsOfOwnMonitorCorrect == Spec => []KeptBoundsOfOwnMonitor
<1>1. Init => SeenInv /\ BoundsInv
  BY DisplaysOfLayout, EmptySeq, LenProperties DEF Init, SeenInv, BoundsInv, NoRebuild, NoPlacement
<1>2. FollowInv /\ RuleInv /\ SeenInv /\ BoundsInv /\ [Next]_vars => SeenInv' /\ BoundsInv'
  BY SeenInvStep, BoundsInvStep
<1>3. BoundsInv => KeptBoundsOfOwnMonitor
  BY DEF BoundsInv, OfOwnMonitor, KeptBoundsOfOwnMonitor
<1> QED
  BY <1>1, <1>2, <1>3, FollowInvariance, RuleInvariance, PTL DEF Spec

-----------------------------------------------------------------------------
(* Open pages follow the cache                                             *)

UpdateType == [target : ViewModels, items : SUBSET MonitorState]

\* The dispatcher runs the updates in order: a page shows the cache when the
\* last one that waits for it does, or when it does and none waits.
InSync(us, shown, v) ==
  /\ (\A i \in 1..Len(us) : us[i].target # v) => shown = storage
  /\ \A i \in 1..Len(us) :
       us[i].target = v /\ (\A j \in (i + 1)..Len(us) : us[j].target # v) => us[i].items = storage

\* The rebuild has nothing more to tell the view model.
Told(v) == rebuild.pc \in {"idle", "enumerate"} \/ (rebuild.pc = "invoke" /\ v \notin rebuild.targets)

ViewTypeInv ==
  /\ updates \in Seq(UpdateType)
  /\ items \in [ViewModels -> SUBSET MonitorState]
  /\ \A i \in 1..Len(updates) : status[updates[i].target] # "none"
  /\ ui.pc \in {"snapshot", "add"} => status[ui.target] = "none"
  /\ \A v \in ViewModels : status[v] = "live" => v \in callbacks

SyncInv ==
  \A v \in ViewModels :
    status[v] = "live" /\ v \notin skipped /\ Told(v) => InSync(updates, items[v], v)

LEMMA SyncAppend ==
  ASSUME NEW us \in Seq(UpdateType), NEW u \in UpdateType, NEW shown, NEW v,
         \/ u.target = v /\ u.items = storage
         \/ u.target # v /\ InSync(us, shown, v)
  PROVE  InSync(Append(us, u), shown, v)
<1> DEFINE n == Len(us)
           new == Append(us, u)
<1>1. n \in Nat /\ Len(new) = n + 1 /\ (\A i \in 1..n : new[i] = us[i]) /\ new[n + 1] = u
  BY AppendProperties, LenProperties
<1>2. 1..(n + 1) = 1..n \cup {n + 1} /\ n + 1 \in 1..(n + 1)
  BY <1>1
<1> HIDE DEF n, new
<1>3. CASE u.target = v /\ u.items = storage
  <2>1. ~(\A i \in 1..(n + 1) : new[i].target # v)
    BY <1>1, <1>2, <1>3
  <2>2. \A i \in 1..n : n + 1 \in (i + 1)..(n + 1)
    BY <1>1
  <2>3. \A i \in 1..n : ~(\A j \in (i + 1)..(n + 1) : new[j].target # v)
    BY <1>1, <1>3, <2>2
  <2>4. \A i \in 1..(n + 1) : (\A j \in (i + 1)..(n + 1) : new[j].target # v) => new[i].items = storage
    BY <1>1, <1>2, <1>3, <2>3
  <2> QED
    BY <1>1, <2>1, <2>4 DEF InSync, new
<1>4. CASE u.target # v /\ InSync(us, shown, v)
  <2>1. \A i \in 1..n : (i + 1)..(n + 1) = (i + 1)..n \cup {n + 1}
    BY <1>1
  <2>2. (\A i \in 1..(n + 1) : new[i].target # v) => shown = storage
    BY <1>1, <1>2, <1>4 DEF InSync, n
  <2>3. ASSUME NEW i \in 1..(n + 1), new[i].target = v, \A j \in (i + 1)..(n + 1) : new[j].target # v
        PROVE  new[i].items = storage
    <3>1. i \in 1..n /\ new[i] = us[i]
      BY <1>1, <1>2, <1>4, <2>3
    <3>2. \A j \in (i + 1)..n : j \in 1..n /\ us[j].target # v
      BY <1>1, <2>1, <2>3, <3>1
    <3> QED
      BY <1>4, <2>3, <3>1, <3>2 DEF InSync, n
  <2> QED
    BY <1>1, <2>2, <2>3 DEF InSync, new
<1> QED
  BY <1>3, <1>4

LEMMA SyncTail ==
  ASSUME NEW us \in Seq(UpdateType), us # <<>>, NEW shown, NEW v, InSync(us, shown, v)
  PROVE  InSync(Tail(us), IF Head(us).target = v THEN Head(us).items ELSE shown, v)
<1> DEFINE n == Len(us)
           rest == Tail(us)
<1>1. n \in Nat \ {0} /\ Head(us) = us[1]
  BY EmptySeq, LenProperties
<1>2. Len(rest) = n - 1 /\ \A i \in 1..(n - 1) : rest[i] = us[i + 1]
  BY HeadTailProperties
<1>3. \A i \in 2..n : i - 1 \in 1..(n - 1) /\ rest[i - 1] = us[i]
  BY <1>1, <1>2
<1>4. 1..n = {1} \cup 2..n
  BY <1>1
<1> HIDE DEF n, rest
<1>5. ASSUME \A i \in 1..(n - 1) : rest[i].target # v
      PROVE  (IF us[1].target = v THEN us[1].items ELSE shown) = storage
  <2>1. \A i \in 2..n : us[i].target # v
    BY <1>3, <1>5
  <2>2. CASE us[1].target = v
    <3>1. 1 \in 1..n /\ \A j \in (1 + 1)..n : us[j].target # v
      BY <1>1, <2>1
    <3> QED
      BY <2>2, <3>1 DEF InSync, n
  <2>3. CASE us[1].target # v
    BY <1>4, <2>1, <2>3 DEF InSync, n
  <2> QED
    BY <2>2, <2>3
<1>6. ASSUME NEW i \in 1..(n - 1), rest[i].target = v, \A j \in (i + 1)..(n - 1) : rest[j].target # v
      PROVE  rest[i].items = storage
  <2>1. i + 1 \in 1..n /\ rest[i] = us[i + 1]
    BY <1>1, <1>2
  <2>2. \A j \in ((i + 1) + 1)..n : us[j].target # v
    <3> SUFFICES ASSUME NEW j \in ((i + 1) + 1)..n PROVE us[j].target # v
      OBVIOUS
    <3>1. j \in 2..n /\ j - 1 \in (i + 1)..(n - 1)
      BY <1>1
    <3> QED
      BY <1>3, <1>6, <3>1
  <2> QED
    BY <1>6, <2>1, <2>2 DEF InSync, n
<1> QED
  BY <1>1, <1>2, <1>5, <1>6 DEF InSync, rest

LEMMA ViewTypeStep ==
  ASSUME FollowInv, CallbackInv, ViewTypeInv, [Next]_vars
  PROVE  ViewTypeInv'
<1> USE DEF ViewTypeInv
<1>1. ASSUME NEW v \in ViewModels, InvokeCallback(v) PROVE ViewTypeInv'
  <2>1. CASE UNCHANGED updates
    BY <1>1, <2>1 DEF InvokeCallback
  <2>2. CASE updates' = Append(updates, [target |-> v, items |-> storage])
    <3>1. [target |-> v, items |-> storage] \in UpdateType
      BY DEF UpdateType, FollowInv, StorageInv
    <3>2. status[v] # "none"
      BY <1>1 DEF InvokeCallback, CallbackInv
    <3>3. \A i \in 1..Len(updates') : updates'[i].target = v \/ (i \in 1..Len(updates) /\ updates'[i] = updates[i])
      BY <2>2, <3>1, AppendProperties, LenProperties
    <3>4. updates' \in Seq(UpdateType)
      BY <2>2, <3>1, AppendProperties
    <3> QED
      BY <1>1, <3>2, <3>3, <3>4 DEF InvokeCallback
  <2> QED
    BY <1>1, <2>1, <2>2 DEF InvokeCallback
<1>2. CASE RunUpdate
  <2>1. /\ Tail(updates) \in Seq(UpdateType) /\ Head(updates) \in UpdateType
        /\ \A i \in 1..Len(Tail(updates)) : i + 1 \in 1..Len(updates) /\ Tail(updates)[i] = updates[i + 1]
    BY <1>2, HeadTailProperties, LenProperties DEF RunUpdate
  <2>2. items' \in [ViewModels -> SUBSET MonitorState]
    BY <1>2, <2>1 DEF RunUpdate, UpdateType
  <2> QED
    BY <1>2, <2>1, <2>2 DEF RunUpdate
<1>3. ASSUME NEW v \in ViewModels, MakeItems(v) PROVE ViewTypeInv'
  <2>1. ui = [pc |-> "snapshot", target |-> v] /\ status[v] = "none"
    BY <1>3 DEF MakeItems
  <2>2. ui' = ui \/ ui' = [ui EXCEPT !.pc = "add"]
    BY <1>3 DEF MakeItems
  <2>3. ui'.target = v
    BY <2>1, <2>2
  <2>4. Found("ui", storage, {Visible(l) : l \in Layouts}) \subseteq SUBSET MonitorState
    BY VisibleFacts DEF Found, FollowInv, StorageInv
  <2>5. items' \in [ViewModels -> SUBSET MonitorState]
    BY <1>3, <2>4 DEF MakeItems
  <2> QED
    BY <1>3, <2>1, <2>3, <2>5 DEF MakeItems
<1>4. ASSUME NEW v \in ViewModels, OpenPage(v) PROVE ViewTypeInv'
  BY <1>4 DEF OpenPage
<1>5. ASSUME NEW v \in ViewModels, AddCallback(v) PROVE ViewTypeInv'
  BY <1>5 DEF AddCallback, UiIdle, CallbackInv
<1>6. ASSUME NEW v \in ViewModels, ClosePage(v) \/ RemoveCallback(v) PROVE ViewTypeInv'
  <2>1. UNCHANGED <<updates, items>> /\ ui'.pc \in {"idle", "remove"} /\ callbacks \subseteq callbacks' \cup {v}
    BY <1>6 DEF ClosePage, RemoveCallback, UiIdle
  <2>2. status' = [status EXCEPT ![v] = "dying"] \/ status' = [status EXCEPT ![v] = "gone"]
    BY <1>6 DEF ClosePage, RemoveCallback
  <2>3. \A w \in ViewModels : (status'[w] = "live" => w # v /\ status[w] = "live") /\ (status[w] # "none" => status'[w] # "none")
    BY <2>2 DEF CallbackInv
  <2>4. \A i \in 1..Len(updates) : updates[i].target \in ViewModels
    <3>1. \A i \in 1..Len(updates) : updates[i] \in UpdateType
      BY ElementOfSeq
    <3> QED
      BY <3>1 DEF UpdateType
  <2> QED
    BY <2>1, <2>3, <2>4
<1>7. ASSUME NEW id \in RuleIds, CompileForId(id) \/ \E f \in Fractions : ResolveId(id, f)
      PROVE  ViewTypeInv'
  BY <1>7 DEF CompileForId, ResolveId, UiIdle
<1>8. CASE \/ (\E l \in Layouts : ChangeDisplays(l)) \/ StartMessageWindow \/ OnDisplayChanged \/ EnumerateMonitor
           \/ EnumerationFails \/ EndEnumeration \/ Invoke \/ EndInvoke \/ (\E f \in Fractions : CompileForPrimary(f))
           \/ (\E w \in Windows : ExecuteClean(w) \/ ExecuteDirty(w)) \/ ComputeBounds
           \/ ShadowMarginThrows \/ UNCHANGED vars
  <2>1. UNCHANGED viewVars
    BY <1>8 DEF ChangeDisplays, StartMessageWindow, OnDisplayChanged, EnumerateMonitor, EnumerationFails,
                EndEnumeration, Invoke, EndInvoke, CompileForPrimary, ExecuteClean, ExecuteDirty, ComputeBounds,
                ShadowMarginThrows,
                vars, viewVars
  <2> QED
    BY <2>1 DEF viewVars
<1> QED
  BY <1>1, <1>2, <1>3, <1>4, <1>5, <1>6, <1>7, <1>8 DEF Next, MessageThread, UiThread, UiContinues

\* A step that leaves the page, its updates and the cache alone.
LEMMA SyncUnchanged ==
  ASSUME SyncInv, NEW v \in ViewModels, UNCHANGED <<updates, storage>>, items'[v] = items[v],
         status'[v] = "live" => status[v] = "live", v \in skipped => v \in skipped', Told(v)' => Told(v)
  PROVE  (status[v] = "live" /\ v \notin skipped /\ Told(v) => InSync(updates, items[v], v))'
BY DEF SyncInv, InSync

LEMMA SyncStep ==
  ASSUME FollowInv, CallbackInv, ViewTypeInv, SyncInv, [Next]_vars
  PROVE  SyncInv'
<1> SUFFICES ASSUME NEW v \in ViewModels, (status[v] = "live" /\ v \notin skipped /\ Told(v))'
             PROVE  InSync(updates, items[v], v)'
  BY DEF SyncInv
<1> DEFINE Kept == /\ UNCHANGED <<updates, storage>> /\ items'[v] = items[v]
                   /\ (status'[v] = "live" => status[v] = "live") /\ (v \in skipped => v \in skipped')
                   /\ (Told(v)' => Told(v))
<1>1. Kept => InSync(updates, items[v], v)'
  BY SyncUnchanged
<1>2. rebuild' = NoRebuild => rebuild'.pc = "idle"
  BY DEF NoRebuild
<1>3. CASE OnDisplayChanged \/ EndEnumeration
  <2>1. UNCHANGED <<updates, items, status, skipped>>
    BY <1>3 DEF OnDisplayChanged, EndEnumeration, viewVars, historyVars
  <2>2. Told(v)
    BY <1>3 DEF OnDisplayChanged, EndEnumeration, Told
  <2>3. UNCHANGED storage
    <3>1. ASSUME NEW states, Replace(states)
          PROVE  FALSE
      BY <3>1 DEF Replace, NoRebuild, Told
    <3> QED
      BY <1>3, <3>1 DEF OnDisplayChanged, EndEnumeration, Keep
  <2> QED
    BY <1>1, <2>1, <2>2, <2>3
<1>4. CASE EnumerateMonitor \/ EnumerationFails
  <2>1. UNCHANGED <<updates, items, status, skipped, storage>> /\ Told(v)
    BY <1>4 DEF EnumerateMonitor, EnumerationFails, viewVars, historyVars, Told
  <2> QED
    BY <1>1, <2>1
<1>5. CASE Invoke
  <2>1. UNCHANGED <<updates, items, status, skipped, storage>> /\ status[v] = "live" /\ v \in callbacks
    BY <1>5 DEF Invoke, viewVars, historyVars, ViewTypeInv
  <2>2. rebuild'.pc = "invoke" /\ rebuild'.targets = callbacks
    BY <1>5 DEF Invoke, FollowInv, RebuildInv
  <2> QED
    BY <2>1, <2>2 DEF Told
<1>6. ASSUME NEW w \in ViewModels, InvokeCallback(w)
      PROVE  InSync(updates, items[v], v)'
  <2>1. UNCHANGED <<storage, items, status>> /\ rebuild.pc = "invoke" /\ w \in rebuild.targets
    BY <1>6 DEF InvokeCallback
  <2>2. CASE UNCHANGED <<updates, rebuild, skipped>>
    BY <1>1, <2>1, <2>2 DEF Told
  <2>3. CASE /\ updates' = Append(updates, [target |-> w, items |-> storage])
             /\ rebuild' = [rebuild EXCEPT !.targets = @ \ {w}]
             /\ skipped' = skipped \ {w}
    <3>1. [target |-> w, items |-> storage] \in UpdateType /\ updates \in Seq(UpdateType)
      BY DEF UpdateType, FollowInv, StorageInv, ViewTypeInv
    <3>2. v # w => InSync(updates, items[v], v)
      <4>1. rebuild'.pc = rebuild.pc /\ rebuild'.targets = rebuild.targets \ {w}
        BY <2>3 DEF FollowInv, RebuildInv
      <4> QED
        BY <2>1, <2>3, <4>1 DEF Told, SyncInv
    <3>3. InSync(Append(updates, [target |-> w, items |-> storage]), items[v], v)
      BY <3>1, <3>2, SyncAppend
    <3> QED
      BY <2>1, <2>3, <3>3 DEF InSync
  <2> QED
    BY <1>6, <2>2, <2>3 DEF InvokeCallback
<1>7. CASE EndInvoke
  BY <1>1, <1>7 DEF EndInvoke, Told, viewVars, historyVars
<1>8. CASE RunUpdate
  <2>1. UNCHANGED <<storage, status, skipped, rebuild>> /\ status[v] = "live" /\ updates # <<>>
    BY <1>8 DEF RunUpdate, cacheVars, historyVars
  <2>2. InSync(updates, items[v], v)
    BY <2>1 DEF SyncInv, Told
  <2>3. Head(updates) \in UpdateType /\ updates \in Seq(UpdateType)
    BY <2>1, HeadTailProperties DEF ViewTypeInv
  <2>4. items'[v] = IF Head(updates).target = v THEN Head(updates).items ELSE items[v]
    BY <1>8, <2>1, <2>3 DEF RunUpdate, ViewTypeInv, UpdateType
  <2>5. updates' = Tail(updates)
    BY <1>8 DEF RunUpdate
  <2>6. InSync(Tail(updates), items'[v], v)
    BY <2>1, <2>2, <2>3, <2>4, SyncTail
  <2> QED
    BY <2>1, <2>5, <2>6 DEF InSync
<1>9. ASSUME NEW w \in ViewModels, AddCallback(w)
      PROVE  InSync(updates, items[v], v)'
  <2>1. UNCHANGED <<storage, updates, items, rebuild>>
    BY <1>9 DEF AddCallback, cacheVars
  <2>2. CASE v # w
    <3>1. status'[v] = status[v] /\ (v \in skipped => v \in skipped')
      BY <1>9, <2>2 DEF AddCallback, CallbackInv
    <3> QED
      BY <1>1, <2>1, <3>1 DEF Told
  <2>3. CASE v = w
    <3>1. status[v] = "none"
      BY <1>9, <2>3 DEF AddCallback, ViewTypeInv
    <3>2. \A i \in 1..Len(updates) : updates[i].target # v
      BY <3>1 DEF ViewTypeInv
    <3>3. rebuild.pc # "changed"
      BY <2>1 DEF Told
    <3>4. items[v] = storage
      BY <1>9, <2>3, <3>3 DEF AddCallback
    <3> QED
      BY <2>1, <3>2, <3>4 DEF InSync
  <2> QED
    BY <2>2, <2>3
<1>10. ASSUME NEW w \in ViewModels, MakeItems(w)
       PROVE  InSync(updates, items[v], v)'
  <2>1. UNCHANGED <<storage, updates, rebuild, status, skipped>> /\ status[w] = "none" /\ v # w
    BY <1>10 DEF MakeItems, cacheVars, historyVars, ViewTypeInv
  <2>2. items'[v] = items[v]
    BY <1>10, <2>1 DEF MakeItems, ViewTypeInv
  <2> QED
    BY <1>1, <2>1, <2>2 DEF Told
<1>11. ASSUME NEW w \in ViewModels, OpenPage(w) \/ ClosePage(w) \/ RemoveCallback(w)
       PROVE  InSync(updates, items[v], v)'
  <2>1. UNCHANGED <<storage, updates, rebuild, items, skipped>> /\ (status'[v] = "live" => status[v] = "live")
    BY <1>11 DEF OpenPage, ClosePage, RemoveCallback, cacheVars, historyVars, CallbackInv
  <2> QED
    BY <1>1, <2>1 DEF Told
<1>12. CASE \/ (\E l \in Layouts : ChangeDisplays(l)) \/ StartMessageWindow \/ (\E f \in Fractions : CompileForPrimary(f))
            \/ (\E id \in RuleIds : CompileForId(id) \/ \E f \in Fractions : ResolveId(id, f))
            \/ (\E w \in Windows : ExecuteClean(w) \/ ExecuteDirty(w)) \/ ComputeBounds
           \/ ShadowMarginThrows \/ UNCHANGED vars
  <2>1. UNCHANGED <<storage, updates, rebuild, items, status, skipped>>
    BY <1>12 DEF ChangeDisplays, StartMessageWindow, CompileForPrimary, CompileForId, ResolveId, ExecuteClean,
                 ExecuteDirty, ComputeBounds, ShadowMarginThrows, vars, cacheVars, viewVars, historyVars
  <2> QED
    BY <1>1, <2>1 DEF Told
<1> QED
  BY <1>3, <1>4, <1>5, <1>6, <1>7, <1>8, <1>9, <1>10, <1>11, <1>12 DEF Next, MessageThread, UiThread, UiContinues

LEMMA ViewInvariance == Spec => [](CallbackInv /\ ViewTypeInv /\ SyncInv)
<1>1. Init => CallbackInv /\ ViewTypeInv /\ SyncInv
  BY EmptySeq, InitCallback DEF Init, ViewTypeInv, SyncInv, UiIdle
<1>2. FollowInv /\ (CallbackInv /\ ViewTypeInv /\ SyncInv) /\ [Next]_vars => (CallbackInv /\ ViewTypeInv /\ SyncInv)'
  BY NextKeeps, ViewTypeStep, SyncStep
<1> QED
  BY <1>1, <1>2, FollowInvariance, PTL DEF Spec

\* An open page shows what the cache holds once the dispatcher has caught up,
\* unless the page missed a change before it was registered.
THEOREM MirrorCurrentCorrect == Spec => []MirrorCurrent
<1>1. SyncInv => MirrorCurrent
  BY DEF SyncInv, MirrorCurrent, InSync, Told
<1> QED
  BY <1>1, ViewInvariance, PTL

\* Every variable is well formed, and once the messages are handled the cache
\* holds what the system shows, for any layouts and any changes of them, even
\* in the middle of an enumeration.
THEOREM CacheInvCorrect == Spec => []CacheInv
<1>1. FollowInv /\ RuleInv /\ CallbackInv /\ ViewTypeInv => CacheInv
  <2> SUFFICES ASSUME FollowInv, RuleInv, CallbackInv, ViewTypeInv PROVE CacheInv
    OBVIOUS
  <2>1. displays \in Layouts /\ pending \in 0..MaxChanges
    BY MonitorsAssumption DEF FollowInv, MessagesInv
  <2>2. storage \subseteq MonitorState /\ (\A s, t \in storage : s.handle = t.handle => s = t) /\ CacheCurrent
    BY DEF FollowInv, StorageInv, UniqueHandles
  <2>3. rebuild.pc \in {"idle", "enumerate", "changed", "invoke"} /\ rebuild.states \subseteq MonitorState
    BY DEF FollowInv, RebuildInv
  <2>4. \A i \in 1..Len(rules) : rules[i].handle \in Handles
    <3>1. \A i \in 1..Len(rules) : rules[i] \in RuleType
      BY ElementOfSeq DEF RuleInv
    <3> QED
      BY <3>1 DEF RuleType
  <2> QED
    BY <2>1, <2>2, <2>3, <2>4 DEF CacheInv, TypeOK, RuleInv, CallbackInv, ViewTypeInv
<1> QED
  BY <1>1, FollowInvariance, RuleInvariance, ViewInvariance, PTL

=============================================================================
