--------------------------- MODULE LogView_proofs ---------------------------
(***************************************************************************)
(* Proofs about LogView and SettingsWindow: the pages show the logs of the  *)
(* buffer, and the window keeps its history.                                *)
(***************************************************************************)
EXTENDS LogView, SequenceTheorems, FiniteSetTheorems, WellFoundedInduction, TLAPS

\* What the buffer holds when n logs have been added, the newest first.
LogsAt(n) == [i \in 1..(IF n > kLogSize THEN kLogSize ELSE n) |-> n + 1 - i]

\* The change that adding log n makes.
Expected(n) == IF n > kLogSize THEN "kUpdated" ELSE "kAdded"

InFlight(t) == adding[t].pc \in {"pushed", "notify"}

Pushing == {t \in Threads : At(t, "push")}

\* Pages that have copied the buffer and listen, or are about to.
Copied == listeners \cup (IF ui.pc = "copied" THEN {ui.page} ELSE {})

ChangeTypes == {"kAdded", "kUpdated"}

Changes(pages, n) == [page : pages, log : 1..n, type : ChangeTypes]

LogTypeInv ==
  /\ count \in Nat
  /\ count + Cardinality(Pushing) <= MaxLogs
  /\ adding \in [Threads -> [pc : {"idle", "push", "pushed", "notify"}, log : 0..count,
                             type : ChangeTypes]]
  /\ ui \in [pc : {"idle", "copy", "copied"}, page : Pages \cup {NoPage}]
  /\ view \in [Pages -> Seq(1..count)]
  /\ IsFiniteSet(listeners)
  /\ listeners \subseteq Pages /\ closed \subseteq Pages
  /\ listeners \cap closed = {}
  /\ updates \in Seq(Changes(listeners \cup closed, count))
  /\ process \in {"alive", "undefined"}
  /\ base \in [Pages -> 0..count]
  /\ disturbed \subseteq Pages

\* Who adds which log, and which page is being made.
ThreadInv ==
  /\ \A t \in Threads : At(t, "push") /\ adding[t].type = "kUpdated" => count >= kLogSize
  /\ \A t \in Threads : InFlight(t) => adding[t].log > 0
  /\ \A t, u \in Threads : InFlight(t) /\ InFlight(u) /\ t # u => adding[t].log # adding[u].log
  /\ ui.pc # "idle" => ui.page \in Pages \ (listeners \cup closed)

\* Page p shows the buffer as it was after log c.  The logs since then wait for it
\* in their order, followed by those that are being added.
MirrorsFrom(p, c) ==
  /\ view[p] = LogsAt(c)
  /\ \A i \in DOMAIN updates : updates[i].page = p =>
       /\ updates[i].log > c
       /\ updates[i].type = Expected(updates[i].log)
       /\ \A j \in DOMAIN updates : updates[j].page = p /\ i < j => updates[i].log < updates[j].log
  /\ \A n \in (c + 1)..count :
       \/ \E i \in DOMAIN updates : updates[i].page = p /\ updates[i].log = n
       \/ \E t \in Threads : InFlight(t) /\ adding[t].log = n
  /\ \A t \in Threads : InFlight(t) /\ adding[t].log > base[p] =>
       /\ adding[t].log > c
       /\ adding[t].type = Expected(adding[t].log)
       /\ \A i \in DOMAIN updates : updates[i].page = p => updates[i].log < adding[t].log

Mirrors(p) == \E c \in base[p]..count : MirrorsFrom(p, c)

\* The inductive invariant.
IInv ==
  /\ LogTypeInv
  /\ ThreadInv
  /\ \A p \in Copied \ disturbed : Mirrors(p)

-----------------------------------------------------------------------------
(* Facts about the operators                                               *)

LEMMA LogsIsLogsAt ==
  ASSUME count \in Nat
  PROVE  Logs = LogsAt(count)
BY LogAssumption DEF Logs, LogsAt, Oldest

LEMMA LogsAtType ==
  ASSUME NEW n \in Nat
  PROVE  /\ LogsAt(n) \in Seq(1..n)
         /\ Len(LogsAt(n)) = IF n > kLogSize THEN kLogSize ELSE n
         /\ \A i \in 1..Len(LogsAt(n)) : LogsAt(n)[i] = n + 1 - i
<1> DEFINE len == IF n > kLogSize THEN kLogSize ELSE n
<1>1. len \in Nat
  BY LogAssumption
<1>2. LogsAt(n) \in [1..len -> 1..n]
  BY LogAssumption DEF LogsAt
<1>3. LogsAt(n) \in Seq(1..n) /\ Len(LogsAt(n)) = len
  BY <1>1, <1>2, IsASeq, LenProperties
<1> QED
  BY <1>3 DEF LogsAt

\* A pointer into the buffer shows a log that was added ...
LEMMA InSlotType ==
  ASSUME count \in Nat, NEW n \in 1..count
  PROVE  InSlot(n) \in (Oldest + 1)..count
<1> DEFINE r == (count - n) % kLogSize
           m == count - r
<1>1. r \in 0..(kLogSize - 1)
  BY LogAssumption
<1>2. m \in (Oldest + 1)..count
  <2>1. CASE count > kLogSize
    BY <1>1, <2>1, LogAssumption DEF Oldest
  <2>2. CASE count <= kLogSize
    <3>1. r = count - n
      BY <2>2, LogAssumption
    <3> QED
      BY <2>2, <3>1, LogAssumption DEF Oldest
  <2> QED
    BY <2>1, <2>2, LogAssumption
<1>3. (m - n) % kLogSize = 0
  <2>1. ((count - n) - r) % kLogSize = 0
    BY LogAssumption
  <2>2. m - n = (count - n) - r
    <3> HIDE DEF r
    <3> QED
      BY <1>1, LogAssumption
  <2> QED
    BY <2>1, <2>2
<1> QED
  BY <1>2, <1>3 DEF InSlot

\* ... and the log itself while that is in the buffer.
LEMMA InSlotExact ==
  ASSUME count \in Nat, NEW n \in (Oldest + 1)..count
  PROVE  InSlot(n) = n
<1>1. Oldest \in Nat /\ count - Oldest <= kLogSize
  BY LogAssumption DEF Oldest
<1>2. (n - n) % kLogSize = 0
  BY <1>1, LogAssumption
<1>3. \A m \in (Oldest + 1)..count : (m - n) % kLogSize = 0 => m = n
  BY <1>1, LogAssumption
<1> QED
  BY <1>2, <1>3 DEF InSlot

LEMMA InFront ==
  ASSUME NEW S, NEW s \in Seq(S), NEW e \in S
  PROVE  /\ <<e>> \o s \in Seq(S)
         /\ Len(<<e>> \o s) = Len(s) + 1
         /\ (<<e>> \o s)[1] = e
         /\ \A i \in 1..Len(s) : (<<e>> \o s)[i + 1] = s[i]
<1>1. <<e>> \in Seq(S) /\ Len(<<e>>) = 1
  OBVIOUS
<1> DEFINE t == <<e>> \o s
<1>2. /\ t \in Seq(S)
      /\ Len(t) = 1 + Len(s)
      /\ \A i \in 1..(1 + Len(s)) : t[i] = IF i <= 1 THEN <<e>>[i] ELSE s[i - 1]
  BY <1>1, ConcatProperties
<1>3. Len(s) \in Nat
  BY LenProperties
<1> HIDE DEF t
<1>4. t[1] = e
  BY <1>2, <1>3
<1>5. \A i \in 1..Len(s) : t[i + 1] = s[i]
  BY <1>2, <1>3
<1> QED
  BY <1>2, <1>3, <1>4, <1>5 DEF t

LEMMA WithoutLast ==
  ASSUME NEW S, NEW s \in Seq(S), Len(s) >= 1
  PROVE  /\ SubSeq(s, 1, Len(s) - 1) \in Seq(S)
         /\ Len(SubSeq(s, 1, Len(s) - 1)) = Len(s) - 1
         /\ \A i \in 1..(Len(s) - 1) : SubSeq(s, 1, Len(s) - 1)[i] = s[i]
<1>1. Len(s) \in Nat
  BY LenProperties
<1> DEFINE n == Len(s) - 1
<1>2. n \in Int /\ \A i \in 1..n : s[i] \in S
  BY <1>1, ElementOfSeq
<1>3. /\ SubSeq(s, 1, n) \in Seq(S)
      /\ Len(SubSeq(s, 1, n)) = IF 1 <= n THEN n - 1 + 1 ELSE 0
      /\ \A i \in 1..(n - 1 + 1) : SubSeq(s, 1, n)[i] = s[1 + i - 1]
  BY <1>2, SubSeqProperties
<1>4. (IF 1 <= n THEN n - 1 + 1 ELSE 0) = n
  <2>1. n \in Nat
    BY <1>1
  <2> HIDE DEF n
  <2> QED
    BY <2>1
<1>5. \A i \in 1..n : SubSeq(s, 1, n)[i] = s[i]
  <2> TAKE i \in 1..n
  <2>1. i \in 1..(n - 1 + 1) /\ 1 + i - 1 = i
    BY <1>1
  <2> QED
    BY <1>3, <2>1
<1> QED
  BY <1>3, <1>4, <1>5

\* The newest log in front, and one that falls out of the buffer.
LEMMA NextShown ==
  ASSUME NEW c \in Nat
  PROVE  LogsAt(c + 1) =
           IF Expected(c + 1) = "kUpdated"
             THEN SubSeq(<<c + 1>> \o LogsAt(c), 1, Len(<<c + 1>> \o LogsAt(c)) - 1)
             ELSE <<c + 1>> \o LogsAt(c)
<1> DEFINE s == <<c + 1>> \o LogsAt(c)
           len == Len(LogsAt(c))
<1>1. /\ LogsAt(c) \in Seq(Nat)
      /\ len \in Nat
      /\ len = IF c > kLogSize THEN kLogSize ELSE c
      /\ \A i \in 1..len : LogsAt(c)[i] = c + 1 - i
  BY LogsAtType, LogAssumption, SeqMonotonic
<1>2. /\ s \in Seq(Nat) /\ Len(s) = len + 1
      /\ \A i \in 1..(len + 1) : s[i] = c + 2 - i
  <2>1. /\ s \in Seq(Nat) /\ Len(s) = len + 1 /\ s[1] = c + 1
        /\ \A i \in 1..len : s[i + 1] = LogsAt(c)[i]
    <3>1. c + 1 \in Nat
      OBVIOUS
    <3> QED
      BY <1>1, <3>1, InFront
  <2> HIDE DEF s, len
  <2>2. \A i \in 2..(len + 1) : s[i] = c + 2 - i
    <3> TAKE i \in 2..(len + 1)
    <3>1. i - 1 \in 1..len /\ (i - 1) + 1 = i
      BY <1>1
    <3>2. s[(i - 1) + 1] = LogsAt(c)[i - 1] /\ LogsAt(c)[i - 1] = c + 1 - (i - 1)
      BY <1>1, <2>1, <3>1
    <3> QED
      BY <1>1, <3>1, <3>2
  <2> QED
    BY <1>1, <2>1, <2>2
<1>3. /\ LogsAt(c + 1) \in Seq(Nat)
      /\ Len(LogsAt(c + 1)) = IF c + 1 > kLogSize THEN kLogSize ELSE c + 1
      /\ \A i \in 1..Len(LogsAt(c + 1)) : LogsAt(c + 1)[i] = c + 2 - i
  <2>1. c + 1 \in Nat
    OBVIOUS
  <2>2. \A i \in 1..Len(LogsAt(c + 1)) : LogsAt(c + 1)[i] = (c + 1) + 1 - i
    BY <2>1, LogsAtType
  <2> QED
    BY <2>1, <2>2, LogsAtType, LogAssumption, SeqMonotonic
<1>4. CASE c + 1 > kLogSize
  <2>1. len = kLogSize /\ Expected(c + 1) = "kUpdated"
    BY <1>1, <1>4, LogAssumption DEF Expected
  <2> DEFINE r == SubSeq(s, 1, Len(s) - 1)
  <2>2. r \in Seq(Nat) /\ Len(r) = len /\ \A i \in 1..len : r[i] = s[i]
    <3> HIDE DEF s, len
    <3>1. Len(s) >= 1 /\ Len(s) - 1 = len
      BY <1>1, <1>2
    <3> QED
      BY <1>2, <3>1, WithoutLast
  <2>3. r = LogsAt(c + 1)
    <3> HIDE DEF r, s, len
    <3>1. Len(r) = len /\ len = kLogSize /\ Len(LogsAt(c + 1)) = kLogSize
      BY <1>3, <1>4, <2>1, <2>2
    <3>2. \A i \in 1..Len(r) : r[i] = LogsAt(c + 1)[i]
      <4> TAKE i \in 1..Len(r)
      <4>1. i \in 1..len /\ i \in 1..(len + 1) /\ i \in 1..Len(LogsAt(c + 1))
        BY <1>1, <3>1
      <4>2. r[i] = s[i]
        BY <2>2, <4>1
      <4>3. s[i] = c + 2 - i
        BY <1>2, <4>1
      <4>4. LogsAt(c + 1)[i] = c + 2 - i
        BY <1>3, <4>1
      <4> QED
        BY <4>2, <4>3, <4>4
    <3> QED
      BY <1>3, <2>2, <3>1, <3>2, SeqEqual
  <2> QED
    BY <2>1, <2>3
<1>5. CASE ~(c + 1 > kLogSize)
  <2>1. len = c /\ Expected(c + 1) = "kAdded"
    BY <1>1, <1>5, LogAssumption DEF Expected
  <2>2. s = LogsAt(c + 1)
    <3> HIDE DEF s, len
    <3>1. Len(s) = len + 1 /\ Len(LogsAt(c + 1)) = len + 1
      BY <1>2, <1>3, <1>5, <2>1
    <3>2. \A i \in 1..Len(s) : s[i] = LogsAt(c + 1)[i]
      BY <1>2, <1>3, <3>1
    <3> QED
      BY <1>2, <1>3, <3>1, <3>2, SeqEqual
  <2> QED
    BY <2>1, <2>2
<1> QED
  BY <1>4, <1>5

\* What an update makes of a list.
LEMMA UpdatedType ==
  ASSUME count \in Nat, NEW logs \in Seq(1..count),
         NEW u \in [page : Pages, log : 1..count, type : ChangeTypes]
  PROVE  Updated(logs, u) \in Seq(1..count)
<1>1. InSlot(u.log) \in 1..count
  BY InSlotType, LogAssumption DEF Oldest
<1>2. u.type \in ChangeTypes
  OBVIOUS
<1>3. <<InSlot(u.log)>> \o logs \in Seq(1..count)
  BY <1>1
<1>4. Len(<<InSlot(u.log)>> \o logs) >= 1
  BY <1>1
<1>5. SubSeq(<<InSlot(u.log)>> \o logs, 1, Len(<<InSlot(u.log)>> \o logs) - 1) \in Seq(1..count)
  BY <1>3, <1>4, SubSeqProperties
<1> QED
  BY <1>2, <1>3, <1>5 DEF Updated, Adds, Removes, ChangeTypes

LEMMA UpdatedNext ==
  ASSUME count \in Nat, NEW c \in Nat, c + 1 \in (Oldest + 1)..count,
         NEW u, u.log = c + 1, u.type = Expected(c + 1)
  PROVE  Updated(LogsAt(c), u) = LogsAt(c + 1)
<1>1. InSlot(u.log) = c + 1
  BY InSlotExact
<1> QED
  BY <1>1, NextShown DEF Updated, Adds, Removes, Expected

-----------------------------------------------------------------------------
(* The types                                                               *)

LEMMA ViewGrows ==
  ASSUME NEW m \in Nat, NEW n \in Nat, m <= n, NEW s \in Seq(1..m)
  PROVE  s \in Seq(1..n)
<1>1. 1..m \subseteq 1..n
  OBVIOUS
<1> QED
  BY <1>1, SeqMonotonic

LEMMA UpdatesGrow ==
  ASSUME NEW m \in Nat, NEW n \in Nat, m <= n, NEW P, NEW Q, P \subseteq Q,
         NEW s \in Seq(Changes(P, m))
  PROVE  s \in Seq(Changes(Q, n))
<1>1. 1..m \subseteq 1..n
  OBVIOUS
<1>2. Changes(P, m) \subseteq Changes(Q, n)
  BY <1>1 DEF Changes
<1> QED
  BY <1>2, SeqMonotonic

LEMMA PushingCounted ==
  ASSUME LogTypeInv
  PROVE  IsFiniteSet(Pushing) /\ Cardinality(Pushing) \in Nat
<1>1. Pushing \in SUBSET Threads
  BY DEF Pushing
<1> QED
  BY <1>1, LogAssumption, FS_Subset, FS_CardinalityType

LEMMA LogTypeInit ==
  ASSUME Init
  PROVE  LogTypeInv
<1>1. Pushing = {}
  BY DEF Init, Pushing, At, Idle
<1>2. Cardinality(Pushing) = 0
  BY <1>1, FS_EmptySet
<1>3. count + Cardinality(Pushing) <= MaxLogs
  BY <1>2, LogAssumption DEF Init
<1>4. IsFiniteSet(listeners)
  BY FS_EmptySet DEF Init
<1>5. updates \in Seq(Changes(listeners \cup closed, count)) /\ view \in [Pages -> Seq(1..count)]
  BY EmptySeq DEF Init
<1> QED
  BY <1>3, <1>4, <1>5 DEF Init, LogTypeInv, Idle, ChangeTypes, Changes

LEMMA TypeOfChange == ChangeType \in ChangeTypes
BY DEF ChangeType, ChangeTypes

LEMMA TypeBeginPush ==
  ASSUME LogTypeInv, NEW t \in Threads, BeginPush(t)
  PROVE  LogTypeInv'
<1>1. Pushing' = Pushing \cup {t} /\ t \notin Pushing
  BY DEF LogTypeInv, BeginPush, Pushing, At
<1>2. Cardinality(Pushing') = Cardinality(Pushing) + 1
  BY <1>1, PushingCounted, FS_AddElement
<1>3. count + Cardinality(Pushing) < MaxLogs
  BY DEF BeginPush, Pushing
<1>4. (count + Cardinality(Pushing) <= MaxLogs)'
  BY <1>2, <1>3, PushingCounted, LogAssumption DEF LogTypeInv, BeginPush
<1>5. adding' \in [Threads -> [pc : {"idle", "push", "pushed", "notify"}, log : 0..count',
                               type : ChangeTypes]]
  BY TypeOfChange DEF LogTypeInv, BeginPush
<1> QED
  BY <1>4, <1>5 DEF LogTypeInv, BeginPush

LEMMA TypeEndPush ==
  ASSUME LogTypeInv, ThreadInv, NEW t \in Threads, EndPush(t)
  PROVE  LogTypeInv'
<1>1. Pushing' = Pushing \ {t} /\ t \in Pushing
  BY DEF LogTypeInv, EndPush, Pushing, At
<1>2. Cardinality(Pushing') = Cardinality(Pushing) - 1
  BY <1>1, PushingCounted, FS_RemoveElement
<1>3. count \in Nat /\ count' = count + 1
  BY DEF EndPush, LogTypeInv
<1>4. (count + Cardinality(Pushing) <= MaxLogs)'
  BY <1>2, <1>3, PushingCounted, LogAssumption DEF LogTypeInv
<1>5. adding' \in [Threads -> [pc : {"idle", "push", "pushed", "notify"}, log : 0..count',
                               type : ChangeTypes]]
  BY <1>3 DEF LogTypeInv, EndPush
<1>6. view' \in [Pages -> Seq(1..count')]
  BY <1>3, ViewGrows DEF LogTypeInv, EndPush
<1>7. updates' \in Seq(Changes(listeners \cup closed, count'))
  <2>1. updates \in Seq(Changes(listeners \cup closed, count))
    BY DEF LogTypeInv
  <2>2. updates \in Seq(Changes(listeners \cup closed, count'))
    BY <1>3, <2>1, UpdatesGrow
  <2> QED
    BY <2>2 DEF EndPush
<1>8. base' \in [Pages -> 0..count']
  BY <1>3 DEF LogTypeInv, EndPush
<1>9. process' \in {"alive", "undefined"} /\ disturbed' \subseteq Pages
  BY DEF LogTypeInv, EndPush, MayTear
<1> QED
  BY <1>3, <1>4, <1>5, <1>6, <1>7, <1>8, <1>9 DEF LogTypeInv, EndPush

LEMMA TypeBeginNotify ==
  ASSUME LogTypeInv, NEW t \in Threads, BeginNotify(t)
  PROVE  LogTypeInv'
<1>1. Pushing' = Pushing
  BY DEF LogTypeInv, BeginNotify, Pushing, At
<1> QED
  BY <1>1 DEF LogTypeInv, BeginNotify

LEMMA FunctionIsSeq ==
  ASSUME NEW S, NEW n \in Nat, NEW f \in [1..n -> S]
  PROVE  f \in Seq(S) /\ Len(f) = n
OBVIOUS

\* Every listener gets one update.
LEMMA OrderOfListeners ==
  ASSUME LogTypeInv
  PROVE  LET order == CHOOSE s \in [1..Cardinality(listeners) -> listeners] :
                        \A p \in listeners : \E i \in DOMAIN s : s[i] = p
         IN  /\ order \in [1..Cardinality(listeners) -> listeners]
             /\ \A p \in listeners : \E i \in DOMAIN order : order[i] = p
             /\ \A i, j \in DOMAIN order : order[i] = order[j] => i = j
             /\ Cardinality(listeners) \in Nat
<1> DEFINE n == Cardinality(listeners)
           order == CHOOSE s \in [1..n -> listeners] : \A p \in listeners : \E i \in DOMAIN s : s[i] = p
<1>1. n \in Nat /\ ExistsBijection(1..n, listeners)
  BY FS_CardinalityType DEF LogTypeInv
<1>2. \E s \in [1..n -> listeners] : \A p \in listeners : \E i \in DOMAIN s : s[i] = p
  BY <1>1 DEF ExistsBijection, Bijection, Surjection
<1>3. order \in [1..n -> listeners] /\ \A p \in listeners : \E i \in DOMAIN order : order[i] = p
  BY <1>2
<1>4. IsFiniteSet(1..n) /\ Cardinality(1..n) = n
  BY <1>1, FS_Interval
<1> HIDE DEF order
<1>5. order \in Surjection(1..n, listeners)
  BY <1>3 DEF Surjection
<1>6. order \in Injection(1..n, listeners)
  BY <1>4, <1>5, FS_SurjSameCardinalityImpliesInj
<1>7. \A i, j \in DOMAIN order : order[i] = order[j] => i = j
  BY <1>3, <1>6 DEF Injection, IsInjective
<1> QED
  BY <1>1, <1>3, <1>7 DEF order

LEMMA UpdatesOfListeners ==
  ASSUME LogTypeInv, NEW c, c.log \in 1..count, c.type \in ChangeTypes
  PROVE  /\ UpdatesOf(c) \in Seq(Changes(listeners \cup closed, count))
         /\ \A i \in DOMAIN UpdatesOf(c) : UpdatesOf(c)[i].log = c.log /\ UpdatesOf(c)[i].type = c.type
         /\ \A p \in listeners : \E i \in DOMAIN UpdatesOf(c) : UpdatesOf(c)[i].page = p
         /\ \A i \in DOMAIN UpdatesOf(c) : UpdatesOf(c)[i].page \in listeners
         /\ \A i, j \in DOMAIN UpdatesOf(c) : UpdatesOf(c)[i].page = UpdatesOf(c)[j].page => i = j
<1> DEFINE n == Cardinality(listeners)
           order == CHOOSE s \in [1..n -> listeners] : \A p \in listeners : \E i \in DOMAIN s : s[i] = p
           made == [i \in DOMAIN order |-> [page |-> order[i], log |-> c.log, type |-> c.type]]
<1>1. /\ order \in [1..n -> listeners]
      /\ \A p \in listeners : \E i \in DOMAIN order : order[i] = p
      /\ \A i, j \in DOMAIN order : order[i] = order[j] => i = j
      /\ n \in Nat
  BY OrderOfListeners
<1>2. UpdatesOf(c) = made
  BY DEF UpdatesOf
<1> HIDE DEF order, n
<1>3. DOMAIN made = 1..n
  BY <1>1
<1>4. made \in [1..n -> Changes(listeners \cup closed, count)]
  BY <1>1 DEF Changes
<1>5. made \in Seq(Changes(listeners \cup closed, count))
  BY <1>1, <1>4, FunctionIsSeq
<1>6. \A i \in 1..n : made[i] = [page |-> order[i], log |-> c.log, type |-> c.type]
  BY <1>1
<1> HIDE DEF made
<1>7. \A i \in 1..n : made[i].page = order[i] /\ made[i].log = c.log /\ made[i].type = c.type
  <2> TAKE i \in 1..n
  <2>1. made[i] = [page |-> order[i], log |-> c.log, type |-> c.type]
    BY <1>6
  <2> QED
    BY <2>1
<1>8. DOMAIN order = 1..n
  BY <1>1
<1> QED
  BY <1>1, <1>2, <1>3, <1>5, <1>7, <1>8

LEMMA TypeEndNotify ==
  ASSUME LogTypeInv, ThreadInv, NEW t \in Threads, EndNotify(t)
  PROVE  LogTypeInv'
<1>1. Pushing' = Pushing
  BY DEF LogTypeInv, EndNotify, Pushing, At, Idle
<1>2. adding[t].log \in 1..count /\ adding[t].type \in ChangeTypes
  BY DEF LogTypeInv, ThreadInv, InFlight, EndNotify, At
<1>3. adding' \in [Threads -> [pc : {"idle", "push", "pushed", "notify"}, log : 0..count,
                               type : ChangeTypes]]
  BY DEF LogTypeInv, EndNotify, Idle, ChangeTypes
<1>4. UpdatesOf(adding[t]) \in Seq(Changes(listeners \cup closed, count))
  BY <1>2, UpdatesOfListeners
<1>5. updates' \in Seq(Changes(listeners \cup closed, count))
  BY <1>4, ConcatProperties DEF LogTypeInv, EndNotify
<1> QED
  BY <1>1, <1>3, <1>5 DEF LogTypeInv, EndNotify

LEMMA TypeBeginCopy ==
  ASSUME LogTypeInv, BeginCopy
  PROVE  LogTypeInv'
<1>1. ui' \in [pc : {"idle", "copy", "copied"}, page : Pages \cup {NoPage}]
  BY DEF LogTypeInv, BeginCopy
<1>2. Pushing' = Pushing
  BY DEF BeginCopy, logVars, Pushing, At
<1> QED
  BY <1>1, <1>2 DEF LogTypeInv, BeginCopy, logVars

LEMMA TypeEndCopy ==
  ASSUME LogTypeInv, EndCopy
  PROVE  LogTypeInv'
<1>1. Pushing' = Pushing
  BY DEF EndCopy, Pushing, At
<1>2. Logs \in Seq(1..count)
  BY LogsIsLogsAt, LogsAtType DEF LogTypeInv
<1>3. view' \in [Pages -> Seq(1..count)]
  BY <1>2 DEF LogTypeInv, EndCopy
<1>5. count \in 0..count
  BY DEF LogTypeInv
<1>6. base' \in [Pages -> 0..count]
  BY <1>5 DEF LogTypeInv, EndCopy
<1>4. process' \in {"alive", "undefined"}
  BY DEF EndCopy, MayTear, LogTypeInv
<1> QED
  BY <1>1, <1>3, <1>4, <1>6 DEF LogTypeInv, EndCopy

LEMMA TypeAddListener ==
  ASSUME LogTypeInv, ThreadInv, AddListener
  PROVE  LogTypeInv'
<1>1. Pushing' = Pushing
  BY DEF AddListener, Pushing, At
<1>2. IsFiniteSet(listeners')
  BY FS_AddElement DEF AddListener, LogTypeInv
<1>3. updates' \in Seq(Changes(listeners' \cup closed', count'))
  <2>1. updates \in Seq(Changes(listeners \cup closed, count)) /\ count \in Nat
    BY DEF LogTypeInv
  <2>2. listeners \cup closed \subseteq listeners' \cup closed'
    BY DEF AddListener
  <2>3. updates \in Seq(Changes(listeners' \cup closed', count))
    BY <2>1, <2>2, UpdatesGrow
  <2> QED
    BY <2>3 DEF AddListener
<1>4. process' \in {"alive", "undefined"}
  BY DEF AddListener, MayTear, LogTypeInv
<1>5. ui.page \in Pages /\ ui.page \notin closed
  BY DEF AddListener, ThreadInv
<1>6. listeners' \subseteq Pages /\ listeners' \cap closed' = {}
  BY <1>5 DEF AddListener, LogTypeInv
<1>7. ui' \in [pc : {"idle", "copy", "copied"}, page : Pages \cup {NoPage}]
  BY DEF AddListener, LogTypeInv
<1> QED
  BY <1>1, <1>2, <1>3, <1>4, <1>6, <1>7 DEF LogTypeInv, AddListener

LEMMA TypeClosePage ==
  ASSUME LogTypeInv, NEW p \in Pages, ClosePage(p)
  PROVE  LogTypeInv'
<1>1. Pushing' = Pushing
  BY DEF ClosePage, Pushing, At
<1>2. IsFiniteSet(listeners')
  BY FS_RemoveElement DEF ClosePage, LogTypeInv
<1>3. listeners' \cup closed' = listeners \cup closed
  BY DEF ClosePage
<1>4. process' \in {"alive", "undefined"}
  BY DEF ClosePage, MayTear, LogTypeInv
<1> QED
  BY <1>1, <1>2, <1>3, <1>4 DEF LogTypeInv, ClosePage

LEMMA TypeRunUpdate ==
  ASSUME LogTypeInv, RunUpdate
  PROVE  LogTypeInv'
<1> DEFINE u == Head(updates)
<1>1. Pushing' = Pushing
  BY DEF RunUpdate, Pushing, At
<1>2. u \in Changes(listeners \cup closed, count) /\ Tail(updates) \in Seq(Changes(listeners \cup closed, count))
  BY HeadTailProperties DEF LogTypeInv, RunUpdate
<1>3. u \in [page : Pages, log : 1..count, type : ChangeTypes]
  BY <1>2 DEF Changes, LogTypeInv
<1>4. \A logs \in Seq(1..count) : Updated(logs, u) \in Seq(1..count)
  BY <1>3, UpdatedType DEF LogTypeInv
<1>5. view' \in [Pages -> Seq(1..count)]
  BY <1>3, <1>4 DEF LogTypeInv, RunUpdate
<1>6. process' \in {"alive", "undefined"} /\ disturbed' \subseteq Pages
  BY <1>3 DEF RunUpdate, MayTear, LogTypeInv
<1> QED
  BY <1>1, <1>2, <1>5, <1>6 DEF LogTypeInv, RunUpdate

-----------------------------------------------------------------------------
(* Threads that log                                                        *)

LEMMA ThreadEndPush ==
  ASSUME LogTypeInv, ThreadInv, NEW t \in Threads, EndPush(t)
  PROVE  ThreadInv'
<1>1. /\ count \in Nat /\ count' = count + 1
      /\ \A u \in Threads : adding[u].log \in 0..count
  BY DEF LogTypeInv, EndPush
<1>2. /\ adding'[t].pc = "pushed" /\ adding'[t].log = count + 1
      /\ \A u \in Threads \ {t} : adding'[u] = adding[u]
  BY DEF LogTypeInv, EndPush
<1>3. \A u \in Threads : At(u, "push")' /\ adding'[u].type = "kUpdated" => count' >= kLogSize
  BY <1>1, <1>2, LogAssumption DEF ThreadInv, At
<1>4. \A u \in Threads : InFlight(u)' => adding'[u].log > 0
  BY <1>1, <1>2 DEF ThreadInv, InFlight
<1>5. \A u, v \in Threads : InFlight(u)' /\ InFlight(v)' /\ u # v => adding'[u].log # adding'[v].log
  <2> TAKE u, v \in Threads
  <2> HAVE InFlight(u)' /\ InFlight(v)' /\ u # v
  <2>1. CASE u = t
    BY <1>1, <1>2, <2>1
  <2>2. CASE v = t
    BY <1>1, <1>2, <2>2
  <2>3. CASE u # t /\ v # t
    BY <1>2, <2>3 DEF ThreadInv, InFlight
  <2> QED
    BY <2>1, <2>2, <2>3
<1> QED
  BY <1>3, <1>4, <1>5 DEF ThreadInv, EndPush

LEMMA ThreadInvStep ==
  ASSUME LogTypeInv, ThreadInv, [Next]_vars
  PROVE  ThreadInv'
<1>1. ASSUME NEW t \in Threads, BeginPush(t)
      PROVE  ThreadInv'
  <2>1. /\ adding'[t] = [pc |-> "push", log |-> 0, type |-> ChangeType]
        /\ \A u \in Threads \ {t} : adding'[u] = adding[u]
    BY <1>1 DEF LogTypeInv, BeginPush
  <2>2. ChangeType = "kUpdated" => count >= kLogSize
    BY DEF ChangeType
  <2> QED
    BY <1>1, <2>1, <2>2 DEF ThreadInv, BeginPush, At, InFlight
<1>2. ASSUME NEW t \in Threads, EndPush(t)
      PROVE  ThreadInv'
  BY <1>2, ThreadEndPush
<1>3. ASSUME NEW t \in Threads, BeginNotify(t)
      PROVE  ThreadInv'
  BY <1>3 DEF LogTypeInv, ThreadInv, BeginNotify, At, InFlight
<1>4. ASSUME NEW t \in Threads, EndNotify(t)
      PROVE  ThreadInv'
  BY <1>4 DEF LogTypeInv, ThreadInv, EndNotify, At, InFlight, Idle
<1>5. CASE BeginCopy
  BY <1>5 DEF LogTypeInv, ThreadInv, BeginCopy, logVars, At, InFlight
<1>6. CASE EndCopy
  BY <1>6 DEF LogTypeInv, ThreadInv, EndCopy, At, InFlight
<1>7. CASE AddListener
  BY <1>7 DEF LogTypeInv, ThreadInv, AddListener, At, InFlight
<1>8. ASSUME NEW p \in Pages, ClosePage(p)
      PROVE  ThreadInv'
  BY <1>8 DEF LogTypeInv, ThreadInv, ClosePage, At, InFlight
<1>9. CASE RunUpdate
  BY <1>9 DEF LogTypeInv, ThreadInv, RunUpdate, At, InFlight
<1>10. CASE UNCHANGED vars
  BY <1>10 DEF ThreadInv, vars, logVars, At, InFlight
<1> QED
  BY <1>1, <1>2, <1>3, <1>4, <1>5, <1>6, <1>7, <1>8, <1>9, <1>10 DEF Next, UiThread, AddLog

LEMMA LogTypeStep ==
  ASSUME LogTypeInv, ThreadInv, [Next]_vars
  PROVE  LogTypeInv'
<1>1. CASE UNCHANGED vars
  <2>1. Pushing' = Pushing
    BY <1>1 DEF vars, logVars, Pushing, At
  <2> QED
    BY <1>1, <2>1 DEF LogTypeInv, vars, logVars
<1>2. CASE Next
  BY <1>2, TypeBeginPush, TypeEndPush, TypeBeginNotify, TypeEndNotify, TypeBeginCopy, TypeEndCopy,
     TypeAddListener, TypeClosePage, TypeRunUpdate DEF Next, UiThread, AddLog
<1> QED
  BY <1>1, <1>2

-----------------------------------------------------------------------------
(* Pages                                                                   *)

\* A page is not concerned by what changes no update and no log in flight.
LEMMA MirrorsSame ==
  ASSUME NEW p \in Pages, Mirrors(p),
         count' = count, view'[p] = view[p], base'[p] = base[p], updates' = updates,
         \A t \in Threads : /\ InFlight(t)' <=> InFlight(t)
                            /\ InFlight(t) => /\ adding'[t].log = adding[t].log
                                              /\ adding'[t].type = adding[t].type
  PROVE  Mirrors(p)'
<1>1. PICK c \in base[p]..count : MirrorsFrom(p, c)
  BY DEF Mirrors
<1>2. MirrorsFrom(p, c)'
  BY <1>1 DEF MirrorsFrom
<1> QED
  BY <1>1, <1>2 DEF Mirrors

LEMMA PageFacts ==
  ASSUME LogTypeInv, ThreadInv, NEW p \in Copied
  PROVE  /\ count \in Nat /\ kLogSize \in Nat \ {0}
         /\ \A u \in Threads : adding[u].log \in 0..count
         /\ p \in Pages /\ base[p] \in 0..count
         /\ DOMAIN updates = 1..Len(updates) /\ Len(updates) \in Nat
         /\ \A i \in 1..Len(updates) : updates[i].log \in 1..count
<1>1. p \in Pages
  BY DEF LogTypeInv, ThreadInv, Copied
<1>2. updates \in Seq(Changes(listeners \cup closed, count))
  BY DEF LogTypeInv
<1>3. \A i \in 1..Len(updates) : updates[i] \in Changes(listeners \cup closed, count)
  BY <1>2, ElementOfSeq
<1>4. DOMAIN updates = 1..Len(updates) /\ Len(updates) \in Nat
  BY <1>2, LenProperties
<1> QED
  BY <1>1, <1>3, <1>4, LogAssumption DEF LogTypeInv, Changes

LEMMA MirrorsEndPush ==
  ASSUME LogTypeInv, ThreadInv, NEW t \in Threads, EndPush(t),
         NEW p \in Copied \ disturbed', Mirrors(p)
  PROVE  Mirrors(p)'
<1>1. /\ count \in Nat /\ count' = count + 1 /\ kLogSize \in Nat
      /\ \A u \in Threads : adding[u].log \in 0..count
      /\ p \in Pages /\ base[p] \in Nat
      /\ \A i \in DOMAIN updates : updates[i].log \in 1..count
  BY PageFacts DEF EndPush
<1>2. /\ adding'[t].pc = "pushed" /\ adding'[t].log = count + 1 /\ adding'[t].type = adding[t].type
      /\ \A u \in Threads \ {t} : adding'[u] = adding[u]
      /\ updates' = updates /\ view' = view /\ base' = base
      /\ ~InFlight(t)
  BY DEF LogTypeInv, EndPush, InFlight, At
<1>3. PICK c \in base[p]..count : MirrorsFrom(p, c)
  BY DEF Mirrors
<1>4. adding[t].type = Expected(count + 1)
  <2>1. adding[t].type \in ChangeTypes
    BY DEF LogTypeInv
  <2>2. CASE adding[t].type = "kUpdated"
    BY <1>1, <2>2 DEF ThreadInv, EndPush, Expected
  <2>3. CASE adding[t].type = "kAdded"
    <3>1. ~(count >= kLogSize)
      BY <1>1, <2>3 DEF EndPush, Copied
    <3> QED
      BY <1>1, <2>3, <3>1 DEF Expected
  <2> QED
    BY <2>1, <2>2, <2>3 DEF ChangeTypes
<1>5. c \in base'[p]..count'
  BY <1>1, <1>2, <1>3
<1>6. view'[p] = LogsAt(c)
  BY <1>2, <1>3 DEF MirrorsFrom
<1>7. \A n \in (c + 1)..count' :
        \/ \E i \in DOMAIN updates' : updates'[i].page = p /\ updates'[i].log = n
        \/ \E u \in Threads : InFlight(u)' /\ adding'[u].log = n
  <2> TAKE n \in (c + 1)..count'
  <2>1. CASE n = count + 1
    BY <1>2, <2>1 DEF InFlight
  <2>2. CASE n # count + 1
    <3>1. n \in (c + 1)..count
      BY <1>1, <2>2
    <3>2. CASE \E i \in DOMAIN updates : updates[i].page = p /\ updates[i].log = n
      BY <1>2, <3>2
    <3>3. ASSUME NEW u \in Threads, InFlight(u), adding[u].log = n
          PROVE  InFlight(u)' /\ adding'[u].log = n
      BY <1>2, <3>3 DEF InFlight
    <3> QED
      BY <1>3, <3>1, <3>2, <3>3 DEF MirrorsFrom
  <2> QED
    BY <2>1, <2>2
<1>8. \A u \in Threads : InFlight(u)' /\ adding'[u].log > base'[p] =>
        /\ adding'[u].log > c
        /\ adding'[u].type = Expected(adding'[u].log)
        /\ \A i \in DOMAIN updates' : updates'[i].page = p => updates'[i].log < adding'[u].log
  <2> TAKE u \in Threads
  <2> HAVE InFlight(u)' /\ adding'[u].log > base'[p]
  <2>1. CASE u = t
    BY <1>1, <1>2, <1>3, <1>4, <2>1
  <2>2. CASE u # t
    BY <1>2, <1>3, <2>2 DEF MirrorsFrom, InFlight
  <2> QED
    BY <2>1, <2>2
<1>9. \A i \in DOMAIN updates' : updates'[i].page = p =>
       /\ updates'[i].log > c
       /\ updates'[i].type = Expected(updates'[i].log)
       /\ \A j \in DOMAIN updates' : updates'[j].page = p /\ i < j => updates'[i].log < updates'[j].log
  BY <1>2, <1>3 DEF MirrorsFrom
<1>10. MirrorsFrom(p, c)'
  BY <1>6, <1>7, <1>8, <1>9 DEF MirrorsFrom
<1> QED
  BY <1>5, <1>10 DEF Mirrors

\* The queue after a notification: the updates that waited, and one for each listener.
LEMMA QueueAfterNotify ==
  ASSUME LogTypeInv, ThreadInv, NEW t \in Threads, EndNotify(t)
  PROVE  /\ DOMAIN updates \subseteq DOMAIN updates'
         /\ \A i \in DOMAIN updates : updates'[i] = updates[i]
         /\ \A i \in DOMAIN updates' \ DOMAIN updates :
              /\ updates'[i].log = adding[t].log
              /\ updates'[i].type = adding[t].type
              /\ updates'[i].page \in listeners
              /\ \A j \in DOMAIN updates : j < i
         /\ \A i, j \in DOMAIN updates' \ DOMAIN updates : updates'[i].page = updates'[j].page => i = j
         /\ \A p \in listeners : \E i \in DOMAIN updates' : updates'[i].page = p /\ updates'[i].log = adding[t].log
<1> DEFINE new == UpdatesOf(adding[t])
           S == Changes(listeners \cup closed, count)
           m == Len(updates)
           n == Len(new)
<1>1. adding[t].log \in 1..count /\ adding[t].type \in ChangeTypes
  BY DEF LogTypeInv, ThreadInv, InFlight, EndNotify, At
<1>2. /\ new \in Seq(S)
      /\ \A i \in DOMAIN new : new[i].log = adding[t].log /\ new[i].type = adding[t].type
      /\ \A p \in listeners : \E i \in DOMAIN new : new[i].page = p
      /\ \A i \in DOMAIN new : new[i].page \in listeners
      /\ \A i, j \in DOMAIN new : new[i].page = new[j].page => i = j
  BY <1>1, UpdatesOfListeners
<1>3. updates \in Seq(S) /\ updates' = updates \o new
  BY DEF LogTypeInv, EndNotify
<1> HIDE DEF new, S
<1>4. /\ updates' \in Seq(S)
      /\ Len(updates') = m + n
      /\ \A i \in 1..(m + n) : updates'[i] = IF i <= m THEN updates[i] ELSE new[i - m]
  BY <1>2, <1>3, ConcatProperties
<1>5. /\ m \in Nat /\ n \in Nat
      /\ DOMAIN updates = 1..m /\ DOMAIN new = 1..n /\ DOMAIN updates' = 1..(m + n)
  BY <1>2, <1>3, <1>4, LenProperties
<1> HIDE DEF m, n
<1>6. /\ DOMAIN updates \subseteq DOMAIN updates'
      /\ \A i \in DOMAIN updates : updates'[i] = updates[i]
  BY <1>4, <1>5
<1>7. \A i \in DOMAIN updates' \ DOMAIN updates : i - m \in DOMAIN new /\ updates'[i] = new[i - m]
  BY <1>4, <1>5
<1>8. \A i \in DOMAIN updates' \ DOMAIN updates : \A j \in DOMAIN updates : j < i
  BY <1>5
<1>9. \A i, j \in DOMAIN updates' \ DOMAIN updates : updates'[i].page = updates'[j].page => i = j
  <2> TAKE i, j \in DOMAIN updates' \ DOMAIN updates
  <2> HAVE updates'[i].page = updates'[j].page
  <2>1. i - m = j - m
    BY <1>2, <1>7
  <2> QED
    BY <1>5, <2>1
<1>10. \A p \in listeners : \E i \in DOMAIN updates' : updates'[i].page = p /\ updates'[i].log = adding[t].log
  <2> TAKE p \in listeners
  <2>1. PICK k \in DOMAIN new : new[k].page = p
    BY <1>2
  <2>2. m + k \in DOMAIN updates' /\ ~(m + k <= m) /\ m + k - m = k
    BY <1>5
  <2>3. updates'[m + k] = new[k]
    BY <1>4, <1>5, <2>2
  <2> QED
    BY <1>2, <2>1, <2>2, <2>3
<1> QED
  BY <1>2, <1>6, <1>7, <1>8, <1>9, <1>10

LEMMA MirrorsEndNotify ==
  ASSUME LogTypeInv, ThreadInv, NEW t \in Threads, EndNotify(t),
         NEW p \in Copied \ disturbed', Mirrors(p)
  PROVE  Mirrors(p)'
<1> DEFINE n == adding[t].log
<1>1. /\ count \in Nat
      /\ \A u \in Threads : adding[u].log \in 0..count
      /\ p \in Pages /\ base[p] \in Nat
      /\ DOMAIN updates \subseteq Nat
      /\ \A i \in DOMAIN updates : updates[i].log \in 1..count
  BY PageFacts
<1>2. /\ ~InFlight(t)' /\ InFlight(t) /\ n > 0
      /\ \A u \in Threads \ {t} : adding'[u] = adding[u]
      /\ \A u \in Threads \ {t} : InFlight(u)' <=> InFlight(u)
      /\ \A u \in Threads \ {t} : InFlight(u) => adding[u].log # n
      /\ count' = count /\ view' = view /\ base' = base
  BY DEF LogTypeInv, ThreadInv, EndNotify, InFlight, At, Idle
<1>3. PICK c \in base[p]..count : MirrorsFrom(p, c)
  BY DEF Mirrors
<1>4. ~Disturbs(t, p)
  BY <1>1 DEF EndNotify
<1>5. /\ DOMAIN updates \subseteq DOMAIN updates'
      /\ \A i \in DOMAIN updates : updates'[i] = updates[i]
      /\ \A i \in DOMAIN updates' \ DOMAIN updates :
           /\ updates'[i].log = n
           /\ updates'[i].type = adding[t].type
           /\ updates'[i].page \in listeners
           /\ \A j \in DOMAIN updates : j < i
      /\ \A i, j \in DOMAIN updates' \ DOMAIN updates : updates'[i].page = updates'[j].page => i = j
      /\ \A q \in listeners : \E i \in DOMAIN updates' : updates'[i].page = q /\ updates'[i].log = n
  BY QueueAfterNotify
<1>6. DOMAIN updates' \subseteq Nat
  <2>1. LogTypeInv'
    BY TypeEndNotify
  <2>2. updates' \in Seq(Changes(listeners' \cup closed', count'))
    BY <2>1 DEF LogTypeInv
  <2> QED
    BY <2>2, LenProperties
\* What a listener gets is the next log, with the change it made.
<1>7. ASSUME p \in listeners
      PROVE  /\ n > c /\ n > base[p]
             /\ adding[t].type = Expected(n)
             /\ \A i \in DOMAIN updates : updates[i].page = p => updates[i].log < n
             /\ \A u \in Threads \ {t} : InFlight(u) => adding[u].log > n
  <2>1. n > base[p]
    BY <1>1, <1>4, <1>7 DEF Disturbs
  <2>2. \A u \in Threads : InFlight(u) => ~(adding[u].log < n)
    BY <1>4, <1>7 DEF Disturbs, InFlight, At
  <2> QED
    BY <1>1, <1>2, <1>3, <2>1, <2>2 DEF MirrorsFrom
\* A page that does not listen yet has copied it.
<1>8. ASSUME p \notin listeners
      PROVE  n <= base[p]
  <2>1. ui.pc = "copied" /\ ui.page = p
    BY <1>8 DEF Copied
  <2>2. ui = [pc |-> "copied", page |-> p]
    BY <2>1 DEF LogTypeInv
  <2> QED
    BY <1>1, <1>4, <2>2 DEF Disturbs
<1> HIDE DEF n
<1>9. n \in Nat /\ n <= count
  BY <1>1 DEF n
<1>10. \A i \in DOMAIN updates' : updates'[i].page = p =>
        /\ updates'[i].log > c
        /\ updates'[i].type = Expected(updates'[i].log)
        /\ \A j \in DOMAIN updates' : updates'[j].page = p /\ i < j => updates'[i].log < updates'[j].log
  <2> TAKE i \in DOMAIN updates'
  <2> HAVE updates'[i].page = p
  <2>1. CASE i \in DOMAIN updates
    <3>1. /\ updates'[i].log > c
          /\ updates'[i].type = Expected(updates'[i].log)
          /\ \A j \in DOMAIN updates : updates'[j].page = p /\ i < j => updates'[i].log < updates'[j].log
      BY <1>3, <1>5, <2>1 DEF MirrorsFrom
    <3>2. ASSUME NEW j \in DOMAIN updates' \ DOMAIN updates, updates'[j].page = p
          PROVE  updates'[i].log < updates'[j].log
      BY <1>5, <1>7, <2>1, <3>2
    <3> QED
      BY <3>1, <3>2
  <2>2. CASE i \notin DOMAIN updates
    <3>1. p \in listeners /\ updates'[i].log = n /\ updates'[i].type = adding[t].type
      BY <1>5, <2>2
    <3>2. ASSUME NEW j \in DOMAIN updates', updates'[j].page = p, i < j
          PROVE  FALSE
      <4>1. j \notin DOMAIN updates
        BY <1>1, <1>5, <1>6, <2>2, <3>2
      <4>2. i = j
        BY <1>5, <2>2, <3>2, <4>1
      <4> QED
        BY <1>6, <3>2, <4>2
    <3> QED
      BY <1>7, <3>1, <3>2
  <2> QED
    BY <2>1, <2>2
<1>11. \A k \in (c + 1)..count :
        \/ \E i \in DOMAIN updates' : updates'[i].page = p /\ updates'[i].log = k
        \/ \E u \in Threads : InFlight(u)' /\ adding'[u].log = k
  <2> TAKE k \in (c + 1)..count
  <2>1. CASE \E i \in DOMAIN updates : updates[i].page = p /\ updates[i].log = k
    BY <1>5, <2>1
  <2>2. ASSUME NEW u \in Threads \ {t}, InFlight(u), adding[u].log = k
        PROVE  InFlight(u)' /\ adding'[u].log = k
    BY <1>2, <2>2
  <2>3. CASE k = n
    <3>1. p \in listeners
      BY <1>1, <1>3, <1>8, <1>9, <2>3
    <3> QED
      BY <1>5, <2>3, <3>1
  <2> QED
    BY <1>3, <2>1, <2>2, <2>3 DEF MirrorsFrom, n
<1>12. \A u \in Threads : InFlight(u)' /\ adding'[u].log > base'[p] =>
        /\ adding'[u].log > c
        /\ adding'[u].type = Expected(adding'[u].log)
        /\ \A i \in DOMAIN updates' : updates'[i].page = p => updates'[i].log < adding'[u].log
  <2> TAKE u \in Threads
  <2> HAVE InFlight(u)' /\ adding'[u].log > base'[p]
  <2>1. u # t /\ InFlight(u) /\ adding'[u] = adding[u] /\ adding[u].log > base[p]
    BY <1>2
  <2>2. /\ adding[u].log > c
        /\ adding[u].type = Expected(adding[u].log)
        /\ \A i \in DOMAIN updates : updates[i].page = p => updates[i].log < adding[u].log
    BY <1>3, <2>1 DEF MirrorsFrom
  <2>3. ASSUME NEW i \in DOMAIN updates' \ DOMAIN updates, updates'[i].page = p
        PROVE  updates'[i].log < adding[u].log
    BY <1>1, <1>5, <1>7, <1>9, <2>1, <2>3
  <2> QED
    BY <1>5, <2>1, <2>2, <2>3
<1>13. view'[p] = LogsAt(c)
  BY <1>2, <1>3 DEF MirrorsFrom
<1>14. MirrorsFrom(p, c)'
  BY <1>2, <1>10, <1>11, <1>12, <1>13 DEF MirrorsFrom
<1> QED
  BY <1>2, <1>3, <1>14 DEF Mirrors

\* A page that is made shows the buffer, and no update waits for it.
LEMMA MirrorsEndCopy ==
  ASSUME LogTypeInv, ThreadInv, EndCopy, NEW p \in Copied' \ disturbed',
         \A q \in Copied \ disturbed : Mirrors(q)
  PROVE  Mirrors(p)'
<1>1. CASE p \in listeners
  <2>1. p # ui.page
    BY <1>1 DEF EndCopy, ThreadInv
  <2>2. p \in Pages /\ Mirrors(p)
    BY <1>1 DEF EndCopy, Copied, LogTypeInv
  <2> QED
    BY <2>1, <2>2, MirrorsSame DEF EndCopy, InFlight, LogTypeInv
<1>2. CASE p \notin listeners
  <2>1. p = ui.page /\ p \in Pages \ (listeners \cup closed)
    BY <1>2 DEF EndCopy, Copied, ThreadInv
  <2>2. count \in Nat /\ \A u \in Threads : adding[u].log \in 0..count
    BY DEF LogTypeInv
  <2>3. view'[p] = LogsAt(count) /\ base'[p] = count
    BY <2>1, LogsIsLogsAt DEF EndCopy, LogTypeInv
  <2>4. \A i \in DOMAIN updates : updates[i].page \in listeners \cup closed
    <3>1. updates \in Seq(Changes(listeners \cup closed, count))
      BY DEF LogTypeInv
    <3>2. \A i \in DOMAIN updates : updates[i] \in Changes(listeners \cup closed, count)
      BY <3>1, ElementOfSeq, LenProperties
    <3> QED
      BY <3>2 DEF Changes
  <2>5. MirrorsFrom(p, count)'
    <3>1. \A i \in DOMAIN updates : updates[i].page # p
      BY <2>1, <2>4
    <3>2. \A u \in Threads : ~(adding[u].log > count)
      BY <2>2
    <3>3. (count + 1)..count = {}
      BY <2>2
    <3>4. count' = count /\ updates' = updates /\ adding' = adding
      BY DEF EndCopy
    <3> QED
      BY <2>3, <3>1, <3>2, <3>3, <3>4 DEF MirrorsFrom, InFlight
  <2>6. count' = count /\ count' \in base'[p]..count'
    BY <2>2, <2>3 DEF EndCopy
  <2> QED
    BY <2>5, <2>6 DEF Mirrors
<1> QED
  BY <1>1, <1>2

\* The next update of page p is that for the log after the newest it shows.
LEMMA NextUpdate ==
  ASSUME LogTypeInv, ThreadInv, NEW p \in Copied, updates # <<>>, Head(updates).page = p,
         NEW c \in base[p]..count, MirrorsFrom(p, c)
  PROVE  Head(updates).log = c + 1 /\ c + 1 \in 1..count
<1>1. /\ count \in Nat
      /\ base[p] \in 0..count
      /\ DOMAIN updates = 1..Len(updates) /\ Len(updates) \in Nat
      /\ \A i \in 1..Len(updates) : updates[i].log \in 1..count
  BY PageFacts
<1>2. Len(updates) > 0 /\ 1 \in DOMAIN updates /\ updates[1] = Head(updates)
  BY <1>1, EmptySeq DEF LogTypeInv
<1>3. updates[1].log \in (c + 1)..count /\ c \in Nat
  BY <1>1, <1>2 DEF MirrorsFrom
<1>4. c + 1 \in (c + 1)..count
  BY <1>1, <1>3
<1>5. ~ \E t \in Threads : InFlight(t) /\ adding[t].log = c + 1
  <2> SUFFICES ASSUME NEW t \in Threads, InFlight(t), adding[t].log = c + 1
               PROVE  FALSE
    OBVIOUS
  <2>1. adding[t].log > base[p]
    BY <1>1
  <2>2. updates[1].log < adding[t].log
    BY <1>2, <2>1 DEF MirrorsFrom
  <2> QED
    BY <1>1, <1>3, <2>2
<1>6. PICK i \in DOMAIN updates : updates[i].page = p /\ updates[i].log = c + 1
  BY <1>4, <1>5 DEF MirrorsFrom
<1>7. ~(1 < i)
  BY <1>1, <1>2, <1>3, <1>6 DEF MirrorsFrom
<1>8. i = 1
  BY <1>1, <1>6, <1>7
<1> QED
  BY <1>1, <1>2, <1>3, <1>6, <1>8

LEMMA MirrorsRunUpdate ==
  ASSUME LogTypeInv, ThreadInv, RunUpdate, NEW p \in Copied \ disturbed', Mirrors(p)
  PROVE  Mirrors(p)'
<1> DEFINE u == Head(updates)
           S == Changes(listeners \cup closed, count)
<1>1. /\ count \in Nat /\ kLogSize \in Nat \ {0}
      /\ \A t \in Threads : adding[t].log \in 0..count
      /\ p \in Pages /\ base[p] \in 0..count
      /\ DOMAIN updates = 1..Len(updates) /\ Len(updates) \in Nat
      /\ \A i \in 1..Len(updates) : updates[i].log \in 1..count
  BY PageFacts
<1>2. PICK c \in base[p]..count : MirrorsFrom(p, c)
  BY DEF Mirrors
<1>3. /\ updates \in Seq(S) /\ updates # <<>> /\ updates' = Tail(updates)
      /\ count' = count /\ adding' = adding /\ base' = base
  BY DEF LogTypeInv, RunUpdate
<1>4. /\ u = updates[1] /\ u \in S /\ Len(updates) >= 1
      /\ Tail(updates) \in Seq(S)
      /\ Len(Tail(updates)) = Len(updates) - 1
      /\ \A i \in 1..(Len(updates) - 1) : Tail(updates)[i] = updates[i + 1]
  BY <1>1, <1>3, HeadTailProperties, EmptySeq
<1>5. /\ DOMAIN updates' = 1..(Len(updates) - 1)
      /\ \A i \in DOMAIN updates' : i + 1 \in DOMAIN updates /\ updates'[i] = updates[i + 1]
      /\ \A i \in DOMAIN updates : i # 1 => i - 1 \in DOMAIN updates' /\ updates'[i - 1] = updates[i]
  <2>1. DOMAIN updates' = 1..(Len(updates) - 1)
    BY <1>3, <1>4, LenProperties
  <2>2. \A i \in DOMAIN updates' : i + 1 \in DOMAIN updates /\ updates'[i] = updates[i + 1]
    BY <1>1, <1>3, <1>4, <2>1
  <2>3. \A i \in DOMAIN updates : i # 1 => i - 1 \in DOMAIN updates'
    BY <1>1, <2>1
  <2>4. \A i \in DOMAIN updates : i # 1 => updates'[i - 1] = updates[i]
    <3> TAKE i \in DOMAIN updates
    <3> HAVE i # 1
    <3>1. i - 1 \in DOMAIN updates' /\ (i - 1) + 1 = i
      BY <1>1, <2>3
    <3> QED
      BY <2>2, <3>1
  <2> QED
    BY <2>1, <2>2, <2>3, <2>4
<1> HIDE DEF u, S
<1>6. \E d \in c..count : /\ view'[p] = LogsAt(d)
                          /\ d = IF u.page = p THEN c + 1 ELSE c
  <2>1. CASE u.page = p
    <3>1. u.log = c + 1 /\ c + 1 \in 1..count
      BY <1>2, <1>3, <2>1, NextUpdate DEF u
    <3>2. p \notin closed
      BY DEF Copied, LogTypeInv, ThreadInv
    <3>3. ~(u.log <= Oldest)
      BY <2>1, <3>2 DEF RunUpdate, u
    <3>4. Oldest \in Nat
      BY <1>1 DEF Oldest
    <3>5. c + 1 \in (Oldest + 1)..count /\ c \in Nat
      BY <1>1, <3>1, <3>3, <3>4
    <3>6. u.type = Expected(c + 1)
      BY <1>1, <1>2, <1>4, <2>1, <3>1 DEF MirrorsFrom
    <3>7. Updated(LogsAt(c), u) = LogsAt(c + 1)
      BY <1>1, <3>1, <3>5, <3>6, UpdatedNext
    <3>8. view'[p] = Updated(view[p], u)
      BY <1>1, <2>1, <3>2 DEF RunUpdate, u, LogTypeInv
    <3>9. view[p] = LogsAt(c)
      BY <1>2 DEF MirrorsFrom
    <3> QED
      BY <1>1, <2>1, <3>1, <3>5, <3>7, <3>8, <3>9
  <2>2. CASE u.page # p
    <3>1. view'[p] = view[p]
      BY <1>1, <2>2 DEF RunUpdate, u, LogTypeInv
    <3> QED
      BY <1>1, <1>2, <2>2, <3>1 DEF MirrorsFrom
  <2> QED
    BY <2>1, <2>2
<1>7. PICK d \in c..count : view'[p] = LogsAt(d) /\ d = IF u.page = p THEN c + 1 ELSE c
  BY <1>6
\* Log d, if it was waiting, was the first.
<1>8. u.page = p => u.log = d
  BY <1>2, <1>3, <1>7, NextUpdate DEF u
<1>9. \A i \in DOMAIN updates' : updates'[i].page = p =>
        /\ updates'[i].log > d
        /\ updates'[i].type = Expected(updates'[i].log)
        /\ \A j \in DOMAIN updates' : updates'[j].page = p /\ i < j => updates'[i].log < updates'[j].log
  <2> TAKE i \in DOMAIN updates'
  <2> HAVE updates'[i].page = p
  <2>1. i \in Nat /\ i + 1 \in DOMAIN updates /\ updates'[i] = updates[i + 1] /\ 1 \in DOMAIN updates /\ 1 < i + 1
    BY <1>1, <1>5
  <2>2. /\ updates[i + 1].log > c
        /\ updates[i + 1].type = Expected(updates[i + 1].log)
        /\ \A j \in DOMAIN updates : updates[j].page = p /\ i + 1 < j => updates[i + 1].log < updates[j].log
    BY <1>2, <2>1 DEF MirrorsFrom
  <2>3. updates'[i].log > d
    <3>1. CASE u.page = p
      <4>1. updates[1].log < updates[i + 1].log
        BY <1>2, <1>4, <2>1, <3>1 DEF MirrorsFrom
      <4> QED
        BY <1>4, <1>8, <2>1, <3>1, <4>1
    <3>2. CASE u.page # p
      BY <1>7, <2>1, <2>2, <3>2
    <3> QED
      BY <3>1, <3>2
  <2>4. ASSUME NEW j \in DOMAIN updates', updates'[j].page = p, i < j
        PROVE  updates'[i].log < updates'[j].log
    <3>1. j \in Nat /\ j + 1 \in DOMAIN updates /\ updates'[j] = updates[j + 1] /\ i + 1 < j + 1
      BY <1>5, <2>1, <2>4
    <3> QED
      BY <2>1, <2>2, <2>4, <3>1
  <2> QED
    BY <2>1, <2>2, <2>3, <2>4
<1>10. \A n \in (d + 1)..count :
        \/ \E i \in DOMAIN updates' : updates'[i].page = p /\ updates'[i].log = n
        \/ \E t \in Threads : InFlight(t)' /\ adding'[t].log = n
  <2> TAKE n \in (d + 1)..count
  <2>1. n \in (c + 1)..count
    BY <1>1, <1>2, <1>7
  <2>2. ASSUME NEW i \in DOMAIN updates, updates[i].page = p, updates[i].log = n
        PROVE  \E j \in DOMAIN updates' : updates'[j].page = p /\ updates'[j].log = n
    <3>1. i # 1
      BY <1>1, <1>2, <1>4, <1>7, <1>8, <2>2
    <3> QED
      BY <1>5, <2>2, <3>1
  <2>3. ASSUME NEW t \in Threads, InFlight(t), adding[t].log = n
        PROVE  InFlight(t)' /\ adding'[t].log = n
    BY <1>3, <2>3 DEF InFlight
  <2> QED
    BY <1>2, <2>1, <2>2, <2>3 DEF MirrorsFrom
<1>11. \A t \in Threads : InFlight(t)' /\ adding'[t].log > base'[p] =>
        /\ adding'[t].log > d
        /\ adding'[t].type = Expected(adding'[t].log)
        /\ \A i \in DOMAIN updates' : updates'[i].page = p => updates'[i].log < adding'[t].log
  <2> TAKE t \in Threads
  <2> HAVE InFlight(t)' /\ adding'[t].log > base'[p]
  <2>1. /\ adding' = adding
        /\ adding[t].log > c
        /\ adding[t].type = Expected(adding[t].log)
        /\ \A i \in DOMAIN updates : updates[i].page = p => updates[i].log < adding[t].log
    BY <1>2, <1>3 DEF MirrorsFrom, InFlight
  <2>2. adding[t].log > d
    <3>1. CASE u.page = p
      BY <1>1, <1>4, <1>8, <2>1, <3>1
    <3>2. CASE u.page # p
      BY <1>7, <2>1, <3>2
    <3> QED
      BY <3>1, <3>2
  <2> QED
    BY <1>5, <2>1, <2>2
<1>12. MirrorsFrom(p, d)'
  BY <1>3, <1>7, <1>9, <1>10, <1>11 DEF MirrorsFrom
<1>13. d \in base'[p]..count'
  BY <1>1, <1>2, <1>3, <1>7
<1> QED
  BY <1>12, <1>13 DEF Mirrors

-----------------------------------------------------------------------------
(* The inductive invariant                                                 *)

LEMMA IInvInit ==
  ASSUME Init
  PROVE  IInv
<1>1. LogTypeInv
  BY LogTypeInit
<1>2. ThreadInv
  BY DEF Init, Idle, ThreadInv, At, InFlight
<1>3. Copied = {}
  BY DEF Init, Copied
<1> QED
  BY <1>1, <1>2, <1>3 DEF IInv

LEMMA IInvStep ==
  ASSUME IInv, [Next]_vars
  PROVE  IInv'
<1>1. LogTypeInv /\ ThreadInv /\ \A p \in Copied \ disturbed : Mirrors(p)
  BY DEF IInv
<1>2. LogTypeInv' /\ ThreadInv'
  BY <1>1, LogTypeStep, ThreadInvStep
<1>3. \A p \in Copied : p \in Pages
  BY <1>1, PageFacts
<1>4. ASSUME NEW p \in Copied' \ disturbed'
      PROVE  Mirrors(p)'
  <2>1. ASSUME NEW t \in Threads, BeginPush(t)
        PROVE  Mirrors(p)'
    <3>1. p \in Copied \ disturbed
      BY <1>4, <2>1 DEF BeginPush, Copied
    <3> QED
      BY <1>1, <1>3, <2>1, <3>1, MirrorsSame DEF BeginPush, InFlight, At, LogTypeInv
  <2>2. ASSUME NEW t \in Threads, EndPush(t)
        PROVE  Mirrors(p)'
    <3>1. p \in Copied \ disturbed' /\ p \notin disturbed
      BY <1>4, <2>2 DEF EndPush, Copied
    <3> QED
      BY <1>1, <2>2, <3>1, MirrorsEndPush
  <2>3. ASSUME NEW t \in Threads, BeginNotify(t)
        PROVE  Mirrors(p)'
    <3>1. p \in Copied \ disturbed
      BY <1>4, <2>3 DEF BeginNotify, Copied
    <3> QED
      BY <1>1, <1>3, <2>3, <3>1, MirrorsSame DEF BeginNotify, InFlight, At, LogTypeInv
  <2>4. ASSUME NEW t \in Threads, EndNotify(t)
        PROVE  Mirrors(p)'
    <3>1. p \in Copied \ disturbed' /\ p \notin disturbed
      BY <1>4, <2>4 DEF EndNotify, Copied
    <3> QED
      BY <1>1, <2>4, <3>1, MirrorsEndNotify
  <2>5. CASE BeginCopy
    <3>1. p \in Copied \ disturbed
      <4>1. ui'.pc # "copied"
        BY <1>1, <2>5 DEF BeginCopy, LogTypeInv
      <4> QED
        BY <1>4, <2>5, <4>1 DEF BeginCopy, Copied, logVars
    <3> QED
      BY <1>1, <1>3, <2>5, <3>1, MirrorsSame DEF BeginCopy, InFlight, logVars
  <2>6. CASE EndCopy
    BY <1>1, <1>4, <2>6, MirrorsEndCopy
  <2>7. CASE AddListener
    <3>1. p \in Copied \ disturbed
      BY <1>4, <2>7 DEF AddListener, Copied
    <3> QED
      BY <1>1, <1>3, <2>7, <3>1, MirrorsSame DEF AddListener, InFlight
  <2>8. ASSUME NEW q \in Pages, ClosePage(q)
        PROVE  Mirrors(p)'
    <3>1. p \in Copied \ disturbed
      BY <1>4, <2>8 DEF ClosePage, Copied
    <3> QED
      BY <1>1, <1>3, <2>8, <3>1, MirrorsSame DEF ClosePage, InFlight
  <2>9. CASE RunUpdate
    <3>1. p \in Copied \ disturbed' /\ p \notin disturbed
      BY <1>4, <2>9 DEF RunUpdate, Copied
    <3> QED
      BY <1>1, <2>9, <3>1, MirrorsRunUpdate
  <2>10. CASE UNCHANGED vars
    <3>1. p \in Copied \ disturbed
      BY <1>4, <2>10 DEF vars, logVars, Copied
    <3> QED
      BY <1>1, <1>3, <2>10, <3>1, MirrorsSame DEF vars, logVars, InFlight
  <2> QED
    BY <2>1, <2>2, <2>3, <2>4, <2>5, <2>6, <2>7, <2>8, <2>9, <2>10 DEF Next, UiThread, AddLog
<1> QED
  BY <1>2, <1>4 DEF IInv

-----------------------------------------------------------------------------
(* What the updates that wait make of a page                               *)

\* A set of numbers that is not empty has a least one.
LEMMA LeastExists ==
  ASSUME NEW T \in SUBSET Nat, T # {}
  PROVE  \E x \in T : \A y \in T : x <= y
<1>1. \E x \in T : \A y \in T : ~ (<<y, x>> \in OpToRel(<, Nat))
  BY NatLessThanWellFounded, WFMin
<1>2. PICK x \in T : \A y \in T : ~ (<<y, x>> \in OpToRel(<, Nat))
  BY <1>1
<1>3. \A y \in T : ~(y < x)
  BY <1>2 DEF OpToRel
<1> QED
  BY <1>3

\* Induction over the numbers up to n, for a set of those that have a property.
LEMMA UpTo ==
  ASSUME NEW n \in Nat, NEW P \in SUBSET (0..n), 0 \in P,
         \A k \in 1..n : k - 1 \in P => k \in P
  PROVE  P = 0..n
<1> DEFINE T == (0..n) \ P
<1>1. ASSUME T # {}
      PROVE  FALSE
  <2>1. T \in SUBSET Nat
    OBVIOUS
  <2>2. PICK x \in T : \A y \in T : x <= y
    BY <1>1, <2>1, LeastExists
  <2>3. x \in 1..n
    BY <2>2
  <2>4. x - 1 \in P
    BY <2>2, <2>3
  <2> QED
    BY <2>2, <2>3, <2>4
<1> QED
  BY <1>1

\* The first i updates bring page p, which shows log c, to log d.
BroughtTo(p, c, i, d) ==
  \A j \in DOMAIN updates : updates[j].page = p => (j <= i <=> updates[j].log <= d)

LEMMA BroughtToOne ==
  ASSUME LogTypeInv, ThreadInv, NEW p \in Copied, \A t \in Threads : At(t, "idle"),
         NEW c \in base[p]..count, MirrorsFrom(p, c), NEW i,
         NEW d \in c..count, NEW e \in c..count, BroughtTo(p, c, i, d), BroughtTo(p, c, i, e)
  PROVE  d = e
<1>1. count \in Nat /\ base[p] \in 0..count
  BY PageFacts
<1>2. \A n \in (c + 1)..count : \E j \in DOMAIN updates : updates[j].page = p /\ updates[j].log = n
  BY DEF MirrorsFrom, InFlight, At
<1>3. ASSUME NEW x \in c..count, NEW y \in c..count, x < y, BroughtTo(p, c, i, x), BroughtTo(p, c, i, y)
      PROVE  FALSE
  <2>1. y \in (c + 1)..count
    BY <1>1, <1>3
  <2>2. PICK j \in DOMAIN updates : updates[j].page = p /\ updates[j].log = y
    BY <1>2, <2>1
  <2>3. y <= y /\ ~(y <= x)
    BY <1>1, <1>3
  <2> QED
    BY <1>3, <2>2, <2>3 DEF BroughtTo
<1>4. d < e \/ e < d \/ d = e
  BY <1>1
<1> QED
  BY <1>3, <1>4

LEMMA BroughtToNext ==
  ASSUME LogTypeInv, ThreadInv, NEW p \in Copied, \A t \in Threads : At(t, "idle"),
         NEW c \in base[p]..count, MirrorsFrom(p, c), NEW i \in DOMAIN updates,
         NEW d \in c..count, BroughtTo(p, c, i - 1, d)
  PROVE  /\ updates[i].page # p => BroughtTo(p, c, i, d)
         /\ updates[i].page = p => /\ updates[i].log = d + 1
                                  /\ d + 1 \in c..count
                                  /\ BroughtTo(p, c, i, d + 1)
<1>1. /\ count \in Nat /\ base[p] \in 0..count
      /\ DOMAIN updates = 1..Len(updates) /\ Len(updates) \in Nat
      /\ \A j \in 1..Len(updates) : updates[j].log \in 1..count
  BY PageFacts
<1>2. CASE updates[i].page # p
  <2> SUFFICES ASSUME NEW j \in DOMAIN updates, updates[j].page = p
               PROVE  j <= i <=> updates[j].log <= d
    BY <1>2 DEF BroughtTo
  <2>1. j # i
    BY <1>2
  <2>2. j <= i <=> j <= i - 1
    BY <1>1, <2>1
  <2> QED
    BY <2>2 DEF BroughtTo
<1>3. CASE updates[i].page = p
  <2>1. \A n \in (c + 1)..count : \E j \in DOMAIN updates : updates[j].page = p /\ updates[j].log = n
    BY DEF MirrorsFrom, InFlight, At
  <2>2. ~(updates[i].log <= d)
    BY <1>1, <1>3 DEF BroughtTo
  <2>3. d + 1 \in (c + 1)..count
    BY <1>1, <2>2
  <2>4. PICK j \in DOMAIN updates : updates[j].page = p /\ updates[j].log = d + 1
    BY <2>1, <2>3
  <2>5. ~(j <= i - 1)
    BY <1>1, <2>4 DEF BroughtTo
  <2>6. ~(i < j)
    <3>1. i < j => updates[i].log < updates[j].log
      BY <1>3, <2>4 DEF MirrorsFrom
    <3> QED
      BY <1>1, <2>2, <2>4, <3>1
  <2>7. updates[i].log = d + 1
    BY <1>1, <2>4, <2>5, <2>6
  <2>8. BroughtTo(p, c, i, d + 1)
    <3> SUFFICES ASSUME NEW k \in DOMAIN updates, updates[k].page = p
                 PROVE  k <= i <=> updates[k].log <= d + 1
      BY DEF BroughtTo
    <3>1. CASE k <= i - 1
      BY <1>1, <3>1 DEF BroughtTo
    <3>2. CASE k = i
      BY <1>1, <2>7, <3>2
    <3>3. CASE i < k
      <4>1. updates[i].log < updates[k].log
        BY <1>3, <3>3 DEF MirrorsFrom
      <4> QED
        BY <1>1, <2>7, <3>3, <4>1
    <3> QED
      BY <1>1, <3>1, <3>2, <3>3
  <2> QED
    BY <1>1, <1>3, <2>3, <2>7, <2>8
<1> QED
  BY <1>2, <1>3

LEMMA BroughtToSome ==
  ASSUME LogTypeInv, ThreadInv, NEW p \in Copied, \A t \in Threads : At(t, "idle"),
         NEW c \in base[p]..count, MirrorsFrom(p, c)
  PROVE  \A i \in 0..Len(updates) : \E d \in c..count : BroughtTo(p, c, i, d)
<1> DEFINE P == {i \in 0..Len(updates) : \E d \in c..count : BroughtTo(p, c, i, d)}
<1>1. /\ count \in Nat /\ base[p] \in 0..count
      /\ DOMAIN updates = 1..Len(updates) /\ Len(updates) \in Nat
      /\ \A j \in 1..Len(updates) : updates[j].log \in 1..count
  BY PageFacts
<1>2. 0 \in P
  <2>1. BroughtTo(p, c, 0, c)
    BY <1>1 DEF BroughtTo, MirrorsFrom
  <2>2. c \in c..count
    BY <1>1
  <2> QED
    BY <1>1, <2>1, <2>2
<1>3. \A k \in 1..Len(updates) : k - 1 \in P => k \in P
  <2> TAKE k \in 1..Len(updates)
  <2> HAVE k - 1 \in P
  <2>1. PICK d \in c..count : BroughtTo(p, c, k - 1, d)
    OBVIOUS
  <2>2. \E e \in c..count : BroughtTo(p, c, k, e)
    BY <1>1, <2>1, BroughtToNext
  <2> QED
    BY <1>1, <2>2
<1>4. P = 0..Len(updates)
  <2>1. P \in SUBSET (0..Len(updates))
    OBVIOUS
  <2> HIDE DEF P
  <2> QED
    BY <1>1, <1>2, <1>3, <2>1, UpTo
<1> QED
  BY <1>4

\* The list after the first i updates.
IsAfter(f, p) ==
  f = [i \in 0..Len(updates) |->
         IF i = 0 THEN view[p]
         ELSE IF updates[i].page = p THEN Updated(f[i - 1], updates[i]) ELSE f[i - 1]]

LEMMA AfterUpdatesAreLogs ==
  ASSUME LogTypeInv, ThreadInv, NEW p \in Copied, \A t \in Threads : At(t, "idle"), Mirrors(p),
         \A i \in 1..Len(updates) : updates[i].page = p => updates[i].log > Oldest
  PROVE  AfterUpdates(p) = Logs
<1>1. /\ count \in Nat /\ base[p] \in 0..count /\ kLogSize \in Nat \ {0}
      /\ DOMAIN updates = 1..Len(updates) /\ Len(updates) \in Nat
      /\ \A j \in 1..Len(updates) : updates[j].log \in 1..count
  BY PageFacts
<1>2. PICK c \in base[p]..count : MirrorsFrom(p, c)
  BY DEF Mirrors
<1> DEFINE m == Len(updates)
           D(i) == CHOOSE d \in c..count : BroughtTo(p, c, i, d)
           g == [i \in 0..m |-> LogsAt(D(i))]
<1>3. \A i \in 0..m : D(i) \in c..count /\ BroughtTo(p, c, i, D(i))
  BY <1>2, BroughtToSome
<1>4. \A i \in 0..m, d \in c..count : BroughtTo(p, c, i, d) => D(i) = d
  BY <1>2, <1>3, BroughtToOne
<1> HIDE DEF D
<1>5. D(0) = c /\ D(m) = count
  <2>1. c \in c..count /\ count \in c..count /\ 0 \in 0..m /\ m \in 0..m
    BY <1>1
  <2>2. BroughtTo(p, c, 0, c)
    BY <1>1, <1>2 DEF BroughtTo, MirrorsFrom
  <2>3. BroughtTo(p, c, m, count)
    BY <1>1 DEF BroughtTo
  <2> QED
    BY <1>4, <2>1, <2>2, <2>3
<1>6. g[0] = view[p]
  BY <1>1, <1>2, <1>5 DEF MirrorsFrom
<1>7. ASSUME NEW i \in 1..m
      PROVE  /\ updates[i].page = p => g[i] = Updated(g[i - 1], updates[i])
             /\ updates[i].page # p => g[i] = g[i - 1]
  <2>1. i \in 0..m /\ i - 1 \in 0..m /\ i \in DOMAIN updates
    BY <1>1
  <2>2. D(i - 1) \in c..count /\ BroughtTo(p, c, i - 1, D(i - 1))
    BY <1>3, <2>1
  <2>3. g[i] = LogsAt(D(i)) /\ g[i - 1] = LogsAt(D(i - 1))
    BY <2>1
  <2>4. CASE updates[i].page # p
    <3>1. BroughtTo(p, c, i, D(i - 1))
      BY <1>2, <2>1, <2>2, <2>4, BroughtToNext
    <3>2. D(i) = D(i - 1)
      BY <1>4, <2>1, <2>2, <3>1
    <3> QED
      BY <2>3, <2>4, <3>2
  <2>5. CASE updates[i].page = p
    <3>1. /\ updates[i].log = D(i - 1) + 1
          /\ D(i - 1) + 1 \in c..count
          /\ BroughtTo(p, c, i, D(i - 1) + 1)
      BY <1>2, <2>1, <2>2, <2>5, BroughtToNext
    <3>2. D(i) = D(i - 1) + 1
      BY <1>4, <2>1, <3>1
    <3>3. updates[i].type = Expected(D(i - 1) + 1)
      BY <1>2, <2>1, <2>5, <3>1 DEF MirrorsFrom
    <3>4. D(i - 1) \in Nat /\ Oldest \in Nat
      BY <1>1, <2>2 DEF Oldest
    <3>5. D(i - 1) + 1 \in (Oldest + 1)..count
      BY <1>1, <2>5, <3>1, <3>4
    <3>6. Updated(LogsAt(D(i - 1)), updates[i]) = LogsAt(D(i - 1) + 1)
      BY <1>1, <3>1, <3>3, <3>4, <3>5, UpdatedNext
    <3> QED
      BY <2>3, <2>5, <3>2, <3>6
  <2> QED
    BY <2>4, <2>5
<1>8. IsAfter(g, p)
  <2> DEFINE h == [i \in 0..m |->
                     IF i = 0 THEN view[p]
                     ELSE IF updates[i].page = p THEN Updated(g[i - 1], updates[i]) ELSE g[i - 1]]
  <2> HIDE DEF g
  <2>1. \A i \in 0..m : h[i] = g[i]
    <3> TAKE i \in 0..m
    <3>1. CASE i = 0
      <4>1. h[i] = view[p]
        BY <3>1
      <4> QED
        BY <1>6, <3>1, <4>1
    <3>2. CASE i # 0
      <4>1. i \in 1..m
        BY <1>1, <3>2
      <4> QED
        BY <1>7, <3>2, <4>1
    <3> QED
      BY <3>1, <3>2
  <2>2. h = [i \in 0..m |-> h[i]]
    OBVIOUS
  <2>3. g = [i \in 0..m |-> g[i]]
    BY DEF g
  <2>4. g = h
    BY <2>1, <2>2, <2>3
  <2> QED
    BY <2>4 DEF IsAfter
<1> DEFINE after == CHOOSE f : IsAfter(f, p)
<1>9. IsAfter(after, p)
  BY <1>8
<1>10. AfterUpdates(p) = after[m]
  BY DEF AfterUpdates, IsAfter
<1> HIDE DEF after, g
<1>11. after[0] = view[p]
  <2>1. 0 \in 0..m
    BY <1>1
  <2> QED
    BY <1>9, <2>1 DEF IsAfter
<1>12. ASSUME NEW i \in 1..m
       PROVE  /\ updates[i].page = p => after[i] = Updated(after[i - 1], updates[i])
              /\ updates[i].page # p => after[i] = after[i - 1]
  <2>1. i \in 0..m /\ i # 0
    BY <1>1
  <2>2. after[i] = IF i = 0 THEN view[p]
                   ELSE IF updates[i].page = p THEN Updated(after[i - 1], updates[i]) ELSE after[i - 1]
    BY <1>9, <2>1 DEF IsAfter
  <2> QED
    BY <2>1, <2>2
<1> DEFINE P == {i \in 0..m : after[i] = g[i]}
<1>13. P = 0..m
  <2>1. 0 \in P
    BY <1>1, <1>6, <1>11
  <2>2. \A k \in 1..m : k - 1 \in P => k \in P
    <3> TAKE k \in 1..m
    <3> HAVE k - 1 \in P
    <3>1. after[k - 1] = g[k - 1] /\ k \in 0..m
      BY <1>1
    <3>2. CASE updates[k].page = p
      <4>1. after[k] = Updated(after[k - 1], updates[k])
        BY <1>12, <3>2
      <4>2. g[k] = Updated(g[k - 1], updates[k])
        BY <1>7, <3>2
      <4> QED
        BY <3>1, <4>1, <4>2
    <3>3. CASE updates[k].page # p
      <4>1. after[k] = after[k - 1] /\ g[k] = g[k - 1]
        BY <1>7, <1>12, <3>3
      <4> QED
        BY <3>1, <4>1
    <3> QED
      BY <3>1, <3>2, <3>3
  <2>3. P \in SUBSET (0..m)
    OBVIOUS
  <2> HIDE DEF P
  <2> QED
    BY <1>1, <2>1, <2>2, <2>3, UpTo
<1>14. m \in 0..m
  BY <1>1
<1>15. after[m] = g[m]
  BY <1>13, <1>14
<1>16. g[m] = LogsAt(count)
  BY <1>5, <1>14 DEF g
<1> QED
  BY <1>1, <1>10, <1>15, <1>16, LogsIsLogsAt

LEMMA IInvImpliesLogInv ==
  ASSUME IInv
  PROVE  LogInv
<1>1. LogTypeInv /\ ThreadInv /\ \A p \in Copied \ disturbed : Mirrors(p)
  BY DEF IInv
<1>2. TypeOK
  <2>1. count \in 0..MaxLogs
    BY <1>1, PushingCounted, LogAssumption DEF LogTypeInv
  <2> QED
    BY <1>1, <2>1 DEF LogTypeInv, TypeOK
<1>3. ViewIsBuffer
  BY <1>1, AfterUpdatesAreLogs DEF ViewIsBuffer, Copied
<1> QED
  BY <1>2, <1>3 DEF LogInv

-----------------------------------------------------------------------------
(* Theorems                                                                *)

\* addLog(), the lambda of onCollectionChanged() and the life of a page keep the
\* inductive invariant.
THEOREM IInvCorrect == Spec => []IInv
<1>1. Init => IInv
  BY IInvInit
<1>2. IInv /\ [Next]_vars => IInv'
  BY IInvStep
<1> QED
  BY <1>1, <1>2, PTL DEF Spec

\* With the updates that are under way, an open page of logs shows the buffer:
\* for any number of threads, pages and logs and any size of the buffer.
THEOREM LogInvCorrect == Spec => []LogInv
<1>1. IInv => LogInv
  BY IInvImpliesLogInv
<1> QED
  BY <1>1, IInvCorrect, PTL

-----------------------------------------------------------------------------
(* The settings window                                                     *)

Tags == PageTypes \cup {NoPageType}

Windows == [current : Tags, back : Seq(PageTypes), forward : Seq(PageTypes), selected : Tags]

Alternates(h) == \A i \in 2..Len(h) : h[i] # h[i - 1]

SettingsInv ==
  /\ settings \in Windows
  /\ settings.current = NoPageType => settings.back = <<>> /\ settings.forward = <<>>
  /\ settings.selected = settings.current
  /\ Alternates(History(settings))

\* The handlers that call each other only select the item of the page.
LEMMA NavigatedSelects ==
  ASSUME NEW f \in Windows
  PROVE  RootFrameNavigated(f) = [f EXCEPT !.selected = f.current]
BY DEF Windows, RootFrameNavigated, NavigateTo

LEMMA PagesAssociate ==
  \A s, t, u \in Seq(PageTypes) : (s \o t) \o u = s \o (t \o u)
<1> SUFFICES ASSUME NEW s \in Seq(PageTypes), NEW t \in Seq(PageTypes), NEW u \in Seq(PageTypes)
             PROVE  (s \o t) \o u = s \o (t \o u)
  OBVIOUS
<1> QED
  BY ConcatAssociative

\* Going back takes the page that is shown to the way forward ...
LEMMA BackKeeps ==
  ASSUME NEW f \in Windows, f.back # <<>>, f.current \in PageTypes
  PROVE  GoBack(f) \in Windows /\ GoBack(f).current \in PageTypes /\ History(GoBack(f)) = History(f)
<1> DEFINE b == f.back
           n == Len(f.back)
<1>1. /\ b \in Seq(PageTypes) /\ n \in Nat /\ n >= 1
      /\ f.forward \in Seq(PageTypes) /\ <<f.current>> \in Seq(PageTypes)
  BY EmptySeq, LenProperties DEF Windows
<1>2. b[n] \in PageTypes /\ <<b[n]>> \in Seq(PageTypes)
  BY <1>1, ElementOfSeq
<1>3. SubSeq(b, 1, n - 1) \in Seq(PageTypes)
  BY <1>1, WithoutLast
<1>4. b = SubSeq(b, 1, n - 1) \o <<b[n]>>
  <2>1. SubSeq(b, 1, n) = b
    BY <1>1, SubSeqFull
  <2>2. SubSeq(b, 1, n) = SubSeq(b, 1, n - 1) \o <<b[n]>>
    BY <1>1, SubSeqRecursiveSecond
  <2> QED
    BY <2>1, <2>2
<1>5. GoBack(f) = [f EXCEPT !.current = b[n], !.back = SubSeq(b, 1, n - 1),
                            !.forward = <<f.current>> \o f.forward]
  BY DEF GoBack, Last, Front, Windows
<1>6. <<f.current>> \o f.forward \in Seq(PageTypes)
  BY <1>1, ConcatProperties
<1>7. /\ GoBack(f).current = b[n] /\ GoBack(f).back = SubSeq(b, 1, n - 1)
      /\ GoBack(f).forward = <<f.current>> \o f.forward /\ GoBack(f).selected = f.selected
      /\ GoBack(f) \in Windows
  BY <1>2, <1>3, <1>5, <1>6 DEF Windows, Tags
<1>8. History(GoBack(f)) = (SubSeq(b, 1, n - 1) \o <<b[n]>>) \o (<<f.current>> \o f.forward)
  BY <1>7 DEF History
<1>9. History(f) = (b \o <<f.current>>) \o f.forward
  BY DEF History
<1>10. (b \o <<f.current>>) \o f.forward = b \o (<<f.current>> \o f.forward)
  BY <1>1, PagesAssociate, Zenon
<1> QED
  BY <1>2, <1>4, <1>7, <1>8, <1>9, <1>10

\* ... and going forward takes it to the way back.
LEMMA ForwardKeeps ==
  ASSUME NEW f \in Windows, f.forward # <<>>, f.current \in PageTypes
  PROVE  GoForward(f) \in Windows /\ GoForward(f).current \in PageTypes /\ History(GoForward(f)) = History(f)
<1> DEFINE w == f.forward
<1>1. /\ w \in Seq(PageTypes) /\ f.back \in Seq(PageTypes) /\ <<f.current>> \in Seq(PageTypes)
  BY DEF Windows
<1>2. /\ Head(w) \in PageTypes /\ Tail(w) \in Seq(PageTypes) /\ <<Head(w)>> \in Seq(PageTypes)
  BY <1>1, HeadTailProperties
<1>3. w = <<Head(w)>> \o Tail(w)
  <2>1. Len(w) \in Nat /\ Len(w) >= 1
    BY <1>1, EmptySeq, LenProperties
  <2>2. SubSeq(w, 1, Len(w)) = <<w[1]>> \o SubSeq(w, 1 + 1, Len(w))
    BY <1>1, <2>1, SubSeqRecursiveFirst
  <2>3. SubSeq(w, 1, Len(w)) = w
    BY <1>1, SubSeqFull
  <2>4. Tail(w) = SubSeq(w, 2, Len(w)) /\ Head(w) = w[1]
    BY <1>1, TailIsSubSeq
  <2> QED
    BY <2>2, <2>3, <2>4
<1>4. Append(f.back, f.current) = f.back \o <<f.current>> /\ Append(f.back, f.current) \in Seq(PageTypes)
  BY <1>1, AppendIsConcat, AppendProperties
<1>5. /\ GoForward(f).current = Head(w) /\ GoForward(f).back = Append(f.back, f.current)
      /\ GoForward(f).forward = Tail(w)
      /\ GoForward(f) \in Windows
  BY <1>2, <1>4 DEF GoForward, Windows, Tags
<1>6. History(GoForward(f)) = ((f.back \o <<f.current>>) \o <<Head(w)>>) \o Tail(w)
  BY <1>4, <1>5 DEF History
<1>7. f.back \o <<f.current>> \in Seq(PageTypes)
  BY <1>1, ConcatProperties
<1>8. History(GoForward(f)) = (f.back \o <<f.current>>) \o (<<Head(w)>> \o Tail(w))
  BY <1>2, <1>6, <1>7, PagesAssociate, Zenon
<1> QED
  BY <1>2, <1>3, <1>5, <1>8 DEF History

\* A navigation to another page follows what one could go back to.
LEMMA NavigateAlternates ==
  ASSUME NEW f \in Windows, Alternates(History(f)), NEW type \in PageTypes, type # f.current,
         f.current = NoPageType => f.back = <<>>
  PROVE  /\ Navigate(f, type) \in Windows
         /\ Navigate(f, type).current = type
         /\ Alternates(History(Navigate(f, type)))
<1>1. /\ f.back \in Seq(PageTypes) /\ f.forward \in Seq(PageTypes) /\ <<type>> \in Seq(PageTypes)
      /\ f.current \in Tags
  BY DEF Windows
<1>2. CASE f.current = NoPageType
  <2>1. /\ Navigate(f, type).current = type /\ Navigate(f, type).back = <<>>
        /\ Navigate(f, type).forward = <<>> /\ Navigate(f, type) \in Windows
    BY <1>1, <1>2, EmptySeq DEF Navigate, Windows, Tags
  <2>2. History(Navigate(f, type)) = <<type>>
    <3>1. <<>> \o <<type>> = <<type>> /\ <<type>> \o <<>> = <<type>>
      BY <1>1, ConcatEmptySeq
    <3> QED
      BY <2>1, <3>1 DEF History
  <2>3. Alternates(<<type>>)
    BY DEF Alternates
  <2> QED
    BY <2>1, <2>2, <2>3
<1>3. CASE f.current \in PageTypes
  <2> DEFINE b == f.back \o <<f.current>>
             n == Len(f.back)
  <2>0. <<f.current>> \in Seq(PageTypes) /\ Len(<<f.current>>) = 1 /\ f.current # NoPageType
    <3>1. NoPageType \notin PageTypes
      BY DEF PageTypes, NoPageType
    <3> QED
      BY <1>3, <3>1
  <2>1. /\ Append(f.back, f.current) = b /\ b \in Seq(PageTypes) /\ n \in Nat
        /\ Len(b) = n + 1
        /\ b[n + 1] = f.current
    BY <1>1, <1>3, <2>0, AppendIsConcat, AppendProperties, LenProperties
  <2>2. /\ Navigate(f, type).current = type /\ Navigate(f, type).back = b
        /\ Navigate(f, type).forward = <<>> /\ Navigate(f, type) \in Windows
    BY <1>1, <1>3, <2>0, <2>1, EmptySeq DEF Navigate, Windows, Tags
  <2> HIDE DEF b, n
  <2>3. b \o <<type>> \in Seq(PageTypes)
    BY <1>1, <2>1, ConcatProperties
  <2>4. History(Navigate(f, type)) = b \o <<type>>
    <3>1. (b \o <<type>>) \o <<>> = b \o <<type>>
      BY <2>3, ConcatEmptySeq
    <3> QED
      BY <2>2, <3>1 DEF History
  <2>5. /\ Len(b \o <<type>>) = n + 2
        /\ \A i \in 1..(n + 2) : (b \o <<type>>)[i] = IF i <= n + 1 THEN b[i] ELSE type
    <3>1. /\ Len(b \o <<type>>) = Len(b) + Len(<<type>>)
          /\ \A i \in 1..(Len(b) + Len(<<type>>)) :
               (b \o <<type>>)[i] = IF i <= Len(b) THEN b[i] ELSE <<type>>[i - Len(b)]
      BY <1>1, <2>1, ConcatProperties
    <3>2. Len(<<type>>) = 1 /\ <<type>>[1] = type
      OBVIOUS
    <3> QED
      BY <2>1, <3>1, <3>2
  <2>6. /\ Len(History(f)) >= n + 1 /\ Len(History(f)) \in Nat
        /\ \A i \in 1..(n + 1) : History(f)[i] = b[i]
    <3>1. /\ b \o f.forward \in Seq(PageTypes)
          /\ Len(b \o f.forward) = Len(b) + Len(f.forward)
          /\ \A i \in 1..(Len(b) + Len(f.forward)) :
               (b \o f.forward)[i] = IF i <= Len(b) THEN b[i] ELSE f.forward[i - Len(b)]
      BY <1>1, <2>1, ConcatProperties
    <3>2. Len(f.forward) \in Nat
      BY <1>1, LenProperties
    <3>3. History(f) = b \o f.forward
      BY DEF History, b
    <3> QED
      BY <2>1, <3>1, <3>2, <3>3
  <2>7. \A i \in 2..(n + 1) : b[i] # b[i - 1]
    <3> TAKE i \in 2..(n + 1)
    <3>1. i \in 2..Len(History(f)) /\ i \in 1..(n + 1) /\ i - 1 \in 1..(n + 1)
      BY <2>1, <2>6
    <3> QED
      BY <2>6, <3>1 DEF Alternates
  <2>8. Alternates(b \o <<type>>)
    <3> SUFFICES ASSUME NEW i \in 2..(n + 2)
                 PROVE  (b \o <<type>>)[i] # (b \o <<type>>)[i - 1]
      BY <2>5 DEF Alternates
    <3>1. CASE i <= n + 1
      BY <2>1, <2>5, <2>7, <3>1
    <3>2. CASE i = n + 2
      BY <2>1, <2>5, <3>2
    <3> QED
      BY <2>1, <3>1, <3>2
  <2> QED
    BY <2>2, <2>4, <2>8
<1> QED
  BY <1>1, <1>2, <1>3 DEF Tags

LEMMA SelectedKeeps ==
  ASSUME NEW g \in Windows, g.current \in PageTypes, Alternates(History(g)),
         settings' = RootFrameNavigated(g)
  PROVE  SettingsInv' /\ History(settings') = History(g)
<1>1. settings' = [g EXCEPT !.selected = g.current]
  BY NavigatedSelects
<1>2. /\ settings' \in Windows /\ settings'.selected = settings'.current
      /\ settings'.current = g.current /\ settings'.back = g.back /\ settings'.forward = g.forward
  BY <1>1 DEF Windows
<1>3. History(settings') = History(g)
  BY <1>2 DEF History
<1>4. settings'.current # NoPageType
  BY <1>2 DEF PageTypes, NoPageType
<1> QED
  BY <1>2, <1>3, <1>4 DEF SettingsInv

\* Navigating to a page, whatever is selected meanwhile.
LEMMA NavigatedKeeps ==
  ASSUME NEW f \in Windows, Alternates(History(f)), NEW type \in PageTypes,
         f.current = NoPageType => f.back = <<>>,
         settings' = RootFrameNavigated(NavigateTo(f, type))
  PROVE  SettingsInv'
<1>1. CASE f.current = type
  BY <1>1, SelectedKeeps DEF NavigateTo
<1>2. CASE f.current # type
  BY <1>2, NavigateAlternates, SelectedKeeps DEF NavigateTo
<1> QED
  BY <1>1, <1>2

LEMMA BackOrForwardKeeps ==
  ASSUME SettingsInv, TryGoBack \/ TryGoForward
  PROVE  SettingsInv' /\ History(settings') = History(settings)
<1>1. settings \in Windows /\ settings.current \in PageTypes /\ Alternates(History(settings))
  BY DEF SettingsInv, Windows, Tags, TryGoBack, TryGoForward
<1>2. CASE TryGoBack
  BY <1>1, <1>2, BackKeeps, SelectedKeeps DEF TryGoBack
<1>3. CASE TryGoForward
  BY <1>1, <1>3, ForwardKeeps, SelectedKeeps DEF TryGoForward
<1> QED
  BY <1>2, <1>3

LEMMA ClosedWindow == Closed \in Windows /\ Alternates(History(Closed))
<1>1. Closed \in Windows
  BY EmptySeq DEF Closed, Windows, Tags
<1>2. History(Closed) = <<NoPageType>>
  <2>1. <<NoPageType>> \in Seq(Tags)
    BY DEF Tags
  <2>2. <<>> \o <<NoPageType>> = <<NoPageType>> /\ <<NoPageType>> \o <<>> = <<NoPageType>>
    BY <2>1, ConcatEmptySeq
  <2> QED
    BY <2>2 DEF History, Closed
<1>3. Alternates(<<NoPageType>>)
  BY DEF Alternates
<1> QED
  BY <1>1, <1>2, <1>3

LEMMA SettingsInvStep ==
  ASSUME SettingsInv, [Next]_vars
  PROVE  SettingsInv'
<1>1. settings \in Windows /\ Alternates(History(settings))
      /\ (settings.current = NoPageType => settings.back = <<>>)
  BY DEF SettingsInv
<1>2. CASE UNCHANGED settings
  BY <1>2 DEF SettingsInv
<1>3. CASE ShowSettings
  BY <1>1, <1>3, NavigatedKeeps DEF ShowSettings, PageTypes
<1>4. ASSUME NEW type \in PageTypes, SelectItem(type)
      PROVE  SettingsInv'
  <2> DEFINE f == [settings EXCEPT !.selected = type]
  <2>1. /\ f \in Windows /\ f.current = settings.current /\ f.back = settings.back
        /\ f.forward = settings.forward
    BY <1>1 DEF Windows, Tags
  <2>2. History(f) = History(settings)
    BY <2>1 DEF History
  <2>3. settings' = RootFrameNavigated(NavigateTo(f, type))
    BY <1>4 DEF SelectItem
  <2> HIDE DEF f
  <2> QED
    BY <1>1, <2>1, <2>2, <2>3, NavigatedKeeps
<1>5. CASE TryGoBack \/ TryGoForward
  BY <1>5, BackOrForwardKeeps
<1>6. CASE CloseSettings
  <2>1. settings' = Closed
    BY <1>6 DEF CloseSettings
  <2> QED
    BY <2>1, ClosedWindow DEF SettingsInv, Closed
<1>7. CASE SettingsNext
  BY <1>3, <1>4, <1>5, <1>6, <1>7 DEF SettingsNext
<1>8. [SettingsNext]_settings
  BY DEF Next, UiThread, AddLog, BeginPush, EndPush, BeginNotify, EndNotify, BeginCopy, EndCopy,
         AddListener, ClosePage, RunUpdate, vars
<1> QED
  BY <1>2, <1>7, <1>8

\* The handlers of the settings window that call each other select the page that
\* is shown, navigate once, and lose nothing of the history on the way back.
THEOREM HistoryKeptCorrect == Spec => HistoryKept
<1>1. Init => SettingsInv
  BY ClosedWindow DEF Init, SettingsInit, SettingsInv, Closed
<1>2. SettingsInv /\ [Next]_vars => SettingsInv'
  BY SettingsInvStep
<1>3. SettingsInv => /\ settings.selected = settings.current
                     /\ \A i \in 2..Len(History(settings)) : History(settings)[i] # History(settings)[i - 1]
  BY DEF SettingsInv, Alternates
<1>4. SettingsInv => [TryGoBack \/ TryGoForward => History(settings') = History(settings)]_settings
  BY BackOrForwardKeeps
<1> QED
  BY <1>1, <1>2, <1>3, <1>4, PTL DEF Spec, HistoryKept

=============================================================================
