------------------------- MODULE RuleEditor_proofs --------------------------
(***************************************************************************)
(* Proofs about module RuleEditor.                                          *)
(***************************************************************************)
EXTENDS RuleEditor, SequenceTheorems, FiniteSetTheorems, WellFoundedInduction, TLAPS

FilterValues == [match : StringMatchTypes, text : Seq(Characters)]
RuleValues ==
  [filter : [FilterKeys -> FilterValues], triggers : SUBSET TriggerFlags, type : ActionTypes]
FilterViews == [key : FilterKeys, value : FilterValues, pending : BOOLEAN]

\* The view model of an action: one number for each field of its type.
IsActionView(a) ==
  a \in [type : ActionTypes, bounds : [FieldsOf(a.type) -> Int], shown : [FieldsOf(a.type) -> Int],
         dirty : SUBSET FieldsOf(a.type), pending : BOOLEAN]

ShownKeys(filters) == {filters[j].key : j \in DOMAIN filters}

\* The view model of a rule is well formed: each key is shown at most once,
\* those that are not shown are offered in their order.
IsRuleView(vm) ==
  /\ vm \in [action : {vm.action}, filters : Seq(FilterViews), unused : Seq(FilterKeys),
             deleting : SUBSET FilterKeys, triggers : SUBSET TriggerFlags, triggersPending : BOOLEAN]
  /\ IsActionView(vm.action)
  /\ \A j, k \in DOMAIN vm.filters : vm.filters[j].key = vm.filters[k].key => j = k
  /\ vm.unused = Selected(kAllFilterKey, FilterKeys \ ShownKeys(vm.filters))
  /\ Len(vm.filters) + Len(vm.unused) = 3

\* The numbers of a view model are in the limits of its type.
NumbersInRange(a) == \A f \in FieldsOf(a.type) : InRange(a.type, f, a.shown[f]) \/ (f = "id" /\ a.shown[f] = 0)

\* What is not pending is what the rule in memory and its node have.
Shows(vm, rule, node) ==
  LET action == vm.action IN
    /\ action.type = rule.type
    /\ ReadsAction(node.type, node.fields)
    /\ action.bounds = ReadAction(node.type, node.fields)
    /\ NumbersInRange(action)
    /\ \A f \in DOMAIN action.shown \ action.dirty : action.shown[f] = action.bounds[f]
    /\ action.dirty # {} => action.pending
    /\ \A f \in Range(vm.filters) : (f.pending \/ f.value = rule.filter[f.key]) /\ (f.key \in vm.deleting => f.pending)
    /\ \A k \in ToSet(vm.unused) \ vm.deleting : rule.filter[k] = NoFilter
    /\ vm.triggersPending \/ vm.triggers = rule.triggers

\* A rule in memory is what its node says.
Agrees(rule, node) ==
  /\ rule \in RuleValues
  /\ rule.type = node.type
  /\ rule.triggers = ReadTriggerFlags(node.when)
  /\ \A k \in FilterKeys : ReadFilter(node.where)[k] = rule.filter[k] \/ Ambiguous(rule.filter[k])

IsDocument(nodes) ==
  /\ DOMAIN nodes \subseteq Nat
  /\ \A i \in DOMAIN nodes : IsNode(nodes[i])

DocInv ==
  /\ IsDocument(file) /\ IsDocument(doc) /\ DOMAIN doc = DOMAIN file
  /\ life \in {"off", "run", "terminated", "crashed"}
  /\ edits \in 0..MaxEdits /\ unsaved \subseteq {"type", "failed"}

RulesInv ==
  /\ life # "off" => DOMAIN rules = Readable(doc)
  /\ life = "off" => rules = <<>>
  /\ \A i \in DOMAIN rules : Agrees(rules[i], doc[i])

PageInv ==
  /\ life = "off" => page = NoPage
  /\ page # NoPage => DOMAIN page = DOMAIN rules
  /\ \A i \in DOMAIN page : IsRuleView(page[i])
  /\ life = "run" => \A i \in DOMAIN page : Shows(page[i], rules[i], doc[i])

\* The document is ahead of the file by a new type at most.
AheadInv ==
  life = "run" /\ unsaved = {} =>
    file = doc \/ \E i \in DOMAIN page : page[i].action.pending /\ <<i, "type">> \in touched

EngineInv ==
  /\ engine = <<>> \/ engine = CompileRule(loaded, ReadRules(loaded))
  /\ IsDocument(loaded)
  /\ DOMAIN engine \subseteq DOMAIN rules

StartInv ==
  /\ loaded # <<>> => CompileError(file, ReadRules(file)) # "ParseError"
  /\ life = "terminated" => loaded = <<>>

IInv == DocInv /\ RulesInv /\ PageInv /\ AheadInv /\ EngineInv /\ StartInv

-----------------------------------------------------------------------------
(* Induction                                                               *)

\* A set of numbers that is not empty has a least one.
LEMMA LeastExists ==
  ASSUME NEW T \in SUBSET Nat, T # {}
  PROVE  \E x \in T : \A y \in T : x <= y
<1>1. \E x \in T : \A y \in T : ~ (<<y, x>> \in OpToRel(<, Nat))
  BY NatLessThanWellFounded, WFMin
<1>2. PICK x \in T : \A y \in T : ~ (<<y, x>> \in OpToRel(<, Nat))
  BY <1>1
<1>3. \A y \in T : ~(y < x)
  BY <1>2 DEF OpToRel
<1> QED
  BY <1>3

LEMMA MinIsLeast ==
  ASSUME NEW T \in SUBSET Nat, T # {}
  PROVE  Min(T) \in T /\ \A y \in T : Min(T) <= y
BY LeastExists DEF Min

\* Induction over the numbers up to n, for a set of those that have a property.
LEMMA UpTo ==
  ASSUME NEW n \in Nat, NEW P \in SUBSET (0..n), 0 \in P,
         \A k \in 1..n : k - 1 \in P => k \in P
  PROVE  P = 0..n
<1> DEFINE T == (0..n) \ P
<1>1. ASSUME T # {}
      PROVE  FALSE
  <2>1. T \in SUBSET Nat
    OBVIOUS
  <2>2. PICK x \in T : \A y \in T : x <= y
    BY <1>1, <2>1, LeastExists
  <2>3. x \in 1..n
    BY <2>2
  <2>4. x - 1 \in P
    BY <2>2, <2>3
  <2> QED
    BY <2>2, <2>3, <2>4
<1> QED
  BY <1>1

-----------------------------------------------------------------------------
(* Selected                                                                *)

\* f[n] is what is selected of the first n elements of s.
IsFirst(f, s, S, last) ==
  f = [n \in 0..last |-> IF n = 0 THEN <<>>
                         ELSE IF s[n] \in S THEN Append(f[n - 1], s[n]) ELSE f[n - 1]]

Grows(f, s, S, last) ==
  /\ f[0] = <<>>
  /\ \A n \in 1..last : s[n] \in S => f[n] = Append(f[n - 1], s[n])
  /\ \A n \in 1..last : s[n] \notin S => f[n] = f[n - 1]

LEMMA FirstAt ==
  ASSUME NEW s, NEW S, NEW last \in Nat, NEW f, IsFirst(f, s, S, last)
  PROVE  Grows(f, s, S, last)
<1> DEFINE g == [n \in 0..last |-> IF n = 0 THEN <<>>
                                  ELSE IF s[n] \in S THEN Append(f[n - 1], s[n]) ELSE f[n - 1]]
<1>1. f = g
  BY DEF IsFirst
<1>2. g[0] = <<>>
  OBVIOUS
<1>3. ASSUME NEW n \in 1..last
      PROVE  g[n] = IF s[n] \in S THEN Append(f[n - 1], s[n]) ELSE f[n - 1]
  <2>1. n \in 0..last /\ n # 0
    OBVIOUS
  <2> QED
    BY <2>1
<1> HIDE DEF g
<1> QED
  BY <1>1, <1>2, <1>3 DEF Grows

LEMMA FirstExists ==
  ASSUME NEW s, NEW S, NEW last \in Nat
  PROVE  \E f : IsFirst(f, s, S, last)
<1> DEFINE P == {n \in 0..last : \E f : IsFirst(f, s, S, n)}
<1>1. 0 \in P
  <2> DEFINE f == [n \in 0..0 |-> <<>>]
  <2>1. IsFirst(f, s, S, 0)
    BY DEF IsFirst
  <2> QED
    BY <2>1
<1>2. ASSUME NEW k \in 1..last, k - 1 \in P
      PROVE  k \in P
  <2>1. PICK f : IsFirst(f, s, S, k - 1)
    BY <1>2
  <2>a. k - 1 \in Nat
    OBVIOUS
  <2>b. /\ f[0] = <<>>
        /\ \A n \in 1..(k - 1) : s[n] \in S => f[n] = Append(f[n - 1], s[n])
        /\ \A n \in 1..(k - 1) : s[n] \notin S => f[n] = f[n - 1]
    <3>1. Grows(f, s, S, k - 1)
      BY <2>1, <2>a, FirstAt
    <3> QED
      BY <3>1 DEF Grows
  <2> DEFINE g == [n \in 0..k |-> IF n = 0 THEN <<>>
                                  ELSE IF s[n] \in S THEN Append(f[n - 1], s[n]) ELSE f[n - 1]]
  <2>2. ASSUME NEW n \in 0..(k - 1)
        PROVE  f[n] = g[n]
    <3>1. n \in 0..k
      BY <1>2
    <3>2. CASE n = 0
      BY <2>b, <3>1, <3>2
    <3>3. CASE n \in 1..(k - 1)
      <4>1. f[n] = IF s[n] \in S THEN Append(f[n - 1], s[n]) ELSE f[n - 1]
        BY <2>b, <3>3
      <4> QED
        BY <3>1, <3>3, <4>1
    <3> QED
      BY <3>2, <3>3
  <2>3. ASSUME NEW n \in 1..k
        PROVE  f[n - 1] = g[n - 1]
    <3>1. n - 1 \in 0..(k - 1)
      BY <1>2
    <3> HIDE DEF g
    <3> QED
      BY <2>2, <3>1
  <2>4. g = [n \in 0..k |-> IF n = 0 THEN <<>>
                            ELSE IF s[n] \in S THEN Append(g[n - 1], s[n]) ELSE g[n - 1]]
    <3> HIDE DEF g
    <3>1. \A n \in 0..k : n = 0 \/ n \in 1..k
      BY <1>2
    <3>2. g = [n \in 0..k |-> IF n = 0 THEN <<>>
                              ELSE IF s[n] \in S THEN Append(f[n - 1], s[n]) ELSE f[n - 1]]
      BY DEF g
    <3> QED
      BY <2>3, <3>1, <3>2
  <2>5. IsFirst(g, s, S, k)
    BY <2>4 DEF IsFirst
  <2> QED
    BY <2>5
<1>3. P = 0..last
  <2> HIDE DEF P
  <2>1. P \in SUBSET (0..last)
    BY DEF P
  <2> QED
    BY <1>1, <1>2, <2>1, UpTo
<1> QED
  BY <1>3

LEMMA ToSetAppend ==
  ASSUME NEW T, NEW s \in Seq(T), NEW e \in T
  PROVE  Append(s, e) \in Seq(T) /\ ToSet(Append(s, e)) = ToSet(s) \cup {e}
<1>1. /\ Append(s, e) \in Seq(T) /\ Len(Append(s, e)) = Len(s) + 1
      /\ \A j \in 1..Len(s) : Append(s, e)[j] = s[j]
      /\ Append(s, e)[Len(s) + 1] = e
  OBVIOUS
<1>2. DOMAIN s = 1..Len(s) /\ DOMAIN Append(s, e) = 1..(Len(s) + 1)
  BY <1>1
<1>3. ASSUME NEW x
      PROVE  x \in ToSet(Append(s, e)) <=> x \in ToSet(s) \cup {e}
  <2>1. \A j \in 1..(Len(s) + 1) : j \in 1..Len(s) \/ j = Len(s) + 1
    OBVIOUS
  <2> QED
    BY <1>1, <1>2, <2>1 DEF ToSet
<1> QED
  BY <1>1, <1>3

LEMMA SelectedIsFirst ==
  ASSUME NEW s, NEW S, Len(s) \in Nat
  PROVE  \E f : IsFirst(f, s, S, Len(s)) /\ Selected(s, S) = f[Len(s)]
<1> DEFINE f == CHOOSE f : f = [n \in 0..Len(s) |->
                  IF n = 0 THEN <<>> ELSE IF s[n] \in S THEN Append(f[n - 1], s[n]) ELSE f[n - 1]]
<1>1. Selected(s, S) = f[Len(s)]
  BY Zenon DEF Selected
<1>2. IsFirst(f, s, S, Len(s))
  <2>1. \E h : h = [n \in 0..Len(s) |->
                 IF n = 0 THEN <<>> ELSE IF s[n] \in S THEN Append(h[n - 1], s[n]) ELSE h[n - 1]]
    <3>1. \E h : IsFirst(h, s, S, Len(s))
      BY FirstExists
    <3> QED
      BY <3>1, Zenon DEF IsFirst
  <2> QED
    BY <2>1, Zenon DEF IsFirst
<1> QED
  BY <1>1, <1>2

\* What is selected is what is both in the sequence and in the set.
LEMMA SelectedElements ==
  ASSUME NEW T, NEW s \in Seq(T), NEW S
  PROVE  Selected(s, S) \in Seq(T) /\ ToSet(Selected(s, S)) = ToSet(s) \cap S
<1>1. PICK f : IsFirst(f, s, S, Len(s)) /\ Selected(s, S) = f[Len(s)]
  BY SelectedIsFirst
<1> DEFINE P == {n \in 0..Len(s) : f[n] \in Seq(T) /\ ToSet(f[n]) = {s[j] : j \in 1..n} \cap S}
<1>a. /\ f[0] = <<>>
      /\ \A n \in 1..Len(s) : s[n] \in S => f[n] = Append(f[n - 1], s[n])
      /\ \A n \in 1..Len(s) : s[n] \notin S => f[n] = f[n - 1]
  <2>1. Len(s) \in Nat
    OBVIOUS
  <2>2. Grows(f, s, S, Len(s))
    BY <1>1, <2>1, FirstAt
  <2> QED
    BY <2>2 DEF Grows
<1>2. 0 \in P
  <2>1. <<>> \in Seq(T) /\ ToSet(<<>>) = {} /\ {s[j] : j \in 1..0} = {}
    BY DEF ToSet
  <2>2. f[0] \in Seq(T) /\ ToSet(f[0]) = {s[j] : j \in 1..0} \cap S
    BY <1>a, <2>1
  <2>3. 0 \in 0..Len(s)
    OBVIOUS
  <2> QED
    BY <2>2, <2>3
<1>3. ASSUME NEW k \in 1..Len(s), k - 1 \in P
      PROVE  k \in P
  <2>1. {s[j] : j \in 1..k} = {s[j] : j \in 1..(k - 1)} \cup {s[k]}
    BY <1>3
  <2>2. CASE s[k] \in S
    <3>1. f[k] = Append(f[k - 1], s[k])
      BY <1>a, <2>2
    <3>2. f[k] \in Seq(T) /\ ToSet(f[k]) = ToSet(f[k - 1]) \cup {s[k]}
      <4>1. f[k - 1] \in Seq(T) /\ s[k] \in T
        BY <1>3
      <4> QED
        BY <3>1, <4>1, ToSetAppend
    <3> QED
      BY <1>3, <2>1, <2>2, <3>2
  <2>3. CASE s[k] \notin S
    <3>1. f[k] = f[k - 1]
      BY <1>a, <2>3
    <3> QED
      BY <1>3, <2>1, <2>3, <3>1
  <2> QED
    BY <2>2, <2>3
<1>4. Len(s) \in P
  <2> HIDE DEF P
  <2>1. P \in SUBSET (0..Len(s))
    BY DEF P
  <2> QED
    BY <1>2, <1>3, <2>1, UpTo
<1> QED
  BY <1>1, <1>4 DEF ToSet

Only(k, S) == IF k \in S THEN <<k>> ELSE <<>>

\* The keys of a set in the order of the enumeration.
LEMMA SelectedKeys ==
  ASSUME NEW S
  PROVE  Selected(kAllFilterKey, S) = Only("process", S) \o Only("class", S) \o Only("title", S)
<1> DEFINE s == kAllFilterKey
<1>1. Len(s) = 3 /\ s[1] = "process" /\ s[2] = "class" /\ s[3] = "title"
  BY DEF kAllFilterKey
<1>2. PICK f : IsFirst(f, s, S, 3) /\ Selected(s, S) = f[3]
  <2>1. Len(s) \in Nat
    BY <1>1
  <2>2. PICK f : IsFirst(f, s, S, Len(s)) /\ Selected(s, S) = f[Len(s)]
    BY <2>1, SelectedIsFirst
  <2> QED
    BY <1>1, <2>2
<1>3. /\ f[0] = <<>>
      /\ f[1] = IF s[1] \in S THEN Append(f[0], s[1]) ELSE f[0]
      /\ f[2] = IF s[2] \in S THEN Append(f[1], s[2]) ELSE f[1]
      /\ f[3] = IF s[3] \in S THEN Append(f[2], s[3]) ELSE f[2]
  <2>1. /\ f[0] = <<>>
        /\ \A n \in 1..3 : s[n] \in S => f[n] = Append(f[n - 1], s[n])
        /\ \A n \in 1..3 : s[n] \notin S => f[n] = f[n - 1]
    <3>1. 3 \in Nat
      OBVIOUS
    <3>2. Grows(f, s, S, 3)
      BY <1>2, <3>1, FirstAt
    <3> QED
      BY <3>2 DEF Grows
  <2>2. 1 \in 1..3 /\ 2 \in 1..3 /\ 3 \in 1..3 /\ 1 - 1 = 0 /\ 2 - 1 = 1 /\ 3 - 1 = 2
    OBVIOUS
  <2>3. \A n \in 1..3 : f[n] = IF s[n] \in S THEN Append(f[n - 1], s[n]) ELSE f[n - 1]
    BY <2>1
  <2> HIDE DEF s
  <2> QED
    BY <2>1, <2>2, <2>3
<1>4. f[1] = Only("process", S)
  BY <1>1, <1>3 DEF Only
<1>5. f[2] = Only("process", S) \o Only("class", S)
  <2>1. CASE "class" \in S
    BY <1>1, <1>3, <1>4, <2>1 DEF Only
  <2>2. CASE "class" \notin S
    <3>1. f[2] = f[1]
      BY <1>1, <1>3, <2>2
    <3>2. Only("class", S) = <<>> /\ Only("process", S) \in Seq({"process"})
      <4>1. <<"process">> \in Seq({"process"}) /\ <<>> \in Seq({"process"})
        OBVIOUS
      <4> QED
        BY <2>2, <4>1 DEF Only
    <3>3. Only("process", S) \o <<>> = Only("process", S)
      BY <3>2
    <3> QED
      BY <1>4, <3>1, <3>2, <3>3
  <2> QED
    BY <2>1, <2>2
<1>6. f[3] = Only("process", S) \o Only("class", S) \o Only("title", S)
  BY <1>1, <1>3, <1>5 DEF Only
<1> QED
  BY <1>2, <1>6

-----------------------------------------------------------------------------
(* Patterns                                                                *)

\* The two ends of s, which is the text t with its markers.
Marked(s, p, t, q) ==
  /\ s \in Seq(Characters)
  /\ Len(s) = Len(p) + Len(t) + Len(q)
  /\ SubSeq(s, Len(p) + 1, Len(p) + Len(t)) = t
  /\ s # <<>> => Head(s) = IF p # <<>> THEN "^" ELSE IF t # <<>> THEN Head(t) ELSE "$"
  /\ s # <<>> => Last(s) = IF q # <<>> THEN "$" ELSE IF t # <<>> THEN Last(t) ELSE "^"

LEMMA MarkedText ==
  ASSUME NEW t \in Seq(Characters), NEW p \in {<<>>, <<"^">>}, NEW q \in {<<>>, <<"$">>},
         NEW s, s = p \o t \o q
  PROVE  Marked(s, p, t, q)
<1>1. p \in Seq(Characters) /\ q \in Seq(Characters)
  <2>1. \A x \in Characters : <<>> \in Seq(Characters) /\ <<x>> \in Seq(Characters)
    OBVIOUS
  <2>2. "^" \in Characters /\ "$" \in Characters
    BY EditorAssumption
  <2> QED
    BY <2>1, <2>2
<1>2. p = <<>> \/ (p = <<"^">> /\ Len(p) = 1 /\ p[1] = "^")
  OBVIOUS
<1>3. q = <<>> \/ (q = <<"$">> /\ Len(q) = 1 /\ q[1] = "$")
  OBVIOUS
<1>4. /\ s \in Seq(Characters) /\ Len(s) = Len(p) + Len(t) + Len(q)
      /\ \A i \in 1..Len(p) : s[i] = p[i]
      /\ \A i \in 1..Len(t) : s[Len(p) + i] = t[i]
      /\ \A i \in 1..Len(q) : s[Len(p) + Len(t) + i] = q[i]
  BY <1>1
<1>5. Len(p) \in Nat /\ Len(t) \in Nat /\ Len(q) \in Nat
  BY <1>1
<1>6. SubSeq(s, Len(p) + 1, Len(p) + Len(t)) = t
  <2> DEFINE u == SubSeq(s, Len(p) + 1, Len(p) + Len(t))
  <2>1. u \in Seq(Characters) /\ Len(u) = Len(t) /\ \A i \in 1..Len(t) : u[i] = s[Len(p) + i]
    BY <1>4, <1>5
  <2>2. \A i \in 1..Len(t) : u[i] = t[i]
    BY <1>4, <2>1
  <2> HIDE DEF u
  <2>3. u = t
    BY <2>1, <2>2, SeqEqual
  <2> QED
    BY <2>3 DEF u
<1>7. ASSUME s # <<>>
      PROVE  Head(s) = IF p # <<>> THEN "^" ELSE IF t # <<>> THEN Head(t) ELSE "$"
  <2>1. Head(s) = s[1] /\ Len(s) # 0
    BY <1>4, <1>7
  <2>2. CASE p # <<>>
    <3>1. 1 \in 1..Len(p) /\ p[1] = "^"
      BY <1>2, <2>2
    <3> QED
      BY <1>4, <2>1, <2>2, <3>1
  <2>3. CASE p = <<>> /\ t # <<>>
    <3>1. Len(p) = 0 /\ Len(t) >= 1 /\ Head(t) = t[1]
      BY <2>3
    <3> QED
      BY <1>4, <2>1, <2>3, <3>1
  <2>4. CASE p = <<>> /\ t = <<>>
    <3>1. Len(p) = 0 /\ Len(t) = 0
      BY <2>4
    <3>2. q = <<"$">> /\ Len(q) = 1 /\ q[1] = "$"
      BY <1>3, <1>4, <2>1, <3>1
    <3> QED
      BY <1>4, <2>1, <2>4, <3>1, <3>2
  <2> QED
    BY <2>2, <2>3, <2>4
<1>8. ASSUME s # <<>>
      PROVE  Last(s) = IF q # <<>> THEN "$" ELSE IF t # <<>> THEN Last(t) ELSE "^"
  <2>1. Last(s) = s[Len(s)] /\ Len(s) # 0
    BY <1>4, <1>8 DEF Last
  <2>2. CASE q # <<>>
    BY <1>3, <1>4, <1>5, <2>1, <2>2
  <2>3. CASE q = <<>> /\ t # <<>>
    <3>1. Len(q) = 0 /\ Len(t) >= 1 /\ Last(t) = t[Len(t)]
      BY <2>3 DEF Last
    <3> QED
      BY <1>4, <1>5, <2>1, <2>3, <3>1
  <2>4. CASE q = <<>> /\ t = <<>>
    <3>1. Len(q) = 0 /\ Len(t) = 0
      BY <2>4
    <3>2. p = <<"^">> /\ Len(p) = 1 /\ p[1] = "^"
      BY <1>2, <1>4, <2>1, <3>1
    <3> QED
      BY <1>4, <2>1, <2>4, <3>1, <3>2
  <2> QED
    BY <2>2, <2>3, <2>4
<1> QED
  BY <1>4, <1>6, <1>7, <1>8 DEF Marked

\* What is read of a text with its markers, if it has no marker of its own.
LEMMA ReadMarked ==
  ASSUME NEW t \in Seq(Characters), NEW p \in {<<>>, <<"^">>}, NEW q \in {<<>>, <<"$">>},
         NEW s, s = p \o t \o q,
         p = <<>> /\ t # <<>> => Head(t) # "^",
         q = <<>> /\ t # <<>> => Last(t) # "$"
  PROVE  /\ ReadPattern(s).text = t
         /\ ReadPattern(s) =
              [match |-> CASE p # <<>> /\ q # <<>> -> "Equals"
                           [] p # <<>> /\ q = <<>> -> "StartsWith"
                           [] p = <<>> /\ q # <<>> -> "EndsWith"
                           [] OTHER                -> "Contains",
               text |-> ReadPattern(s).text]
<1> DEFINE starts == s # <<>> /\ Head(s) = "^"
           ends == s # <<>> /\ Last(s) = "$"
<1>1. Marked(s, p, t, q)
  BY MarkedText
<1>2. /\ s \in Seq(Characters) /\ Len(s) = Len(p) + Len(t) + Len(q)
      /\ t = SubSeq(s, Len(p) + 1, Len(p) + Len(t))
  BY <1>1 DEF Marked
<1>3. Len(t) \in Nat /\ (p = <<>> \/ Len(p) = 1) /\ (q = <<>> \/ Len(q) = 1) /\ Len(<<>>) = 0
  OBVIOUS
<1>4. (p # <<>> => s # <<>>) /\ (q # <<>> => s # <<>>)
  BY <1>2, <1>3
<1>5. (starts <=> p # <<>>) /\ (ends <=> q # <<>>)
  <2>1. s # <<>> => Head(s) = IF p # <<>> THEN "^" ELSE IF t # <<>> THEN Head(t) ELSE "$"
    BY <1>1 DEF Marked
  <2>2. s # <<>> => Last(s) = IF q # <<>> THEN "$" ELSE IF t # <<>> THEN Last(t) ELSE "^"
    BY <1>1 DEF Marked
  <2> QED
    BY <1>4, <2>1, <2>2
<1>6. ReadPattern(s) =
        [match |-> CASE starts /\ ends  -> "Equals"
                     [] starts /\ ~ends -> "StartsWith"
                     [] ~starts /\ ends -> "EndsWith"
                     [] OTHER           -> "Contains",
         text |-> SubSeq(s, IF starts THEN 2 ELSE 1, IF ends THEN Len(s) - 1 ELSE Len(s))]
  BY DEF ReadPattern
<1> HIDE DEF starts, ends
<1>7. ReadPattern(s) =
        [match |-> CASE p # <<>> /\ q # <<>> -> "Equals"
                     [] p # <<>> /\ q = <<>> -> "StartsWith"
                     [] p = <<>> /\ q # <<>> -> "EndsWith"
                     [] OTHER                -> "Contains",
         text |-> SubSeq(s, IF p # <<>> THEN 2 ELSE 1, IF q # <<>> THEN Len(s) - 1 ELSE Len(s))]
  BY <1>5, <1>6, Zenon
<1>8. ReadPattern(s).text = t
  <2>1. CASE p = <<>> /\ q = <<>>
    BY <1>2, <1>3, <1>7, <2>1
  <2>2. CASE p = <<>> /\ q # <<>>
    <3>1. Len(p) + 1 = 1 /\ Len(p) + Len(t) = Len(s) - 1
      BY <1>2, <1>3, <2>2
    <3>2. ReadPattern(s).text = SubSeq(s, 1, Len(s) - 1)
      BY <1>7, <2>2
    <3> QED
      BY <1>2, <3>1, <3>2
  <2>3. CASE p # <<>> /\ q = <<>>
    <3>1. Len(p) + 1 = 2 /\ Len(p) + Len(t) = Len(s)
      BY <1>2, <1>3, <2>3
    <3>2. ReadPattern(s).text = SubSeq(s, 2, Len(s))
      BY <1>7, <2>3
    <3> QED
      BY <1>2, <3>1, <3>2
  <2>4. CASE p # <<>> /\ q # <<>>
    <3>1. Len(p) + 1 = 2 /\ Len(p) + Len(t) = Len(s) - 1
      BY <1>2, <1>3, <2>4
    <3>2. ReadPattern(s).text = SubSeq(s, 2, Len(s) - 1)
      BY <1>7, <2>4
    <3> QED
      BY <1>2, <3>1, <3>2
  <2> QED
    BY <2>1, <2>2, <2>3, <2>4
<1> QED
  BY <1>7, <1>8

\* A condition that is written is read as it was, unless its text has a marker
\* of its own.
LEMMA ReadWritten ==
  ASSUME NEW v \in FilterValues, ~Ambiguous(v)
  PROVE  ReadPattern(WritePattern(v)) = v
<1>1. v = [match |-> v.match, text |-> v.text] /\ v.text \in Seq(Characters) /\ v.match \in StringMatchTypes
  BY DEF FilterValues
<1>2. CASE v.match = "Contains"
  <2>1. WritePattern(v) = <<>> \o v.text \o <<>>
    BY <1>2 DEF WritePattern
  <2>2. v.text # <<>> => Head(v.text) # "^" /\ Last(v.text) # "$"
    BY <1>2 DEF Ambiguous
  <2> QED
    BY <1>1, <1>2, <2>1, <2>2, ReadMarked
<1>3. CASE v.match = "StartsWith"
  <2>1. WritePattern(v) = <<"^">> \o v.text \o <<>>
    BY <1>3 DEF WritePattern
  <2>2. v.text # <<>> => Last(v.text) # "$"
    BY <1>3 DEF Ambiguous
  <2> QED
    BY <1>1, <1>3, <2>1, <2>2, ReadMarked, ZenonT(60)
<1>4. CASE v.match = "EndsWith"
  <2>1. WritePattern(v) = <<>> \o v.text \o <<"$">>
    BY <1>4 DEF WritePattern
  <2>2. v.text # <<>> => Head(v.text) # "^"
    BY <1>4 DEF Ambiguous
  <2> DEFINE w == WritePattern(v)
  <2>3. /\ ReadPattern(w).text = v.text
        /\ ReadPattern(w) = [match |-> "EndsWith", text |-> ReadPattern(w).text]
    <3>1. w = <<>> \o v.text \o <<"$">>
      BY <2>1
    <3>2. <<"$">> # <<>>
      OBVIOUS
    <3> HIDE DEF w
    <3> QED
      BY <1>1, <2>2, <3>1, <3>2, ReadMarked, ZenonT(60)
  <2> HIDE DEF w
  <2>4. ReadPattern(w) = v
    BY <1>1, <1>4, <2>3
  <2> QED
    BY <2>4 DEF w
<1>5. CASE v.match = "Equals"
  <2>1. WritePattern(v) = <<"^">> \o v.text \o <<"$">>
    BY <1>5 DEF WritePattern
  <2> QED
    BY <1>1, <1>5, <2>1, ReadMarked
<1> QED
  BY <1>1, <1>2, <1>3, <1>4, <1>5 DEF StringMatchTypes

\* t is in w from its i-th character.
OccursAt(t, w, i) ==
  /\ i \in 1..(Len(w) + 1)
  /\ i + Len(t) - 1 <= Len(w)
  /\ \A k \in 1..Len(t) : w[i + k - 1] = t[k]

LEMMA OccursSubSeq ==
  ASSUME NEW t \in Seq(Characters), NEW w \in Seq(Characters),
         NEW i \in 1..(Len(w) + 1), NEW j \in 0..Len(w)
  PROVE  SubSeq(w, i, j) = t /\ j - i + 1 = Len(t) <=> OccursAt(t, w, i) /\ j = i + Len(t) - 1
<1>1. Len(t) \in Nat /\ Len(w) \in Nat
  OBVIOUS
<1>2. SubSeq(w, i, j) \in Seq(Characters) /\ Len(SubSeq(w, i, j)) = (IF i <= j THEN j - i + 1 ELSE 0)
  BY <1>1
<1>3. \A k \in 1..Len(SubSeq(w, i, j)) : SubSeq(w, i, j)[k] = w[i + k - 1]
  BY <1>1, <1>2
<1> DEFINE u == SubSeq(w, i, j)
<1>4. ASSUME u = t, j - i + 1 = Len(t)
      PROVE  OccursAt(t, w, i) /\ j = i + Len(t) - 1
  BY <1>1, <1>3, <1>4 DEF OccursAt
<1>5. ASSUME OccursAt(t, w, i), j = i + Len(t) - 1
      PROVE  u = t /\ j - i + 1 = Len(t)
  <2>1. j - i + 1 = Len(t) /\ Len(u) = Len(t)
    BY <1>1, <1>2, <1>5
  <2>2. \A k \in 1..Len(t) : u[k] = t[k]
    BY <1>3, <1>5, <2>1 DEF OccursAt
  <2>3. u \in Seq(Characters)
    BY <1>2
  <2> HIDE DEF u
  <2> QED
    BY <2>1, <2>2, <2>3, SeqEqual
<1> QED
  BY <1>4, <1>5

LEMMA OccursPrefix ==
  ASSUME NEW t \in Seq(Characters), NEW w \in Seq(Characters)
  PROVE  IsPrefix(t, w) <=> OccursAt(t, w, 1)
<1>1. Len(t) \in Nat /\ Len(w) \in Nat /\ SubSeq(t, 1, Len(t)) = t
  OBVIOUS
<1>2. CASE Len(t) <= Len(w)
  <2>1. Len(t) \in 0..Len(w) /\ 1 \in 1..(Len(w) + 1) /\ Len(t) - 1 + 1 = Len(t) /\ Len(t) = 1 + Len(t) - 1
    BY <1>1, <1>2
  <2>2. SubSeq(w, 1, Len(t)) = t /\ Len(t) - 1 + 1 = Len(t) <=> OccursAt(t, w, 1) /\ Len(t) = 1 + Len(t) - 1
    BY <2>1, OccursSubSeq
  <2> QED
    BY <1>1, <1>2, <2>1, <2>2 DEF IsPrefix
<1>3. CASE ~(Len(t) <= Len(w))
  BY <1>1, <1>3 DEF IsPrefix, OccursAt
<1> QED
  BY <1>2, <1>3

LEMMA OccursSuffix ==
  ASSUME NEW t \in Seq(Characters), NEW w \in Seq(Characters)
  PROVE  IsSuffix(t, w) <=> OccursAt(t, w, Len(w) - Len(t) + 1)
<1> DEFINE rt == Reverse(t)
           rw == Reverse(w)
           i == Len(w) - Len(t) + 1
<1>1. Len(t) \in Nat /\ Len(w) \in Nat
  OBVIOUS
<1>2. /\ rt \in Seq(Characters) /\ Len(rt) = Len(t)
      /\ \A k \in 1..Len(t) : rt[k] = t[Len(t) - k + 1]
  BY DEF Reverse
<1>3. /\ rw \in Seq(Characters) /\ Len(rw) = Len(w)
      /\ \A k \in 1..Len(w) : rw[k] = w[Len(w) - k + 1]
  BY DEF Reverse
<1>4. IsSuffix(t, w) <=> OccursAt(rt, rw, 1)
  <2>1. IsSuffix(t, w) <=> IsPrefix(rt, rw)
    BY DEF IsSuffix
  <2> HIDE DEF rt, rw
  <2> QED
    BY <1>2, <1>3, <2>1, OccursPrefix
<1> HIDE DEF rt, rw
<1>5. ASSUME OccursAt(rt, rw, 1)
      PROVE  OccursAt(t, w, i)
  <2>1. Len(t) <= Len(w)
    BY <1>1, <1>2, <1>3, <1>5 DEF OccursAt
  <2>2. ASSUME NEW k \in 1..Len(t)
        PROVE  w[i + k - 1] = t[k]
    <3>1. Len(t) - k + 1 \in 1..Len(t) /\ Len(t) - k + 1 \in 1..Len(w)
      BY <1>1, <2>1
    <3>2. rw[1 + (Len(t) - k + 1) - 1] = rt[Len(t) - k + 1]
      BY <1>2, <1>5, <3>1 DEF OccursAt
    <3>3. /\ 1 + (Len(t) - k + 1) - 1 = Len(t) - k + 1
          /\ Len(t) - (Len(t) - k + 1) + 1 = k
          /\ Len(w) - (Len(t) - k + 1) + 1 = i + k - 1
      BY <1>1
    <3> QED
      BY <1>2, <1>3, <3>1, <3>2, <3>3
  <2>3. i \in 1..(Len(w) + 1) /\ i + Len(t) - 1 <= Len(w)
    BY <1>1, <2>1
  <2> QED
    BY <2>2, <2>3 DEF OccursAt
<1>6. ASSUME OccursAt(t, w, i)
      PROVE  OccursAt(rt, rw, 1)
  <2>1. Len(t) <= Len(w)
    BY <1>1, <1>6 DEF OccursAt
  <2>2. ASSUME NEW k \in 1..Len(rt)
        PROVE  rw[1 + k - 1] = rt[k]
    <3>1. k \in 1..Len(t) /\ k \in 1..Len(w) /\ Len(t) - k + 1 \in 1..Len(t) /\ 1 + k - 1 = k
      BY <1>1, <1>2, <2>1
    <3>2. w[i + (Len(t) - k + 1) - 1] = t[Len(t) - k + 1]
      BY <1>6, <3>1 DEF OccursAt
    <3>3. i + (Len(t) - k + 1) - 1 = Len(w) - k + 1
      BY <1>1
    <3> QED
      BY <1>2, <1>3, <3>1, <3>2, <3>3
  <2>3. 1 \in 1..(Len(rw) + 1) /\ 1 + Len(rt) - 1 <= Len(rw)
    BY <1>1, <1>2, <1>3, <2>1
  <2> QED
    BY <2>2, <2>3 DEF OccursAt
<1> QED
  BY <1>4, <1>5, <1>6

LEMMA OccursSomewhere ==
  ASSUME NEW t \in Seq(Characters), NEW w \in Seq(Characters), NEW i \in 1..(Len(w) + 1)
  PROVE  IsPrefix(t, SubSeq(w, i, Len(w))) <=> OccursAt(t, w, i)
<1> DEFINE u == SubSeq(w, i, Len(w))
<1>1. Len(t) \in Nat /\ Len(w) \in Nat /\ i \in Nat
  OBVIOUS
<1>2. u \in Seq(Characters) /\ Len(u) = Len(w) - i + 1 /\ \A k \in 1..Len(u) : u[k] = w[i + k - 1]
  BY <1>1
<1> HIDE DEF u
<1>3. OccursAt(t, u, 1) <=> OccursAt(t, w, i)
  <2>1. 1 \in 1..(Len(u) + 1) /\ (1 + Len(t) - 1 <= Len(u) <=> i + Len(t) - 1 <= Len(w))
    BY <1>1, <1>2
  <2>2. ASSUME i + Len(t) - 1 <= Len(w), NEW k \in 1..Len(t)
        PROVE  u[1 + k - 1] = w[i + k - 1]
    <3>1. 1 + k - 1 = k /\ k \in 1..Len(u)
      BY <1>1, <1>2, <2>2
    <3> QED
      BY <1>2, <3>1
  <2> QED
    BY <1>1, <2>1, <2>2 DEF OccursAt
<1> QED
  BY <1>2, <1>3, OccursPrefix DEF u

\* What a predicate with the condition v says of a text.
Holds(v, w) ==
  CASE v.match = "Equals"     -> w = v.text
    [] v.match = "StartsWith" -> IsPrefix(v.text, w)
    [] v.match = "EndsWith"   -> IsSuffix(v.text, w)
    [] v.match = "Contains"   -> \E i \in 1..(Len(w) + 1) : IsPrefix(v.text, SubSeq(w, i, Len(w)))

\* The match types and the places where the text has to occur.
LEMMA HoldsWhereItOccurs ==
  ASSUME NEW v \in FilterValues, NEW w \in Seq(Characters)
  PROVE  /\ v.match = "Equals" => (Holds(v, w) <=> OccursAt(v.text, w, 1) /\ Len(v.text) = Len(w))
         /\ v.match = "StartsWith" => (Holds(v, w) <=> OccursAt(v.text, w, 1))
         /\ v.match = "EndsWith" => (Holds(v, w) <=> OccursAt(v.text, w, Len(w) - Len(v.text) + 1))
         /\ v.match = "Contains" => (Holds(v, w) <=> \E i \in 1..(Len(w) + 1) : OccursAt(v.text, w, i))
<1>1. v.text \in Seq(Characters) /\ Len(w) \in Nat /\ Len(v.text) \in Nat
  BY DEF FilterValues
<1>2. ASSUME v.match = "Equals"
      PROVE  Holds(v, w) <=> OccursAt(v.text, w, 1) /\ Len(v.text) = Len(w)
  <2>1. Holds(v, w) <=> w = v.text
    BY <1>2 DEF Holds
  <2>2. SubSeq(w, 1, Len(w)) = w /\ Len(w) \in 0..Len(w) /\ 1 \in 1..(Len(w) + 1) /\ Len(w) - 1 + 1 = Len(w)
    BY <1>1
  <2>3. SubSeq(w, 1, Len(w)) = v.text /\ Len(w) - 1 + 1 = Len(v.text)
          <=> OccursAt(v.text, w, 1) /\ Len(w) = 1 + Len(v.text) - 1
    BY <1>1, <2>2, OccursSubSeq
  <2>4. Len(w) = 1 + Len(v.text) - 1 <=> Len(v.text) = Len(w)
    BY <1>1
  <2> QED
    BY <2>1, <2>2, <2>3, <2>4
<1>3. ASSUME v.match = "StartsWith"
      PROVE  Holds(v, w) <=> OccursAt(v.text, w, 1)
  BY <1>1, <1>3, OccursPrefix DEF Holds
<1>4. ASSUME v.match = "EndsWith"
      PROVE  Holds(v, w) <=> OccursAt(v.text, w, Len(w) - Len(v.text) + 1)
  BY <1>1, <1>4, OccursSuffix DEF Holds
<1>5. ASSUME v.match = "Contains"
      PROVE  Holds(v, w) <=> \E i \in 1..(Len(w) + 1) : OccursAt(v.text, w, i)
  <2>1. Holds(v, w) <=> \E i \in 1..(Len(w) + 1) : IsPrefix(v.text, SubSeq(w, i, Len(w)))
    BY <1>5 DEF Holds
  <2> QED
    BY <1>1, <2>1, OccursSomewhere
<1> QED
  BY <1>2, <1>3, <1>4, <1>5

\* The documentation's anchors and the places where the text has to occur.
LEMMA PatternWhereItOccurs ==
  ASSUME NEW s \in Seq(Characters), NEW w \in Seq(Characters)
  PROVE  LET v == ReadPattern(s) IN
           /\ v \in FilterValues
           /\ PatternMatches(s, w) <=>
                \E i \in 1..(Len(w) + 1) :
                  /\ OccursAt(v.text, w, i)
                  /\ v.match \in {"StartsWith", "Equals"} => i = 1
                  /\ v.match \in {"EndsWith", "Equals"} => i + Len(v.text) - 1 = Len(w)
<1> DEFINE starts == s # <<>> /\ Head(s) = "^"
           ends == s # <<>> /\ Last(s) = "$"
           v == ReadPattern(s)
           first == IF starts THEN 2 ELSE 1
           last == IF ends THEN Len(s) - 1 ELSE Len(s)
<1>1. v = [match |-> CASE starts /\ ends  -> "Equals"
                       [] starts /\ ~ends -> "StartsWith"
                       [] ~starts /\ ends -> "EndsWith"
                       [] OTHER           -> "Contains",
           text |-> SubSeq(s, first, last)]
  BY DEF ReadPattern
<1>2. Len(s) \in Nat /\ Len(w) \in Nat /\ first \in Nat /\ last = Len(s) - (IF ends THEN 1 ELSE 0)
  OBVIOUS
<1>3. SubSeq(s, first, last) \in Seq(Characters)
  <2>1. Len(s) # 0 \/ ~ends
    OBVIOUS
  <2>2. first \in 1..2 /\ last \in 0..Len(s)
    BY <1>2, <2>1
  <2> HIDE DEF first, last
  <2> QED
    BY <1>2, <2>2
<1>4. PatternMatches(s, w) <=>
        \E i \in 1..(Len(w) + 1), j \in 0..Len(w) :
          SubSeq(w, i, j) = SubSeq(s, first, Len(s) - (IF ends THEN 1 ELSE 0))
            /\ j - i + 1 = Len(SubSeq(s, first, Len(s) - (IF ends THEN 1 ELSE 0)))
            /\ (starts => i = 1) /\ (ends => j = Len(w))
  BY DEF PatternMatches
<1> HIDE DEF first, last, starts, ends
<1>5. /\ v.text = SubSeq(s, first, last) /\ v.text \in Seq(Characters)
      /\ v \in FilterValues
      /\ starts <=> v.match \in {"StartsWith", "Equals"}
      /\ ends <=> v.match \in {"EndsWith", "Equals"}
  <2> HIDE DEF v
  <2>1. v.text = SubSeq(s, first, last) /\ v.text \in Seq(Characters)
    BY <1>1, <1>3
  <2>2. CASE starts /\ ends
    BY <1>1, <1>3, <2>2 DEF FilterValues, StringMatchTypes
  <2>3. CASE starts /\ ~ends
    BY <1>1, <1>3, <2>3 DEF FilterValues, StringMatchTypes
  <2>4. CASE ~starts /\ ends
    BY <1>1, <1>3, <2>4 DEF FilterValues, StringMatchTypes
  <2>5. CASE ~starts /\ ~ends
    BY <1>1, <1>3, <2>5 DEF FilterValues, StringMatchTypes
  <2> QED
    BY <2>1, <2>2, <2>3, <2>4, <2>5
<1> HIDE DEF v
<1>6. PatternMatches(s, w) <=>
        \E i \in 1..(Len(w) + 1), j \in 0..Len(w) :
          SubSeq(w, i, j) = v.text /\ j - i + 1 = Len(v.text) /\ (starts => i = 1) /\ (ends => j = Len(w))
  BY <1>2, <1>4, <1>5, Zenon
<1>7. PatternMatches(s, w) <=>
        \E i \in 1..(Len(w) + 1), j \in 0..Len(w) :
          OccursAt(v.text, w, i) /\ j = i + Len(v.text) - 1 /\ (starts => i = 1) /\ (ends => j = Len(w))
  <2>1. \A i \in 1..(Len(w) + 1), j \in 0..Len(w) :
          SubSeq(w, i, j) = v.text /\ j - i + 1 = Len(v.text) <=> OccursAt(v.text, w, i) /\ j = i + Len(v.text) - 1
    BY <1>5, OccursSubSeq
  <2> QED
    BY <1>6, <2>1, Zenon
<1>8. \A i \in 1..(Len(w) + 1) : OccursAt(v.text, w, i) => i + Len(v.text) - 1 \in 0..Len(w)
  <2>1. Len(v.text) \in Nat
    BY <1>5
  <2> QED
    BY <1>2, <2>1 DEF OccursAt
<1>9. PatternMatches(s, w) <=>
        \E i \in 1..(Len(w) + 1) :
          OccursAt(v.text, w, i) /\ (starts => i = 1) /\ (ends => i + Len(v.text) - 1 = Len(w))
  BY <1>7, <1>8, Zenon
<1> QED
  BY <1>5, <1>9, Zenon DEF v

\* A predicate says what the documentation says of its pattern, and a pattern
\* without a predicate says nothing, "^$" excepted.
LEMMA PredicateMatches ==
  ASSUME NEW s \in Seq(Characters), NEW w \in Seq(Characters)
  PROVE  LET v == ReadPattern(s) IN
           /\ v \in FilterValues
           /\ Holds(v, w) <=> PatternMatches(s, w)
           /\ v.text = <<>> /\ v.match # "Equals" => PatternMatches(s, w)
           /\ v.text = <<>> /\ v.match = "Equals" => s = <<"^", "$">>
<1> DEFINE v == ReadPattern(s)
<1>1. /\ v \in FilterValues
      /\ PatternMatches(s, w) <=>
           \E i \in 1..(Len(w) + 1) :
             /\ OccursAt(v.text, w, i)
             /\ v.match \in {"StartsWith", "Equals"} => i = 1
             /\ v.match \in {"EndsWith", "Equals"} => i + Len(v.text) - 1 = Len(w)
  BY PatternWhereItOccurs
<1>2. v.text = <<>> /\ v.match = "Equals" => s = <<"^", "$">>
  <2> SUFFICES ASSUME v.text = <<>>, v.match = "Equals"
               PROVE  s = <<"^", "$">>
    OBVIOUS
  <2> DEFINE starts == s # <<>> /\ Head(s) = "^"
             ends == s # <<>> /\ Last(s) = "$"
  <2>1. v = [match |-> CASE starts /\ ends  -> "Equals"
                         [] starts /\ ~ends -> "StartsWith"
                         [] ~starts /\ ends -> "EndsWith"
                         [] OTHER           -> "Contains",
             text |-> SubSeq(s, IF starts THEN 2 ELSE 1, IF ends THEN Len(s) - 1 ELSE Len(s))]
    BY DEF ReadPattern
  <2>2. starts /\ ends
    <3> HIDE DEF starts, ends, v
    <3> QED
      BY <2>1
  <2>3. SubSeq(s, 2, Len(s) - 1) = <<>>
    BY <2>1, <2>2
  <2>4. Len(s) \in Nat /\ Len(s) >= 1 /\ s[1] = "^" /\ s[Len(s)] = "$"
    BY <2>2 DEF Last
  <2>5. Len(s) # 1
    BY <2>4
  <2>6. Len(s) \in Nat /\ Len(s) >= 1 /\ Len(<<>>) = 0
    BY <2>4
  <2>7. Len(s) > 2 => Len(SubSeq(s, 2, Len(s) - 1)) = Len(s) - 2
    BY <2>6
  <2>8. ~(Len(s) > 2)
    <3> DEFINE n == Len(s)
    <3>1. n \in Nat /\ (n > 2 => 0 = n - 2)
      BY <2>3, <2>6, <2>7
    <3> HIDE DEF n
    <3>2. ~(n > 2)
      BY <3>1
    <3> QED
      BY <3>2 DEF n
  <2>9. Len(s) = 2
    <3> DEFINE n == Len(s)
    <3>1. n \in Nat /\ n >= 1 /\ n # 1 /\ ~(n > 2)
      BY <2>5, <2>6, <2>8
    <3> HIDE DEF n
    <3>2. n = 2
      BY <3>1
    <3> QED
      BY <3>2 DEF n
  <2> QED
    BY <2>4, <2>9
<1> HIDE DEF v
<1>3. v.text \in Seq(Characters) /\ Len(v.text) \in Nat /\ Len(w) \in Nat /\ v.match \in StringMatchTypes
  BY <1>1 DEF FilterValues
<1>4. Holds(v, w) <=> PatternMatches(s, w)
  <2>1. CASE v.match = "Equals"
    <3>1. PatternMatches(s, w) <=>
            \E i \in 1..(Len(w) + 1) : OccursAt(v.text, w, i) /\ i = 1 /\ i + Len(v.text) - 1 = Len(w)
      BY <1>1, <2>1
    <3>2. 1 \in 1..(Len(w) + 1) /\ (1 + Len(v.text) - 1 = Len(w) <=> Len(v.text) = Len(w))
      BY <1>3
    <3> QED
      BY <1>1, <2>1, <3>1, <3>2, HoldsWhereItOccurs
  <2>2. CASE v.match = "StartsWith"
    <3>1. PatternMatches(s, w) <=> \E i \in 1..(Len(w) + 1) : OccursAt(v.text, w, i) /\ i = 1
      BY <1>1, <2>2
    <3>2. 1 \in 1..(Len(w) + 1)
      BY <1>3
    <3> QED
      BY <1>1, <2>2, <3>1, <3>2, HoldsWhereItOccurs
  <2>3. CASE v.match = "EndsWith"
    <3>1. PatternMatches(s, w) <=>
            \E i \in 1..(Len(w) + 1) : OccursAt(v.text, w, i) /\ i + Len(v.text) - 1 = Len(w)
      BY <1>1, <2>3
    <3>2. \A i \in 1..(Len(w) + 1) : i + Len(v.text) - 1 = Len(w) <=> i = Len(w) - Len(v.text) + 1
      BY <1>3
    <3>3. OccursAt(v.text, w, Len(w) - Len(v.text) + 1) => Len(w) - Len(v.text) + 1 \in 1..(Len(w) + 1)
      BY DEF OccursAt
    <3> QED
      BY <1>1, <2>3, <3>1, <3>2, <3>3, HoldsWhereItOccurs
  <2>4. CASE v.match = "Contains"
    <3>1. PatternMatches(s, w) <=> \E i \in 1..(Len(w) + 1) : OccursAt(v.text, w, i)
      BY <1>1, <2>4
    <3> QED
      BY <1>1, <2>4, <3>1, HoldsWhereItOccurs
  <2> QED
    BY <1>3, <2>1, <2>2, <2>3, <2>4 DEF StringMatchTypes
<1>5. v.text = <<>> /\ v.match # "Equals" => PatternMatches(s, w)
  <2> SUFFICES ASSUME v.text = <<>>, v.match # "Equals"
               PROVE  PatternMatches(s, w)
    OBVIOUS
  <2>1. \A i \in 1..(Len(w) + 1) : OccursAt(v.text, w, i)
    BY <1>3 DEF OccursAt
  <2>2. 1 \in 1..(Len(w) + 1) /\ Len(w) + 1 \in 1..(Len(w) + 1) /\ Len(w) + 1 + Len(v.text) - 1 = Len(w)
    BY <1>3
  <2>3. v.match # "EndsWith" \/ v.match # "StartsWith"
    OBVIOUS
  <2> QED
    BY <1>1, <2>1, <2>2, <2>3
<1> QED
  BY <1>1, <1>2, <1>4, <1>5 DEF v

Says(v, k) == v.text # <<>> \/ (k # "process" /\ v.match = "Equals")

\* The predicates of a filter: one for each condition that says something.
LEMMA CompiledFilter ==
  ASSUME NEW filter \in [FilterKeys -> FilterValues], NEW window
  PROVE  (\A p \in CompileFilter(filter) : Evaluate(p, window))
           <=> \A k \in FilterKeys : Says(filter[k], k) => Holds(filter[k], window[k])
<1> DEFINE Predicate(k) == [key |-> k, match |-> filter[k].match, text |-> filter[k].text]
<1>1. ASSUME NEW k \in FilterKeys
      PROVE  Evaluate(Predicate(k), window) <=> Holds(filter[k], window[k])
  BY DEF Evaluate, Holds
<1>2. CompileFilter(filter) = {Predicate(k) : k \in {l \in FilterKeys : Says(filter[l], l)}}
  <2>1. CompileProcessImageName(filter["process"])
          = IF Says(filter["process"], "process") THEN {Predicate("process")} ELSE {}
    BY DEF CompileProcessImageName, Says
  <2>2. CompileWindowClass(filter["class"]) = IF Says(filter["class"], "class") THEN {Predicate("class")} ELSE {}
    BY DEF CompileWindowClass, Says
  <2>3. CompileWindowTitle(filter["title"]) = IF Says(filter["title"], "title") THEN {Predicate("title")} ELSE {}
    BY DEF CompileWindowTitle, Says
  <2> HIDE DEF Predicate
  <2> QED
    BY <2>1, <2>2, <2>3 DEF CompileFilter, FilterKeys
<1> HIDE DEF Predicate
<1> QED
  BY <1>1, <1>2

\* A rule made of a node matches the windows the documentation says.
LEMMA NodeMatches ==
  ASSUME NEW where, where \in [DOMAIN where -> Seq(Characters)], DOMAIN where \subseteq FilterKeys,
         NEW w \in [FilterKeys -> Seq(Characters)]
  PROVE  (\A p \in CompileFilter(ReadFilter(where)) : Evaluate(p, w)) <=>
           \A k \in DOMAIN where : PatternMatches(where[k], w[k]) \/ (k = "process" /\ where[k] = <<"^", "$">>)
<1>1. \A k \in DOMAIN where : ReadFilter(where)[k] = ReadPattern(where[k]) /\ where[k] \in Seq(Characters)
  BY DEF ReadFilter
<1>2. \A k \in FilterKeys \ DOMAIN where : ReadFilter(where)[k] = NoFilter
  BY DEF ReadFilter
<1>3. NoFilter \in FilterValues /\ \A k \in FilterKeys : ~Says(NoFilter, k)
  BY DEF NoFilter, FilterValues, StringMatchTypes, Says
<1>4. ReadFilter(where) \in [FilterKeys -> FilterValues]
  <2>1. \A k \in DOMAIN where : ReadPattern(where[k]) \in FilterValues
    BY <1>1, PredicateMatches
  <2> QED
    BY <1>3, <2>1 DEF ReadFilter
<1>5. ASSUME NEW k \in DOMAIN where
      PROVE  (Says(ReadFilter(where)[k], k) => Holds(ReadFilter(where)[k], w[k]))
               <=> PatternMatches(where[k], w[k]) \/ (k = "process" /\ where[k] = <<"^", "$">>)
  <2> DEFINE v == ReadPattern(where[k])
  <2>1. where[k] \in Seq(Characters) /\ w[k] \in Seq(Characters)
    BY <1>1
  <2>2. /\ Holds(v, w[k]) <=> PatternMatches(where[k], w[k])
        /\ v.text = <<>> /\ v.match # "Equals" => PatternMatches(where[k], w[k])
        /\ v.text = <<>> /\ v.match = "Equals" => where[k] = <<"^", "$">>
    BY <2>1, PredicateMatches
  <2>3. where[k] = <<"^", "$">> => v.text = <<>>
    <3> SUFFICES ASSUME where[k] = <<"^", "$">>
                 PROVE  v.text = <<>>
      OBVIOUS
    <3> DEFINE s == <<"^", "$">>
    <3>1. s # <<>> /\ Head(s) = "^" /\ Last(s) = "$" /\ Len(s) = 2 /\ SubSeq(s, 2, 2 - 1) = <<>>
      BY DEF Last
    <3> HIDE DEF s
    <3>2. ReadPattern(s).text = <<>>
      BY <3>1 DEF ReadPattern
    <3> QED
      BY <3>2 DEF s
  <2>4. ReadFilter(where)[k] = v
    BY <1>1
  <2> HIDE DEF v
  <2> QED
    BY <2>2, <2>3, <2>4 DEF Says
<1> QED
  BY <1>2, <1>3, <1>4, <1>5, CompiledFilter

-----------------------------------------------------------------------------
(* What is read of a node                                                  *)

LEMMA ReadFilterType ==
  ASSUME NEW where, where \in [DOMAIN where -> Seq(Characters)]
  PROVE  ReadFilter(where) \in [FilterKeys -> FilterValues]
<1>1. NoFilter \in FilterValues
  BY DEF NoFilter, FilterValues, StringMatchTypes
<1>2. \A k \in DOMAIN where : ReadPattern(where[k]) \in FilterValues
  BY PredicateMatches
<1> QED
  BY <1>1, <1>2 DEF ReadFilter

LEMMA ReadRuleAgrees ==
  ASSUME NEW node, IsNode(node)
  PROVE  Agrees(ReadRule(node), node)
<1>1. ReadFilter(node.where) \in [FilterKeys -> FilterValues]
  BY ReadFilterType DEF IsNode
<1>2. ReadTriggerFlags(node.when) \in SUBSET TriggerFlags
  BY DEF ReadTriggerFlags, ToTriggerFlags
<1>3. node.type \in ActionTypes
  BY DEF IsNode
<1> QED
  BY <1>1, <1>2, <1>3 DEF ReadRule, Agrees, RuleValues

\* The numbers an action is read with are in the limits of its type.
LEMMA ReadActionInRange ==
  ASSUME NEW type \in ActionTypes, NEW fields, fields \in [DOMAIN fields -> Int], ReadsAction(type, fields)
  PROVE  /\ ReadAction(type, fields) \in [FieldsOf(type) -> Int]
         /\ \A f \in FieldsOf(type) : LET n == ReadAction(type, fields)[f] IN
              InRange(type, f, n) \/ (f = "id" /\ n = 0)
<1>1. ASSUME NEW f \in FieldsOf(type)
      PROVE  /\ DefaultNumber(type, f) \in Int
             /\ InRange(type, f, DefaultNumber(type, f)) \/ (f = "id" /\ DefaultNumber(type, f) = 0)
  <2>1. CASE type = "absolute"
    <3>1. f \in {"x", "y", "width", "height"}
      BY <2>1 DEF FieldsOf, Bounds
    <3> QED
      BY <2>1, <3>1 DEF DefaultNumber, AbsoluteDefault, InRange, LongInRange, Bounds
  <2>2. CASE type = "relative"
    <3>1. f \in {"x", "y", "width", "height", "id", "name"}
      BY <2>2 DEF FieldsOf, Bounds
    <3> QED
      BY <2>2, <3>1 DEF DefaultNumber, RelativeDefault, InRange, FloatInRange, Bounds
  <2>3. CASE type = "invalid"
    BY <2>3 DEF FieldsOf
  <2> QED
    BY <2>1, <2>2, <2>3 DEF ActionTypes
<1>2. \A f \in FieldsOf(type) \cap DOMAIN fields : fields[f] \in Int /\ InRange(type, f, fields[f])
  BY DEF ReadsAction
<1> QED
  BY <1>1, <1>2 DEF ReadAction

LEMMA NewActionIsView ==
  ASSUME NEW node, IsNode(node), ReadsAction(node.type, node.fields), NEW changed \in BOOLEAN
  PROVE  LET action == NewAction(node, changed) IN
           /\ IsActionView(action)
           /\ NumbersInRange(action)
           /\ action.type = node.type
           /\ action.bounds = ReadAction(node.type, node.fields)
           /\ action.shown = action.bounds
           /\ action.dirty = {}
           /\ action.pending = changed
<1>1. node.type \in ActionTypes /\ node.fields \in [DOMAIN node.fields -> Int]
  BY DEF IsNode
<1>2. ReadAction(node.type, node.fields) \in [FieldsOf(node.type) -> Int]
  BY <1>1, ReadActionInRange
<1> QED
  BY <1>1, <1>2, ReadActionInRange DEF NewAction, IsActionView, NumbersInRange

-----------------------------------------------------------------------------
(* Keys                                                                    *)

LEMMA PairOf ==
  ASSUME NEW a, NEW b
  PROVE  <<a>> \o <<b>> = <<a, b>>
<1> DEFINE u == <<a>> \o <<b>>
           w == <<a, b>>
<1>1. <<a>> \in Seq({a, b}) /\ <<b>> \in Seq({a, b}) /\ w \in Seq({a, b}) /\ Len(w) = 2 /\ w[1] = a /\ w[2] = b
  OBVIOUS
<1>2. u \in Seq({a, b}) /\ Len(u) = 2 /\ u[1] = a /\ u[2] = b
  BY <1>1
<1> HIDE DEF u, w
<1>3. \A i \in 1..2 : u[i] = w[i]
  BY <1>1, <1>2
<1> QED
  BY <1>1, <1>2, <1>3, SeqEqual DEF u, w

LEMMA TripleOf ==
  ASSUME NEW a, NEW b, NEW c
  PROVE  <<a>> \o <<b>> \o <<c>> = <<a, b, c>>
<1> DEFINE u == <<a, b>> \o <<c>>
           w == <<a, b, c>>
<1>1. <<a, b>> \in Seq({a, b, c}) /\ <<c>> \in Seq({a, b, c}) /\ w \in Seq({a, b, c}) /\ Len(w) = 3 
        /\ w[1] = a /\ w[2] = b /\ w[3] = c
  OBVIOUS
<1>2. u \in Seq({a, b, c}) /\ Len(u) = 3 /\ u[1] = a /\ u[2] = b /\ u[3] = c
  BY <1>1
<1> HIDE DEF u, w
<1>3. \A i \in 1..3 : u[i] = w[i]
  BY <1>1, <1>2
<1>4. u = w
  BY <1>1, <1>2, <1>3, SeqEqual
<1> QED
  BY <1>4, PairOf DEF u, w

LEMMA NothingAdded ==
  ASSUME NEW a, NEW b
  PROVE  /\ <<a>> \o <<>> = <<a>> /\ <<>> \o <<a>> = <<a>>
         /\ <<a, b>> \o <<>> = <<a, b>> /\ <<>> \o <<>> = <<>>
<1>1. <<a>> \in Seq({a, b}) /\ <<a, b>> \in Seq({a, b}) /\ <<>> \in Seq({a, b})
  OBVIOUS
<1> QED
  BY <1>1, ConcatEmptySeq

\* What is selected of the keys, written out.
LEMMA KeysOf ==
  ASSUME NEW S
  PROVE  LET p == "process" \in S  c == "class" \in S  t == "title" \in S
             u == Selected(kAllFilterKey, S) IN
           /\ p /\ c /\ t => u = <<"process", "class", "title">>
           /\ p /\ c /\ ~t => u = <<"process", "class">>
           /\ p /\ ~c /\ t => u = <<"process", "title">>
           /\ p /\ ~c /\ ~t => u = <<"process">>
           /\ ~p /\ c /\ t => u = <<"class", "title">>
           /\ ~p /\ c /\ ~t => u = <<"class">>
           /\ ~p /\ ~c /\ t => u = <<"title">>
           /\ ~p /\ ~c /\ ~t => u = <<>>
<1> DEFINE P == Only("process", S)
           C == Only("class", S)
           T == Only("title", S)
<1>1. Selected(kAllFilterKey, S) = P \o C \o T
  BY SelectedKeys
<1>2. /\ P = IF "process" \in S THEN <<"process">> ELSE <<>>
      /\ C = IF "class" \in S THEN <<"class">> ELSE <<>>
      /\ T = IF "title" \in S THEN <<"title">> ELSE <<>>
  BY DEF Only
<1> HIDE DEF P, C, T
<1>3. CASE "process" \in S /\ "class" \in S /\ "title" \in S
  <2>1. P = <<"process">> /\ C = <<"class">> /\ T = <<"title">>
    BY <1>2, <1>3
  <2>2. <<"process">> \o <<"class">> \o <<"title">> = <<"process", "class", "title">>
    BY PairOf, TripleOf, NothingAdded
  <2> QED
    BY <1>1, <1>3, <2>1, <2>2
<1>4. CASE "process" \in S /\ "class" \in S /\ "title" \notin S
  <2>1. P = <<"process">> /\ C = <<"class">> /\ T = <<>>
    BY <1>2, <1>4
  <2>2. <<"process">> \o <<"class">> \o <<>> = <<"process", "class">>
    BY PairOf, TripleOf, NothingAdded
  <2> QED
    BY <1>1, <1>4, <2>1, <2>2
<1>5. CASE "process" \in S /\ "class" \notin S /\ "title" \in S
  <2>1. P = <<"process">> /\ C = <<>> /\ T = <<"title">>
    BY <1>2, <1>5
  <2>2. <<"process">> \o <<>> \o <<"title">> = <<"process", "title">>
    BY PairOf, TripleOf, NothingAdded
  <2> QED
    BY <1>1, <1>5, <2>1, <2>2
<1>6. CASE "process" \in S /\ "class" \notin S /\ "title" \notin S
  <2>1. P = <<"process">> /\ C = <<>> /\ T = <<>>
    BY <1>2, <1>6
  <2>2. <<"process">> \o <<>> \o <<>> = <<"process">>
    BY PairOf, TripleOf, NothingAdded
  <2> QED
    BY <1>1, <1>6, <2>1, <2>2
<1>7. CASE "process" \notin S /\ "class" \in S /\ "title" \in S
  <2>1. P = <<>> /\ C = <<"class">> /\ T = <<"title">>
    BY <1>2, <1>7
  <2>2. <<>> \o <<"class">> \o <<"title">> = <<"class", "title">>
    BY PairOf, TripleOf, NothingAdded
  <2> QED
    BY <1>1, <1>7, <2>1, <2>2
<1>8. CASE "process" \notin S /\ "class" \in S /\ "title" \notin S
  <2>1. P = <<>> /\ C = <<"class">> /\ T = <<>>
    BY <1>2, <1>8
  <2>2. <<>> \o <<"class">> \o <<>> = <<"class">>
    BY PairOf, TripleOf, NothingAdded
  <2> QED
    BY <1>1, <1>8, <2>1, <2>2
<1>9. CASE "process" \notin S /\ "class" \notin S /\ "title" \in S
  <2>1. P = <<>> /\ C = <<>> /\ T = <<"title">>
    BY <1>2, <1>9
  <2>2. <<>> \o <<>> \o <<"title">> = <<"title">>
    BY PairOf, TripleOf, NothingAdded
  <2> QED
    BY <1>1, <1>9, <2>1, <2>2
<1>10. CASE "process" \notin S /\ "class" \notin S /\ "title" \notin S
  <2>1. P = <<>> /\ C = <<>> /\ T = <<>>
    BY <1>2, <1>10
  <2>2. <<>> \o <<>> \o <<>> = <<>>
    BY PairOf, TripleOf, NothingAdded
  <2> QED
    BY <1>1, <1>10, <2>1, <2>2
<1> QED
  BY <1>3, <1>4, <1>5, <1>6, <1>7, <1>8, <1>9, <1>10

LEMMA KeysSelected ==
  ASSUME NEW S
  PROVE  LET u == Selected(kAllFilterKey, S) IN
           /\ u \in Seq(FilterKeys)
           /\ ToSet(u) = FilterKeys \cap S
           /\ IsInjective(u)
           /\ Len(u) = (IF "process" \in S THEN 1 ELSE 0) + (IF "class" \in S THEN 1 ELSE 0)
                         + (IF "title" \in S THEN 1 ELSE 0)
<1> DEFINE u == Selected(kAllFilterKey, S)
<1>1. kAllFilterKey \in Seq(FilterKeys) /\ ToSet(kAllFilterKey) = FilterKeys
  BY DEF kAllFilterKey, FilterKeys, ToSet
<1>2. u \in Seq(FilterKeys) /\ ToSet(u) = FilterKeys \cap S
  BY <1>1, SelectedElements
<1>3. /\ IsInjective(u)
      /\ Len(u) = (IF "process" \in S THEN 1 ELSE 0) + (IF "class" \in S THEN 1 ELSE 0)
                    + (IF "title" \in S THEN 1 ELSE 0)
  <2> HIDE DEF u
  <2>1. CASE "process" \in S /\ "class" \in S /\ "title" \in S
    <3>1. u = <<"process", "class", "title">>
      BY <2>1, KeysOf DEF u
    <3> QED
      BY <2>1, <3>1 DEF IsInjective
  <2>2. CASE "process" \in S /\ "class" \in S /\ "title" \notin S
    <3>1. u = <<"process", "class">>
      BY <2>2, KeysOf DEF u
    <3> QED
      BY <2>2, <3>1 DEF IsInjective
  <2>3. CASE "process" \in S /\ "class" \notin S /\ "title" \in S
    <3>1. u = <<"process", "title">>
      BY <2>3, KeysOf DEF u
    <3> QED
      BY <2>3, <3>1 DEF IsInjective
  <2>4. CASE "process" \in S /\ "class" \notin S /\ "title" \notin S
    <3>1. u = <<"process">>
      BY <2>4, KeysOf DEF u
    <3> QED
      BY <2>4, <3>1 DEF IsInjective
  <2>5. CASE "process" \notin S /\ "class" \in S /\ "title" \in S
    <3>1. u = <<"class", "title">>
      BY <2>5, KeysOf DEF u
    <3> QED
      BY <2>5, <3>1 DEF IsInjective
  <2>6. CASE "process" \notin S /\ "class" \in S /\ "title" \notin S
    <3>1. u = <<"class">>
      BY <2>6, KeysOf DEF u
    <3> QED
      BY <2>6, <3>1 DEF IsInjective
  <2>7. CASE "process" \notin S /\ "class" \notin S /\ "title" \in S
    <3>1. u = <<"title">>
      BY <2>7, KeysOf DEF u
    <3> QED
      BY <2>7, <3>1 DEF IsInjective
  <2>8. CASE "process" \notin S /\ "class" \notin S /\ "title" \notin S
    <3>1. u = <<>>
      BY <2>8, KeysOf DEF u
    <3> QED
      BY <2>8, <3>1 DEF IsInjective
  <2> QED
    BY <2>1, <2>2, <2>3, <2>4, <2>5, <2>6, <2>7, <2>8
<1> QED
  BY <1>2, <1>3

LEMMA NewRuleIsView ==
  ASSUME NEW i, IsNode(doc[i]), Agrees(rules[i], doc[i]), ReadsAction(doc[i].type, doc[i].fields)
  PROVE  IsRuleView(NewRule(i)) /\ Shows(NewRule(i), rules[i], doc[i]) /\ ~NewRule(i).action.pending
<1> DEFINE H == {k \in FilterKeys : HasFilter(i, k)}
           N == {k \in FilterKeys : ~HasFilter(i, k)}
           used == Selected(kAllFilterKey, H)
           vm == NewRule(i)
<1>1. /\ vm.action = NewAction(doc[i], FALSE)
      /\ vm.filters = [j \in DOMAIN used |-> NewFilter(used[j], FilterValue(i, used[j]), FALSE)]
      /\ vm.unused = Selected(kAllFilterKey, N)
      /\ vm.deleting = {} /\ vm.triggers = rules[i].triggers /\ vm.triggersPending = FALSE
      /\ vm = [action |-> vm.action, filters |-> vm.filters, unused |-> vm.unused, deleting |-> vm.deleting,
               triggers |-> vm.triggers, triggersPending |-> vm.triggersPending]
  BY DEF NewRule
<1>2. rules[i].filter \in [FilterKeys -> FilterValues] /\ rules[i].triggers \in SUBSET TriggerFlags
  BY DEF Agrees, RuleValues
<1>3. /\ used \in Seq(FilterKeys) /\ ToSet(used) = H
      /\ IsInjective(used)
  BY KeysSelected
<1>4. Selected(kAllFilterKey, N) \in Seq(FilterKeys) /\ ToSet(Selected(kAllFilterKey, N)) = N
  BY KeysSelected
<1>5. Len(used) + Len(Selected(kAllFilterKey, N)) = 3
  <2>1. Len(used) = (IF "process" \in H THEN 1 ELSE 0) + (IF "class" \in H THEN 1 ELSE 0)
                      + (IF "title" \in H THEN 1 ELSE 0)
    BY KeysSelected
  <2>2. Len(Selected(kAllFilterKey, N))
          = (IF "process" \in N THEN 1 ELSE 0) + (IF "class" \in N THEN 1 ELSE 0) + (IF "title" \in N THEN 1 ELSE 0)
    BY KeysSelected
  <2>3. \A k \in {"process", "class", "title"} : k \in N <=> k \notin H
    BY DEF FilterKeys
  <2> HIDE DEF used, H, N
  <2> QED
    BY <2>1, <2>2, <2>3
<1> HIDE DEF vm, used
<1>a. DOMAIN vm.filters = DOMAIN used
  BY <1>1
<1>b. ASSUME NEW j \in DOMAIN used
      PROVE  /\ vm.filters[j] \in FilterViews
             /\ vm.filters[j].key = used[j]
             /\ vm.filters[j].value = rules[i].filter[used[j]]
             /\ vm.filters[j].pending = FALSE
  <2>1. used[j] \in FilterKeys
    BY <1>3
  <2>2. rules[i].filter[used[j]] \in FilterValues
    BY <1>2, <2>1
  <2>3. vm.filters[j] = [key |-> used[j], value |-> rules[i].filter[used[j]], pending |-> FALSE]
    BY <1>1 DEF NewFilter, FilterValue
  <2> QED
    BY <2>1, <2>2, <2>3 DEF FilterViews
<1>6. /\ DOMAIN vm.filters = DOMAIN used
      /\ \A j \in DOMAIN used : vm.filters[j] \in FilterViews
      /\ \A j \in DOMAIN used : vm.filters[j].key = used[j]
      /\ \A j \in DOMAIN used : vm.filters[j].value = rules[i].filter[used[j]]
      /\ \A j \in DOMAIN used : vm.filters[j].pending = FALSE
  BY <1>a, <1>b
<1>7. vm.filters \in Seq(FilterViews) /\ Len(vm.filters) = Len(used)
  <2>1. \A j \in DOMAIN used : vm.filters[j] \in FilterViews
    BY <1>6
  <2>2. DOMAIN used = 1..Len(used) /\ Len(used) \in Nat
    BY <1>3
  <2>3. vm.filters \in [1..Len(used) -> FilterViews]
    BY <1>1, <1>6, <2>1, <2>2
  <2> QED
    BY <2>2, <2>3
<1>8. ShownKeys(vm.filters) = H /\ FilterKeys \ ShownKeys(vm.filters) = N
  <2>1. \A j \in DOMAIN used : vm.filters[j].key = used[j]
    BY <1>6
  <2>2. ShownKeys(vm.filters) = ToSet(used)
    BY <1>6, <2>1 DEF ShownKeys, ToSet
  <2> QED
    BY <1>3, <2>2
<1>9. LET action == NewAction(doc[i], FALSE) IN
        /\ IsActionView(action) /\ NumbersInRange(action)
        /\ action.type = doc[i].type /\ action.bounds = ReadAction(doc[i].type, doc[i].fields)
        /\ action.shown = action.bounds /\ action.dirty = {} /\ action.pending = FALSE
  BY NewActionIsView
<1>10. IsRuleView(vm)
  <2>1. vm \in [action : {vm.action}, filters : Seq(FilterViews), unused : Seq(FilterKeys),
                deleting : SUBSET FilterKeys, triggers : SUBSET TriggerFlags, triggersPending : BOOLEAN]
    BY <1>1, <1>2, <1>4, <1>7
  <2> QED
    <3>1. IsActionView(vm.action)
      BY <1>1, <1>9
    <3>2. \A j, k \in DOMAIN vm.filters : vm.filters[j].key = vm.filters[k].key => j = k
      BY <1>3, <1>6 DEF IsInjective
    <3>3. vm.unused = Selected(kAllFilterKey, FilterKeys \ ShownKeys(vm.filters)) /\ Len(vm.filters) + Len(vm.unused) = 3
      BY <1>1, <1>5, <1>7, <1>8
    <3> QED
      BY <2>1, <3>1, <3>2, <3>3 DEF IsRuleView
<1>11. Shows(vm, rules[i], doc[i])
  <2>1. \A f \in Range(vm.filters) : (f.pending \/ f.value = rules[i].filter[f.key]) /\ f.key \notin vm.deleting
    <3>1. \A j \in DOMAIN used : vm.filters[j].value = rules[i].filter[vm.filters[j].key]
      BY <1>6
    <3> QED
      BY <1>1, <1>6, <3>1, ZenonT(60) DEF Range
  <2>2. \A k \in ToSet(vm.unused) : rules[i].filter[k] = NoFilter
    BY <1>1, <1>4 DEF HasFilter, FilterValue
  <2>3. rules[i].type = doc[i].type
    BY DEF Agrees
  <2> QED
    BY <1>1, <1>9, <2>1, <2>2, <2>3 DEF Shows
<1> QED
  BY <1>1, <1>9, <1>10, <1>11 DEF vm

\* What stands where after an element was taken out or put in.
Removed(s, j, r) ==
  /\ Len(r) = Len(s) - 1
  /\ \A a \in 1..(j - 1) : r[a] = s[a]
  /\ \A a \in j..(Len(s) - 1) : r[a] = s[a + 1]

Inserted(s, j, e, r) ==
  /\ Len(r) = Len(s) + 1
  /\ \A a \in 1..(j - 1) : r[a] = s[a]
  /\ r[j] = e
  /\ \A a \in (j + 1)..(Len(s) + 1) : r[a] = s[a - 1]

LEMMA RemovedAt ==
  ASSUME NEW T, NEW s \in Seq(T), NEW j \in 1..Len(s)
  PROVE  RemoveAt(s, j) \in Seq(T) /\ Removed(s, j, RemoveAt(s, j))
<1> DEFINE u == SubSeq(s, 1, j - 1)
           w == SubSeq(s, j + 1, Len(s))
<1>1. /\ u \in Seq(T) /\ Len(u) = j - 1 /\ \A a \in 1..(j - 1) : u[a] = s[a]
  BY SubSeqProperties
<1>2. /\ w \in Seq(T) /\ Len(w) = Len(s) - j /\ \A a \in 1..(Len(s) - j) : w[a] = s[j + a]
  <2>1. /\ w \in Seq(T) /\ Len(w) = (IF j + 1 <= Len(s) THEN Len(s) - (j + 1) + 1 ELSE 0)
        /\ \A a \in 1..(Len(s) - (j + 1) + 1) : w[a] = s[j + 1 + a - 1]
    BY SubSeqProperties
  <2> QED
    BY <2>1
<1> HIDE DEF u, w
<1>3. /\ u \o w \in Seq(T) /\ Len(u \o w) = Len(s) - 1
      /\ \A a \in 1..(Len(s) - 1) : (u \o w)[a] = IF a <= j - 1 THEN u[a] ELSE w[a - (j - 1)]
  <2>1. /\ u \o w \in Seq(T) /\ Len(u \o w) = Len(u) + Len(w)
        /\ \A a \in 1..(Len(u) + Len(w)) : (u \o w)[a] = IF a <= Len(u) THEN u[a] ELSE w[a - Len(u)]
    BY <1>1, <1>2, ConcatProperties
  <2>2. Len(u) + Len(w) = Len(s) - 1
    BY <1>1, <1>2
  <2> QED
    BY <1>1, <2>1, <2>2
<1>4. RemoveAt(s, j) = u \o w
  BY DEF RemoveAt, u, w
<1>5. ASSUME NEW a \in 1..(j - 1)
      PROVE  (u \o w)[a] = s[a]
  BY <1>1, <1>3
<1>6. ASSUME NEW a \in j..(Len(s) - 1)
      PROVE  (u \o w)[a] = s[a + 1]
  BY <1>2, <1>3
<1> QED
  BY <1>3, <1>4, <1>5, <1>6 DEF Removed

LEMMA InsertedAt ==
  ASSUME NEW T, NEW s \in Seq(T), NEW j \in 1..(Len(s) + 1), NEW e \in T
  PROVE  InsertAt(s, j, e) \in Seq(T) /\ Inserted(s, j, e, InsertAt(s, j, e))
<1> DEFINE u == SubSeq(s, 1, j - 1)
           w == SubSeq(s, j, Len(s))
           m == u \o <<e>>
<1>1. /\ u \in Seq(T) /\ Len(u) = j - 1 /\ \A a \in 1..(j - 1) : u[a] = s[a]
  BY SubSeqProperties
<1>2. /\ w \in Seq(T) /\ Len(w) = Len(s) - j + 1 /\ \A a \in 1..(Len(s) - j + 1) : w[a] = s[j + a - 1]
  <2>1. /\ w \in Seq(T) /\ Len(w) = (IF j <= Len(s) THEN Len(s) - j + 1 ELSE 0)
        /\ \A a \in 1..(Len(s) - j + 1) : w[a] = s[j + a - 1]
    BY SubSeqProperties
  <2> QED
    BY <2>1
<1> HIDE DEF u, w
<1>3. /\ m \in Seq(T) /\ Len(m) = j
      /\ \A a \in 1..(j - 1) : m[a] = u[a]
      /\ m[j] = e
  <2>1. <<e>> \in Seq(T) /\ Len(<<e>>) = 1 /\ <<e>>[1] = e
    OBVIOUS
  <2> QED
    BY <1>1, <2>1, ConcatProperties
<1> HIDE DEF m
<1>4. /\ m \o w \in Seq(T) /\ Len(m \o w) = Len(s) + 1
      /\ \A a \in 1..(Len(s) + 1) : (m \o w)[a] = IF a <= j THEN m[a] ELSE w[a - j]
  BY <1>2, <1>3, ConcatProperties
<1>5. InsertAt(s, j, e) = m \o w
  BY DEF InsertAt, u, w, m
<1>6. ASSUME NEW a \in 1..(j - 1)
      PROVE  (m \o w)[a] = s[a]
  BY <1>1, <1>3, <1>4
<1>7. (m \o w)[j] = e
  BY <1>3, <1>4
<1>8. ASSUME NEW a \in (j + 1)..(Len(s) + 1)
      PROVE  (m \o w)[a] = s[a - 1]
  BY <1>2, <1>4
<1> QED
  BY <1>4, <1>5, <1>6, <1>7, <1>8 DEF Inserted

\* The keys in the order of the enumeration.
Pos(k) == CASE k = "process" -> 1 [] k = "class" -> 2 [] k = "title" -> 3

Ordered(u) == \A a, b \in DOMAIN u : a < b => Pos(u[a]) < Pos(u[b])

LEMMA PosOf ==
  /\ \A k \in FilterKeys : Pos(k) \in 1..3
  /\ \A k, l \in FilterKeys : Pos(k) = Pos(l) => k = l
  /\ \A k, l \in FilterKeys :
       (\E a, b \in DOMAIN kAllFilterKey : a < b /\ kAllFilterKey[a] = k /\ kAllFilterKey[b] = l) <=> Pos(k) < Pos(l)
<1>1. Pos("process") = 1 /\ Pos("class") = 2 /\ Pos("title") = 3
  BY DEF Pos
<1>2. FilterKeys = {"process", "class", "title"}
  BY DEF FilterKeys
<1>3. /\ DOMAIN kAllFilterKey = 1..3
      /\ kAllFilterKey[1] = "process" /\ kAllFilterKey[2] = "class" /\ kAllFilterKey[3] = "title"
  BY DEF kAllFilterKey
<1>4. \A a \in 1..3 : Pos(kAllFilterKey[a]) = a
  BY <1>1, <1>3
<1>5. ASSUME NEW k \in FilterKeys, NEW l \in FilterKeys
      PROVE  (\E a, b \in DOMAIN kAllFilterKey : a < b /\ kAllFilterKey[a] = k /\ kAllFilterKey[b] = l)
                <=> Pos(k) < Pos(l)
  <2>1. kAllFilterKey[Pos(k)] = k /\ kAllFilterKey[Pos(l)] = l /\ Pos(k) \in 1..3 /\ Pos(l) \in 1..3
    BY <1>1, <1>2, <1>3
  <2> QED
    BY <1>3, <1>4, <2>1
<1> QED
  BY <1>1, <1>2, <1>5

\* At most three keys are in order.
LEMMA OrderedLength ==
  ASSUME NEW u \in Seq(FilterKeys), Ordered(u)
  PROVE  Len(u) <= 3
<1>1. \A a \in 1..Len(u) : Pos(u[a]) \in 1..3
  BY PosOf
<1>2. ASSUME Len(u) > 3
      PROVE  FALSE
  <2>1. 1 \in DOMAIN u /\ 2 \in DOMAIN u /\ 3 \in DOMAIN u /\ 4 \in DOMAIN u
    BY <1>2
  <2>2. Pos(u[1]) < Pos(u[2]) /\ Pos(u[2]) < Pos(u[3]) /\ Pos(u[3]) < Pos(u[4])
    BY <2>1 DEF Ordered
  <2> QED
    BY <1>1, <1>2, <2>1, <2>2
<1> QED
  BY <1>2

LEMMA SelectedOrdered ==
  ASSUME NEW S
  PROVE  Ordered(Selected(kAllFilterKey, S))
<1> DEFINE u == Selected(kAllFilterKey, S)
<1>1. Pos("process") = 1 /\ Pos("class") = 2 /\ Pos("title") = 3
  BY DEF Pos
<1>2. \/ u = <<"process", "class", "title">> \/ u = <<"process", "class">> \/ u = <<"process", "title">>
      \/ u = <<"process">> \/ u = <<"class", "title">> \/ u = <<"class">> \/ u = <<"title">> \/ u = <<>>
  BY KeysOf
<1> HIDE DEF u
<1>3. Ordered(u)
  <2>3. CASE u = <<"process", "class", "title">>
    <3>1. DOMAIN u = 1..3 /\ Pos(u[1]) = 1 /\ Pos(u[2]) = 2 /\ Pos(u[3]) = 3
      BY <1>1, <2>3
    <3> QED
      BY <3>1 DEF Ordered
  <2>4. CASE u = <<"process", "class">>
    <3>1. DOMAIN u = 1..2 /\ Pos(u[1]) = 1 /\ Pos(u[2]) = 2
      BY <1>1, <2>4
    <3> QED
      BY <3>1 DEF Ordered
  <2>5. CASE u = <<"process", "title">>
    <3>1. DOMAIN u = 1..2 /\ Pos(u[1]) = 1 /\ Pos(u[2]) = 3
      BY <1>1, <2>5
    <3> QED
      BY <3>1 DEF Ordered
  <2>6. CASE u = <<"class", "title">>
    <3>1. DOMAIN u = 1..2 /\ Pos(u[1]) = 2 /\ Pos(u[2]) = 3
      BY <1>1, <2>6
    <3> QED
      BY <3>1 DEF Ordered
  <2>7. CASE u = <<"process">> \/ u = <<"class">> \/ u = <<"title">> \/ u = <<>>
    <3>1. \A a, b \in DOMAIN u : a = b
      BY <2>7
    <3>2. DOMAIN u \subseteq 1..1
      BY <2>7
    <3> QED
      BY <3>1, <3>2 DEF Ordered
  <2> QED
    BY <1>2, <2>3, <2>4, <2>5, <2>6, <2>7
<1> QED
  BY <1>3 DEF u

LEMMA UpToThree ==
  ASSUME NEW m \in 0..3, NEW b \in 1..m
  PROVE  b = 1 \/ b = 2 \/ b = 3
OBVIOUS

LEMMA SameNumbers ==
  ASSUME NEW m \in 0..3, NEW p1 \in Int, NEW p2 \in Int, NEW p3 \in Int,
         NEW n \in 0..3, NEW q1 \in Int, NEW q2 \in Int, NEW q3 \in Int,
         2 <= m => p1 < p2, 3 <= m => p2 < p3,
         2 <= n => q1 < q2, 3 <= n => q2 < q3,
         1 <= m => (1 <= n /\ p1 = q1) \/ (2 <= n /\ p1 = q2) \/ (3 <= n /\ p1 = q3),
         2 <= m => (1 <= n /\ p2 = q1) \/ (2 <= n /\ p2 = q2) \/ (3 <= n /\ p2 = q3),
         3 <= m => (1 <= n /\ p3 = q1) \/ (2 <= n /\ p3 = q2) \/ (3 <= n /\ p3 = q3),
         1 <= n => (1 <= m /\ q1 = p1) \/ (2 <= m /\ q1 = p2) \/ (3 <= m /\ q1 = p3),
         2 <= n => (1 <= m /\ q2 = p1) \/ (2 <= m /\ q2 = p2) \/ (3 <= m /\ q2 = p3),
         3 <= n => (1 <= m /\ q3 = p1) \/ (2 <= m /\ q3 = p2) \/ (3 <= m /\ q3 = p3)
  PROVE  m = n /\ (1 <= m => p1 = q1) /\ (2 <= m => p2 = q2) /\ (3 <= m => p3 = q3)
OBVIOUS

\* Two sequences of keys in order that have the same keys are the same.
LEMMA OrderedUnique ==
  ASSUME NEW u \in Seq(FilterKeys), NEW w \in Seq(FilterKeys), Ordered(u), Ordered(w), ToSet(u) = ToSet(w)
  PROVE  u = w
<1> DEFINE p(a) == IF a <= Len(u) THEN Pos(u[a]) ELSE 0
           q(a) == IF a <= Len(w) THEN Pos(w[a]) ELSE 0
<1>0. DOMAIN u = 1..Len(u) /\ DOMAIN w = 1..Len(w) /\ Len(u) \in Nat /\ Len(w) \in Nat
  OBVIOUS
<1>1. Len(u) \in 0..3 /\ Len(w) \in 0..3
  <2>1. Len(u) <= 3 /\ Len(w) <= 3
    BY OrderedLength
  <2> QED
    BY <1>0, <2>1
<1>2. /\ \A a \in 1..Len(u) : u[a] \in FilterKeys /\ p(a) = Pos(u[a]) /\ p(a) \in 1..3
      /\ \A a \in 1..Len(w) : w[a] \in FilterKeys /\ q(a) = Pos(w[a]) /\ q(a) \in 1..3
  <2>1. (\A a \in 1..Len(u) : u[a] \in FilterKeys) /\ (\A a \in 1..Len(w) : w[a] \in FilterKeys)
    BY <1>0
  <2> QED
    BY <1>0, <2>1, PosOf
<1>3. \A a \in 1..Len(u) : \E b \in 1..Len(w) : p(a) = q(b)
  <2> SUFFICES ASSUME NEW a \in 1..Len(u)
               PROVE  \E b \in 1..Len(w) : p(a) = q(b)
    OBVIOUS
  <2>1. u[a] \in ToSet(w)
    BY <1>0 DEF ToSet
  <2>2. PICK b \in 1..Len(w) : u[a] = w[b]
    BY <1>0, <2>1 DEF ToSet
  <2> QED
    BY <1>2, <2>2
<1>4. \A b \in 1..Len(w) : \E a \in 1..Len(u) : p(a) = q(b)
  <2> SUFFICES ASSUME NEW b \in 1..Len(w)
               PROVE  \E a \in 1..Len(u) : p(a) = q(b)
    OBVIOUS
  <2>1. w[b] \in ToSet(u)
    BY <1>0 DEF ToSet
  <2>2. PICK a \in 1..Len(u) : u[a] = w[b]
    BY <1>0, <2>1 DEF ToSet
  <2> QED
    BY <1>2, <2>2
<1>5. \A a \in {1, 2, 3} : p(a) \in Int /\ q(a) \in Int
  BY <1>0, <1>1, <1>2
<1>6. (2 <= Len(u) => p(1) < p(2)) /\ (3 <= Len(u) => p(2) < p(3))
  BY <1>0, <1>1 DEF Ordered
<1>7. (2 <= Len(w) => q(1) < q(2)) /\ (3 <= Len(w) => q(2) < q(3))
  BY <1>0, <1>1 DEF Ordered
<1> HIDE DEF p, q
<1>8. \A a \in {1, 2, 3} : a <= Len(u) =>
        (1 <= Len(w) /\ p(a) = q(1)) \/ (2 <= Len(w) /\ p(a) = q(2)) \/ (3 <= Len(w) /\ p(a) = q(3))
  <2> SUFFICES ASSUME NEW a \in {1, 2, 3}, a <= Len(u)
               PROVE  (1 <= Len(w) /\ p(a) = q(1)) \/ (2 <= Len(w) /\ p(a) = q(2)) \/ (3 <= Len(w) /\ p(a) = q(3))
    OBVIOUS
  <2>1. a \in 1..Len(u)
    BY <1>1
  <2>2. PICK b \in 1..Len(w) : p(a) = q(b)
    BY <1>3, <2>1
  <2>3. b = 1 \/ b = 2 \/ b = 3
    BY <1>1, UpToThree
  <2> QED
    BY <1>1, <2>2, <2>3
<1>9. \A b \in {1, 2, 3} : b <= Len(w) =>
        (1 <= Len(u) /\ q(b) = p(1)) \/ (2 <= Len(u) /\ q(b) = p(2)) \/ (3 <= Len(u) /\ q(b) = p(3))
  <2> SUFFICES ASSUME NEW b \in {1, 2, 3}, b <= Len(w)
               PROVE  (1 <= Len(u) /\ q(b) = p(1)) \/ (2 <= Len(u) /\ q(b) = p(2)) \/ (3 <= Len(u) /\ q(b) = p(3))
    OBVIOUS
  <2>1. b \in 1..Len(w)
    BY <1>1
  <2>2. PICK a \in 1..Len(u) : p(a) = q(b)
    BY <1>4, <2>1
  <2>3. a = 1 \/ a = 2 \/ a = 3
    BY <1>1, UpToThree
  <2> QED
    BY <1>1, <2>2, <2>3
<1>10. PICK p1 \in Int, p2 \in Int, p3 \in Int, q1 \in Int, q2 \in Int, q3 \in Int :
         p1 = p(1) /\ p2 = p(2) /\ p3 = p(3) /\ q1 = q(1) /\ q2 = q(2) /\ q3 = q(3)
  BY <1>5
<1>11. Len(u) = Len(w) /\ (1 <= Len(u) => p1 = q1) /\ (2 <= Len(u) => p2 = q2) /\ (3 <= Len(u) => p3 = q3)
  <2>1. PICK m, n : m = Len(u) /\ n = Len(w)
    OBVIOUS
  <2>2. /\ 2 <= m => p1 < p2
        /\ 3 <= m => p2 < p3
        /\ 2 <= n => q1 < q2
        /\ 3 <= n => q2 < q3
    BY <1>6, <1>7, <1>10, <2>1
  <2>3. /\ 1 <= m => (1 <= n /\ p1 = q1) \/ (2 <= n /\ p1 = q2) \/ (3 <= n /\ p1 = q3)
        /\ 2 <= m => (1 <= n /\ p2 = q1) \/ (2 <= n /\ p2 = q2) \/ (3 <= n /\ p2 = q3)
        /\ 3 <= m => (1 <= n /\ p3 = q1) \/ (2 <= n /\ p3 = q2) \/ (3 <= n /\ p3 = q3)
    BY <1>8, <1>10, <2>1
  <2>4. /\ 1 <= n => (1 <= m /\ q1 = p1) \/ (2 <= m /\ q1 = p2) \/ (3 <= m /\ q1 = p3)
        /\ 2 <= n => (1 <= m /\ q2 = p1) \/ (2 <= m /\ q2 = p2) \/ (3 <= m /\ q2 = p3)
        /\ 3 <= n => (1 <= m /\ q3 = p1) \/ (2 <= m /\ q3 = p2) \/ (3 <= m /\ q3 = p3)
    BY <1>9, <1>10, <2>1
  <2>5. m \in 0..3 /\ n \in 0..3
    BY <1>1, <2>1
  <2>6. m = n /\ (1 <= m => p1 = q1) /\ (2 <= m => p2 = q2) /\ (3 <= m => p3 = q3)
    BY <2>2, <2>3, <2>4, <2>5, SameNumbers
  <2> QED
    BY <2>1, <2>6
<1>12. ASSUME NEW a \in 1..Len(u)
       PROVE  u[a] = w[a]
  <2>1. a = 1 \/ a = 2 \/ a = 3
    BY <1>1, UpToThree
  <2>2. p(a) = q(a)
    BY <1>10, <1>11, <2>1, SMTT(30)
  <2> QED
    BY <1>2, <1>11, <2>2, PosOf
<1> QED
  BY <1>0, <1>11, <1>12, SeqEqual

\* A key that is taken from the unused ones ...
LEMMA KeyTaken ==
  ASSUME NEW S, NEW j \in 1..Len(Selected(kAllFilterKey, S))
  PROVE  LET u == Selected(kAllFilterKey, S) IN
           RemoveAt(u, j) = Selected(kAllFilterKey, S \ {u[j]})
<1> DEFINE u == Selected(kAllFilterKey, S)
<1>1. u \in Seq(FilterKeys) /\ ToSet(u) = FilterKeys \cap S /\ IsInjective(u) /\ Ordered(u)
  BY KeysSelected, SelectedOrdered
<1> DEFINE w == Selected(kAllFilterKey, S \ {u[j]})
<1>2. w \in Seq(FilterKeys) /\ ToSet(w) = (FilterKeys \cap S) \ {u[j]} /\ Ordered(w)
  <2>1. ToSet(w) = FilterKeys \cap (S \ {u[j]}) /\ w \in Seq(FilterKeys) /\ Ordered(w)
    BY KeysSelected, SelectedOrdered
  <2> QED
    BY <2>1
<1>j. j \in 1..Len(u)
  OBVIOUS
<1> HIDE DEF u, w
<1> DEFINE r == RemoveAt(u, j)
<1>3. r \in Seq(FilterKeys) /\ Removed(u, j, r)
  BY <1>1, <1>j, RemovedAt
<1> HIDE DEF r
<1>4. /\ Len(r) = Len(u) - 1 /\ DOMAIN r = 1..(Len(u) - 1) /\ DOMAIN u = 1..Len(u) /\ Len(u) \in Nat
      /\ \A a \in 1..(j - 1) : r[a] = u[a]
      /\ \A a \in j..(Len(u) - 1) : r[a] = u[a + 1]
  BY <1>1, <1>3 DEF Removed
<1>5. Ordered(r)
  <2> SUFFICES ASSUME NEW a \in DOMAIN r, NEW b \in DOMAIN r, a < b
               PROVE  Pos(r[a]) < Pos(r[b])
    BY DEF Ordered
  <2>1. \E c, d \in 1..Len(u) : c < d /\ r[a] = u[c] /\ r[b] = u[d]
    <3>1. CASE b < j
      BY <1>j, <1>4, <3>1
    <3>2. CASE a < j /\ j <= b
      <4>1. b + 1 \in 1..Len(u) /\ a \in 1..Len(u) /\ a < b + 1
        BY <1>j, <1>4, <3>2
      <4> QED
        BY <1>j, <1>4, <3>2, <4>1
    <3>3. CASE j <= a
      <4>1. b + 1 \in 1..Len(u) /\ a + 1 \in 1..Len(u) /\ a + 1 < b + 1
        BY <1>j, <1>4, <3>3
      <4> QED
        BY <1>j, <1>4, <3>3, <4>1
    <3> QED
      BY <1>j, <1>4, <3>1, <3>2, <3>3
  <2> QED
    BY <1>1, <1>4, <2>1 DEF Ordered
<1>6. ToSet(r) = ToSet(u) \ {u[j]}
  <2>1. ASSUME NEW a \in DOMAIN r
        PROVE  r[a] \in ToSet(u) \ {u[j]}
    <3>1. \E c \in 1..Len(u) : c # j /\ r[a] = u[c]
      <4>1. CASE a < j
        BY <1>j, <1>4, <4>1
      <4>2. CASE j <= a
        <5>1. a + 1 \in 1..Len(u) /\ a + 1 # j /\ r[a] = u[a + 1]
          BY <1>j, <1>4, <4>2
        <5> QED
          BY <5>1
      <4> QED
        BY <1>j, <1>4, <4>1, <4>2
    <3> QED
      BY <1>1, <1>j, <1>4, <3>1 DEF ToSet, IsInjective
  <2>2. ASSUME NEW c \in DOMAIN u, u[c] # u[j]
        PROVE  u[c] \in ToSet(r)
    <3>1. \E a \in DOMAIN r : r[a] = u[c]
      <4>1. CASE c < j
        BY <1>j, <1>4, <4>1
      <4>2. CASE j < c
        <5>1. c - 1 \in j..(Len(u) - 1) /\ (c - 1) + 1 = c /\ c - 1 \in DOMAIN r
          BY <1>j, <1>4, <4>2
        <5>2. r[c - 1] = u[c]
          BY <1>4, <5>1
        <5> QED
          BY <5>1, <5>2
      <4>3. c # j
        BY <2>2
      <4> QED
        BY <1>j, <1>4, <4>1, <4>2, <4>3
    <3> QED
      BY <3>1 DEF ToSet
  <2> QED
    BY <2>1, <2>2 DEF ToSet
<1>7. r = w
  BY <1>1, <1>2, <1>3, <1>5, <1>6, OrderedUnique
<1> QED
  BY <1>7 DEF r, u, w

LEMMA WithinThree ==
  ASSUME NEW m \in 0..3, NEW c \in 0..m
  PROVE  c \in 0..3
OBVIOUS

LEMMA PairCardinality ==
  ASSUME NEW x, NEW y, x # y
  PROVE  IsFiniteSet({x} \cup {y}) /\ Cardinality({x} \cup {y}) = 2
<1>1. IsFiniteSet({x}) /\ Cardinality({x}) = 1
  BY FS_Singleton
<1>2. y \notin {x}
  OBVIOUS
<1> QED
  BY <1>1, <1>2, FS_AddElement

LEMMA TripleCardinality ==
  ASSUME NEW x, NEW y, NEW z, x # y, x # z, y # z
  PROVE  Cardinality(({x} \cup {y}) \cup {z}) = 3
<1>1. IsFiniteSet({x} \cup {y}) /\ Cardinality({x} \cup {y}) = 2
  BY PairCardinality
<1>2. z \notin {x} \cup {y}
  OBVIOUS
<1>3. Cardinality(({x} \cup {y}) \cup {z}) = Cardinality({x} \cup {y}) + 1
  BY <1>1, <1>2, FS_AddElement
<1> QED
  BY <1>1, <1>3

\* ... and one that is put back where it belongs.
LEMMA PlaceOf ==
  ASSUME NEW u \in Seq(FilterKeys), Ordered(u), NEW key \in FilterKeys, key \notin ToSet(u)
  PROVE  \E c \in 0..Len(u) :
           /\ \A a \in 1..c : Pos(u[a]) < Pos(key)
           /\ \A a \in (c + 1)..Len(u) : Pos(key) < Pos(u[a])
           /\ Cardinality({k \in ToSet(u) : Pos(k) < Pos(key)}) = c
<1> DEFINE p(a) == Pos(u[a])
           K == Pos(key)
           before == {k \in ToSet(u) : Pos(k) < Pos(key)}
<1>0. DOMAIN u = 1..Len(u) /\ Len(u) \in Nat
  OBVIOUS
<1>1. Len(u) \in 0..3
  BY <1>0, OrderedLength
<1>2. \A a \in 1..Len(u) : u[a] \in FilterKeys /\ p(a) \in 1..3 /\ p(a) # K
  <2> SUFFICES ASSUME NEW a \in 1..Len(u)
               PROVE  u[a] \in FilterKeys /\ p(a) \in 1..3 /\ p(a) # K
    OBVIOUS
  <2>1. u[a] \in FilterKeys /\ u[a] # key
    BY <1>0 DEF ToSet
  <2> QED
    BY <2>1, PosOf
<1>3. K \in 1..3
  BY PosOf
<1>4. \A a, b \in 1..Len(u) : a < b => p(a) < p(b)
  BY <1>0 DEF Ordered
<1>5. before = {u[a] : a \in {b \in 1..Len(u) : p(b) < K}}
  BY <1>0 DEF ToSet
<1> HIDE DEF p, K, before
<1> DEFINE Place(c) == /\ \A a \in 1..c : p(a) < K
                       /\ \A a \in (c + 1)..Len(u) : K < p(a)
<1>6. \E c \in 0..Len(u) : Place(c)
  <2>1. CASE Len(u) = 0
    <3>1. Place(0)
      BY <2>1
    <3> QED
      BY <2>1, <3>1
  <2>2. CASE Len(u) >= 1 /\ K < p(1)
    <3>1. ASSUME NEW a \in 1..Len(u)
          PROVE  K < p(a)
      <4>1. a = 1 \/ 1 < a
        BY <1>1
      <4> QED
        BY <1>1, <1>2, <1>3, <1>4, <2>2, <4>1
    <3>2. Place(0)
      BY <3>1
    <3> QED
      BY <1>1, <3>2
  <2>3. CASE Len(u) = 1 /\ p(1) < K
    <3>1. Place(1)
      BY <2>3
    <3> QED
      BY <2>3, <3>1
  <2>4. CASE Len(u) >= 2 /\ p(1) < K /\ K < p(2)
    <3>1. ASSUME NEW a \in 2..Len(u)
          PROVE  K < p(a)
      <4>1. a = 2 \/ 2 < a
        BY <1>1
      <4> QED
        BY <1>1, <1>2, <1>3, <1>4, <2>4, <4>1
    <3>2. Place(1)
      BY <2>4, <3>1
    <3> QED
      BY <1>1, <2>4, <3>2
  <2>5. CASE Len(u) = 2 /\ p(2) < K
    <3>1. p(1) < p(2) /\ p(1) \in 1..3 /\ p(2) \in 1..3
      BY <1>2, <1>4, <2>5
    <3>2. Place(2)
      BY <1>3, <2>5, <3>1
    <3> QED
      BY <2>5, <3>2
  <2>6. CASE Len(u) = 3 /\ p(2) < K /\ K < p(3)
    <3>1. p(1) < p(2) /\ p(1) \in 1..3 /\ p(2) \in 1..3
      BY <1>2, <1>4, <2>6
    <3>2. Place(2)
      BY <1>3, <2>6, <3>1
    <3> QED
      BY <2>6, <3>2
  <2>7. CASE Len(u) = 3 /\ p(3) < K
    <3>1. p(1) < p(2) /\ p(2) < p(3) /\ p(1) \in 1..3 /\ p(2) \in 1..3 /\ p(3) \in 1..3
      BY <1>2, <1>4, <2>7
    <3>2. p(1) < K /\ p(2) < K
      BY <1>3, <2>7, <3>1
    <3>3. Place(3)
      BY <2>7, <3>2
    <3> QED
      BY <2>7, <3>3
  <2>8. \A a \in {1, 2, 3} : a <= Len(u) => (p(a) < K \/ K < p(a))
    BY <1>1, <1>2, <1>3
  <2> QED
    BY <1>1, <2>1, <2>2, <2>3, <2>4, <2>5, <2>6, <2>7, <2>8
<1>7. PICK c \in 0..Len(u) : Place(c)
  BY <1>6
<1>8. before = {u[a] : a \in 1..c}
  <2>1. \A b \in 1..Len(u) : p(b) < K <=> b \in 1..c
    BY <1>1, <1>2, <1>3, <1>7
  <2> QED
    BY <1>1, <1>5, <2>1
<1>9. \A a, b \in 1..Len(u) : a < b => u[a] # u[b]
  BY <1>2, <1>4 DEF p
<1>10. Cardinality({u[a] : a \in 1..c}) = c
  <2>1. c \in 0..3
    BY <1>1, WithinThree
  <2>2. CASE c = 0
    <3>1. {u[a] : a \in 1..c} = {}
      BY <2>2
    <3> QED
      BY <2>2, <3>1, FS_EmptySet
  <2>3. CASE c = 1
    <3>1. {u[a] : a \in 1..c} = {u[1]}
      BY <2>3
    <3> QED
      BY <2>3, <3>1, FS_Singleton
  <2>4. CASE c = 2
    <3>1. {u[a] : a \in 1..c} = {u[1]} \cup {u[2]}
      BY <2>4
    <3>2. u[1] # u[2]
      BY <1>1, <1>7, <1>9, <2>4
    <3>3. Cardinality({u[1]} \cup {u[2]}) = 2
      BY <3>2, PairCardinality, Zenon
    <3> QED
      BY <2>4, <3>1, <3>3
  <2>5. CASE c = 3
    <3>1. {u[a] : a \in 1..c} = ({u[1]} \cup {u[2]}) \cup {u[3]}
      BY <2>5
    <3>2. u[1] # u[2] /\ u[1] # u[3] /\ u[2] # u[3]
      BY <1>1, <1>7, <1>9, <2>5
    <3>3. Cardinality(({u[1]} \cup {u[2]}) \cup {u[3]}) = 3
      <4>1. PICK x, y, z : x = u[1] /\ y = u[2] /\ z = u[3]
        OBVIOUS
      <4>2. x # y /\ x # z /\ y # z
        BY <3>2, <4>1
      <4>3. Cardinality(({x} \cup {y}) \cup {z}) = 3
        BY <4>2, TripleCardinality, Zenon
      <4> QED
        BY <4>1, <4>3
    <3> QED
      BY <2>5, <3>1, <3>3
  <2> QED
    BY <2>1, <2>2, <2>3, <2>4, <2>5
<1> QED
  BY <1>7, <1>8, <1>10 DEF p, K, before

LEMMA KeyReturned ==
  ASSUME NEW S, NEW key \in FilterKeys, key \notin S
  PROVE  InsertUnused(Selected(kAllFilterKey, S), key) = Selected(kAllFilterKey, S \cup {key})
<1> DEFINE u == Selected(kAllFilterKey, S)
           w == Selected(kAllFilterKey, S \cup {key})
<1>1. u \in Seq(FilterKeys) /\ ToSet(u) = FilterKeys \cap S /\ Ordered(u)
  BY KeysSelected, SelectedOrdered
<1>2. w \in Seq(FilterKeys) /\ ToSet(w) = (FilterKeys \cap S) \cup {key} /\ Ordered(w)
  <2>1. ToSet(w) = FilterKeys \cap (S \cup {key}) /\ w \in Seq(FilterKeys) /\ Ordered(w)
    BY KeysSelected, SelectedOrdered
  <2> QED
    BY <2>1
<1> HIDE DEF u, w
<1>3. key \notin ToSet(u)
  BY <1>1
<1>4. PICK c \in 0..Len(u) : /\ \A a \in 1..c : Pos(u[a]) < Pos(key)
                             /\ \A a \in (c + 1)..Len(u) : Pos(key) < Pos(u[a])
                             /\ Cardinality({k \in ToSet(u) : Pos(k) < Pos(key)}) = c
  BY <1>1, <1>3, PlaceOf
<1> DEFINE r == InsertAt(u, c + 1, key)
<1>5. InsertUnused(u, key) = r
  <2>1. {k \in ToSet(u) : \E a, b \in DOMAIN kAllFilterKey :
                            a < b /\ kAllFilterKey[a] = k /\ kAllFilterKey[b] = key}
          = {k \in ToSet(u) : Pos(k) < Pos(key)}
    <3>1. ToSet(u) \subseteq FilterKeys
      BY <1>1
    <3> QED
      BY <3>1, PosOf
  <2> QED
    BY <1>4, <2>1 DEF InsertUnused
<1>6. Len(u) \in Nat /\ c \in Nat /\ c + 1 \in 1..(Len(u) + 1)
  BY <1>1, <1>4
<1>7. r \in Seq(FilterKeys) /\ Inserted(u, c + 1, key, r)
  BY <1>1, <1>6, InsertedAt
<1> HIDE DEF r
<1>8. /\ Len(r) = Len(u) + 1 /\ DOMAIN r = 1..(Len(u) + 1) /\ DOMAIN u = 1..Len(u)
      /\ \A a \in 1..c : r[a] = u[a]
      /\ r[c + 1] = key
      /\ \A a \in (c + 2)..(Len(u) + 1) : r[a] = u[a - 1]
  BY <1>1, <1>6, <1>7 DEF Inserted
<1>9. Ordered(r)
  <2> SUFFICES ASSUME NEW a \in DOMAIN r, NEW b \in DOMAIN r, a < b
               PROVE  Pos(r[a]) < Pos(r[b])
    BY DEF Ordered
  <2>0. \A d, e \in 1..Len(u) : d < e => Pos(u[d]) < Pos(u[e])
    BY <1>1, <1>8 DEF Ordered
  <2>1. CASE b \in 1..c
    <3>1. a \in 1..c /\ r[a] = u[a] /\ r[b] = u[b] /\ a \in 1..Len(u) /\ b \in 1..Len(u)
      BY <1>6, <1>8, <2>1
    <3> QED
      BY <2>0, <3>1
  <2>2. CASE b = c + 1
    <3>1. a \in 1..c /\ r[a] = u[a] /\ r[b] = key
      BY <1>6, <1>8, <2>2
    <3> QED
      BY <1>4, <3>1
  <2>3. CASE b \in (c + 2)..(Len(u) + 1)
    <3>1. b - 1 \in (c + 1)..Len(u) /\ b - 1 \in 1..Len(u) /\ r[b] = u[b - 1]
      BY <1>6, <1>8, <2>3
    <3>2. CASE a \in 1..c
      <4>1. r[a] = u[a] /\ a \in 1..Len(u) /\ a < b - 1
        BY <1>6, <1>8, <2>3, <3>2
      <4> QED
        BY <2>0, <3>1, <4>1
    <3>3. CASE a = c + 1
      BY <1>4, <1>8, <3>1, <3>3
    <3>4. CASE a \in (c + 2)..(Len(u) + 1)
      <4>1. r[a] = u[a - 1] /\ a - 1 \in 1..Len(u) /\ a - 1 < b - 1
        BY <1>6, <1>8, <2>3, <3>4
      <4> QED
        BY <2>0, <3>1, <4>1
    <3> QED
      BY <1>6, <1>8, <3>2, <3>3, <3>4
  <2> QED
    BY <1>6, <1>8, <2>1, <2>2, <2>3
<1>10. ToSet(r) = ToSet(u) \cup {key}
  <2>1. ASSUME NEW a \in DOMAIN r
        PROVE  r[a] \in ToSet(u) \cup {key}
    <3>1. CASE a \in 1..c
      <4>1. r[a] = u[a] /\ a \in DOMAIN u
        BY <1>6, <1>8, <3>1
      <4> QED
        BY <4>1 DEF ToSet
    <3>2. CASE a = c + 1
      BY <1>8, <3>2
    <3>3. CASE a \in (c + 2)..(Len(u) + 1)
      <4>1. r[a] = u[a - 1] /\ a - 1 \in DOMAIN u
        BY <1>6, <1>8, <3>3
      <4> QED
        BY <4>1 DEF ToSet
    <3> QED
      BY <1>6, <1>8, <3>1, <3>2, <3>3
  <2>2. ASSUME NEW d \in DOMAIN u
        PROVE  \E a \in DOMAIN r : r[a] = u[d]
    <3>1. CASE d \in 1..c
      <4>1. d \in DOMAIN r /\ r[d] = u[d]
        BY <1>6, <1>8, <3>1
      <4> QED
        BY <4>1
    <3>2. CASE d \in (c + 1)..Len(u)
      <4>1. d + 1 \in DOMAIN r /\ r[d + 1] = u[(d + 1) - 1] /\ (d + 1) - 1 = d
        BY <1>6, <1>8, <3>2
      <4> QED
        BY <4>1
    <3> QED
      BY <1>6, <1>8, <3>1, <3>2
  <2>3. c + 1 \in DOMAIN r
    BY <1>6, <1>8
  <2>4. ASSUME NEW x \in ToSet(u)
        PROVE  x \in ToSet(r)
    <3>1. PICK d \in DOMAIN u : x = u[d]
      BY <2>4 DEF ToSet
    <3>2. PICK a \in DOMAIN r : r[a] = u[d]
      BY <2>2
    <3> QED
      BY <3>1, <3>2 DEF ToSet
  <2>5. key \in ToSet(r)
    BY <1>8, <2>3 DEF ToSet
  <2>6. ToSet(r) \subseteq ToSet(u) \cup {key}
    BY <2>1 DEF ToSet
  <2> QED
    BY <2>4, <2>5, <2>6
<1>11. r = w
  BY <1>1, <1>2, <1>7, <1>9, <1>10, OrderedUnique
<1> QED
  BY <1>5, <1>11 DEF u, w

-----------------------------------------------------------------------------
(* The user's edits                                                        *)

\* A view model is a record whose parts IsRuleView describes.
IsView(vm) ==
  vm = [action |-> vm.action, filters |-> vm.filters, unused |-> vm.unused,
        deleting |-> vm.deleting, triggers |-> vm.triggers, triggersPending |-> vm.triggersPending]
Parts(vm) ==
  /\ IsView(vm)
  /\ vm.filters \in Seq(FilterViews) /\ vm.unused \in Seq(FilterKeys) /\ vm.deleting \in SUBSET FilterKeys
  /\ vm.triggers \in SUBSET TriggerFlags /\ vm.triggersPending \in BOOLEAN

IsAction(a) == a = [type |-> a.type, bounds |-> a.bounds, shown |-> a.shown, dirty |-> a.dirty, pending |-> a.pending]
ActionParts(a) ==
  /\ IsAction(a)
  /\ a.type \in ActionTypes /\ a.bounds \in [FieldsOf(a.type) -> Int]
  /\ a.shown \in [FieldsOf(a.type) -> Int]
  /\ a.dirty \in SUBSET FieldsOf(a.type) /\ a.pending \in BOOLEAN

LEMMA RuleViewParts ==
  ASSUME NEW vm, IsRuleView(vm)
  PROVE  Parts(vm) /\ ActionParts(vm.action)
BY DEF IsRuleView, IsActionView, Parts, ActionParts, IsView, IsAction

LEMMA ActionPut ==
  ASSUME NEW vm, IsView(vm), NEW x, NEW new, new = [vm EXCEPT !.action = x]
  PROVE  /\ IsView(new)
         /\ new.action = x /\ new.filters = vm.filters /\ new.unused = vm.unused
         /\ new.deleting = vm.deleting /\ new.triggers = vm.triggers /\ new.triggersPending = vm.triggersPending
<1>1. PICK a, f, u, d, t, p : a = vm.action /\ f = vm.filters /\ u = vm.unused /\ d = vm.deleting
                                 /\ t = vm.triggers /\ p = vm.triggersPending
  OBVIOUS
<1>2. vm = [action |-> a, filters |-> f, unused |-> u, deleting |-> d, triggers |-> t, triggersPending |-> p]
  BY <1>1 DEF IsView
<1>3. new = [action |-> x, filters |-> f, unused |-> u, deleting |-> d, triggers |-> t, triggersPending |-> p]
  BY <1>2
<1>4. /\ IsView(new) /\ new.action = x /\ new.filters = f /\ new.unused = u
      /\ new.deleting = d /\ new.triggers = t /\ new.triggersPending = p
  BY <1>3 DEF IsView
<1> QED
  BY <1>1, <1>4

LEMMA FiltersPut ==
  ASSUME NEW vm, IsView(vm), NEW x, NEW new, new = [vm EXCEPT !.filters = x]
  PROVE  /\ IsView(new)
         /\ new.action = vm.action /\ new.filters = x /\ new.unused = vm.unused
         /\ new.deleting = vm.deleting /\ new.triggers = vm.triggers /\ new.triggersPending = vm.triggersPending
<1>1. PICK a, f, u, d, t, p : a = vm.action /\ f = vm.filters /\ u = vm.unused /\ d = vm.deleting
                                 /\ t = vm.triggers /\ p = vm.triggersPending
  OBVIOUS
<1>2. vm = [action |-> a, filters |-> f, unused |-> u, deleting |-> d, triggers |-> t, triggersPending |-> p]
  BY <1>1 DEF IsView
<1>3. new = [action |-> a, filters |-> x, unused |-> u, deleting |-> d, triggers |-> t, triggersPending |-> p]
  BY <1>2
<1>4. /\ IsView(new) /\ new.action = a /\ new.filters = x /\ new.unused = u
      /\ new.deleting = d /\ new.triggers = t /\ new.triggersPending = p
  BY <1>3 DEF IsView
<1> QED
  BY <1>1, <1>4

LEMMA UnusedPut ==
  ASSUME NEW vm, IsView(vm), NEW x, NEW new, new = [vm EXCEPT !.unused = x]
  PROVE  /\ IsView(new)
         /\ new.action = vm.action /\ new.filters = vm.filters /\ new.unused = x
         /\ new.deleting = vm.deleting /\ new.triggers = vm.triggers /\ new.triggersPending = vm.triggersPending
<1>1. PICK a, f, u, d, t, p : a = vm.action /\ f = vm.filters /\ u = vm.unused /\ d = vm.deleting
                                 /\ t = vm.triggers /\ p = vm.triggersPending
  OBVIOUS
<1>2. vm = [action |-> a, filters |-> f, unused |-> u, deleting |-> d, triggers |-> t, triggersPending |-> p]
  BY <1>1 DEF IsView
<1>3. new = [action |-> a, filters |-> f, unused |-> x, deleting |-> d, triggers |-> t, triggersPending |-> p]
  BY <1>2
<1>4. /\ IsView(new) /\ new.action = a /\ new.filters = f /\ new.unused = x
      /\ new.deleting = d /\ new.triggers = t /\ new.triggersPending = p
  BY <1>3 DEF IsView
<1> QED
  BY <1>1, <1>4

LEMMA DeletingPut ==
  ASSUME NEW vm, IsView(vm), NEW x, NEW new, new = [vm EXCEPT !.deleting = x]
  PROVE  /\ IsView(new)
         /\ new.action = vm.action /\ new.filters = vm.filters /\ new.unused = vm.unused
         /\ new.deleting = x /\ new.triggers = vm.triggers /\ new.triggersPending = vm.triggersPending
<1>1. PICK a, f, u, d, t, p : a = vm.action /\ f = vm.filters /\ u = vm.unused /\ d = vm.deleting
                                 /\ t = vm.triggers /\ p = vm.triggersPending
  OBVIOUS
<1>2. vm = [action |-> a, filters |-> f, unused |-> u, deleting |-> d, triggers |-> t, triggersPending |-> p]
  BY <1>1 DEF IsView
<1>3. new = [action |-> a, filters |-> f, unused |-> u, deleting |-> x, triggers |-> t, triggersPending |-> p]
  BY <1>2
<1>4. /\ IsView(new) /\ new.action = a /\ new.filters = f /\ new.unused = u
      /\ new.deleting = x /\ new.triggers = t /\ new.triggersPending = p
  BY <1>3 DEF IsView
<1> QED
  BY <1>1, <1>4

LEMMA TriggersPut ==
  ASSUME NEW vm, IsView(vm), NEW x, NEW new, new = [vm EXCEPT !.triggers = x]
  PROVE  /\ IsView(new)
         /\ new.action = vm.action /\ new.filters = vm.filters /\ new.unused = vm.unused
         /\ new.deleting = vm.deleting /\ new.triggers = x /\ new.triggersPending = vm.triggersPending
<1>1. PICK a, f, u, d, t, p : a = vm.action /\ f = vm.filters /\ u = vm.unused /\ d = vm.deleting
                                 /\ t = vm.triggers /\ p = vm.triggersPending
  OBVIOUS
<1>2. vm = [action |-> a, filters |-> f, unused |-> u, deleting |-> d, triggers |-> t, triggersPending |-> p]
  BY <1>1 DEF IsView
<1>3. new = [action |-> a, filters |-> f, unused |-> u, deleting |-> d, triggers |-> x, triggersPending |-> p]
  BY <1>2
<1>4. /\ IsView(new) /\ new.action = a /\ new.filters = f /\ new.unused = u
      /\ new.deleting = d /\ new.triggers = x /\ new.triggersPending = p
  BY <1>3 DEF IsView
<1> QED
  BY <1>1, <1>4

LEMMA TriggersPendingPut ==
  ASSUME NEW vm, IsView(vm), NEW new, new = [vm EXCEPT !.triggersPending = TRUE]
  PROVE  /\ IsView(new)
         /\ new.action = vm.action /\ new.filters = vm.filters /\ new.unused = vm.unused
         /\ new.deleting = vm.deleting /\ new.triggers = vm.triggers /\ new.triggersPending = TRUE
<1>1. PICK a, f, u, d, t, p : a = vm.action /\ f = vm.filters /\ u = vm.unused /\ d = vm.deleting
                                 /\ t = vm.triggers /\ p = vm.triggersPending
  OBVIOUS
<1>2. vm = [action |-> a, filters |-> f, unused |-> u, deleting |-> d, triggers |-> t, triggersPending |-> p]
  BY <1>1 DEF IsView
<1>3. new = [action |-> a, filters |-> f, unused |-> u, deleting |-> d, triggers |-> t, triggersPending |-> TRUE]
  BY <1>2
<1>4. new.action = a /\ new.filters = f /\ new.unused = u /\ new.deleting = d /\ new.triggers = t
  BY <1>3
<1>5. new.triggersPending = TRUE
  BY <1>3
<1>6. IsView(new)
  BY <1>3 DEF IsView
<1> QED
  BY <1>1, <1>4, <1>5, <1>6

LEMMA NumberKept ==
  ASSUME NEW vm, NEW rule, NEW node, IsRuleView(vm), Shows(vm, rule, node),
         NEW f \in FieldsOf(vm.action.type), NEW n \in Int,
         InRange(vm.action.type, f, n) \/ (f = "id" /\ n = 0),
         NEW new, new = [vm EXCEPT !.action = NumberEdited(@, f, n)]
  PROVE  IsRuleView(new) /\ Shows(new, rule, node) /\ new.action.pending
<1>0. PICK a, b : a = vm.action /\ b = NumberEdited(a, f, n)
  OBVIOUS
<1>p. Parts(vm) /\ ActionParts(a)
  BY <1>0, RuleViewParts
<1>1. new = [vm EXCEPT !.action = b]
  BY <1>0
<1>4. /\ IsAction(b)
      /\ b.type = a.type /\ b.bounds = a.bounds /\ b.shown = [a.shown EXCEPT ![f] = n]
      /\ b.dirty = a.dirty \cup {f} /\ b.pending = TRUE
  BY <1>0 DEF NumberEdited, IsAction
<1>6. /\ IsView(new)
      /\ new.action = b /\ new.filters = vm.filters /\ new.unused = vm.unused
      /\ new.deleting = vm.deleting /\ new.triggers = vm.triggers /\ new.triggersPending = vm.triggersPending
  <2>1. IsView(vm)
    BY <1>p DEF Parts
  <2>2. \A v : v = [vm EXCEPT !.action = b] =>
          /\ IsView(v) /\ v.action = b /\ v.filters = vm.filters /\ v.unused = vm.unused
          /\ v.deleting = vm.deleting /\ v.triggers = vm.triggers /\ v.triggersPending = vm.triggersPending
    BY <2>1, ActionPut
  <2> QED
    BY <1>1, <2>2
<1>5. IsActionView(b)
  <2>1. f \in FieldsOf(a.type)
    BY <1>0
  <2>2. /\ b.type \in ActionTypes /\ b.bounds \in [FieldsOf(b.type) -> Int] /\ b.shown \in [FieldsOf(b.type) -> Int]
        /\ b.dirty \in SUBSET FieldsOf(b.type) /\ b.pending \in BOOLEAN
    BY <1>4, <1>p, <2>1 DEF ActionParts
  <2> QED
    BY <1>4, <2>2 DEF IsActionView, IsAction
<1>7. IsRuleView(new)
  <2>1. new \in [action : {new.action}, filters : Seq(FilterViews), unused : Seq(FilterKeys),
                 deleting : SUBSET FilterKeys, triggers : SUBSET TriggerFlags, triggersPending : BOOLEAN]
    BY <1>6, <1>p DEF Parts, IsView
  <2>2. ShownKeys(new.filters) = ShownKeys(vm.filters)
    BY <1>6 DEF ShownKeys
  <2>3. /\ \A j, k \in DOMAIN vm.filters : vm.filters[j].key = vm.filters[k].key => j = k
        /\ vm.unused = Selected(kAllFilterKey, FilterKeys \ ShownKeys(vm.filters))
        /\ Len(vm.filters) + Len(vm.unused) = 3
    BY DEF IsRuleView
  <2> QED
    BY <1>5, <1>6, <2>1, <2>2, <2>3 DEF IsRuleView
<1>8. Shows(new, rule, node)
  <2>1. /\ a.type = rule.type /\ a.bounds = ReadAction(node.type, node.fields)
        /\ ReadsAction(node.type, node.fields)
        /\ \A g \in DOMAIN a.shown \ a.dirty : a.shown[g] = a.bounds[g]
        /\ NumbersInRange(a)
    BY <1>0 DEF Shows
  <2>2. NumbersInRange(b)
    <3>1. \A g \in FieldsOf(a.type) : b.shown[g] = IF g = f THEN n ELSE a.shown[g]
      BY <1>4, <1>p DEF ActionParts
    <3>2. InRange(a.type, f, n) \/ (f = "id" /\ n = 0)
      BY <1>0
    <3> QED
      BY <1>4, <2>1, <3>1, <3>2 DEF NumbersInRange
  <2>3. \A g \in DOMAIN b.shown \ b.dirty : b.shown[g] = b.bounds[g]
    BY <1>4, <1>p, <2>1 DEF ActionParts
  <2>4. /\ \A g \in Range(vm.filters) :
             (g.pending \/ g.value = rule.filter[g.key]) /\ (g.key \in vm.deleting => g.pending)
        /\ \A k \in ToSet(vm.unused) \ vm.deleting : rule.filter[k] = NoFilter
        /\ vm.triggersPending \/ vm.triggers = rule.triggers
    BY DEF Shows
  <2>5. b.type = rule.type /\ b.bounds = ReadAction(node.type, node.fields) /\ b.pending
    BY <1>4, <2>1
  <2> QED
    BY <1>6, <2>1, <2>2, <2>3, <2>4, <2>5 DEF Shows
<1> QED
  BY <1>4, <1>6, <1>7, <1>8

\* What the page shows of the conditions of a rule.
Conditions(filters, unused, deleting, rule) ==
  /\ filters \in Seq(FilterViews) /\ unused \in Seq(FilterKeys) /\ deleting \in SUBSET FilterKeys
  /\ \A j, k \in DOMAIN filters : filters[j].key = filters[k].key => j = k
  /\ unused = Selected(kAllFilterKey, FilterKeys \ ShownKeys(filters))
  /\ Len(filters) + Len(unused) = 3
  /\ \A j \in DOMAIN filters : filters[j].pending \/ filters[j].value = rule.filter[filters[j].key]
  /\ \A j \in DOMAIN filters : filters[j].key \in deleting => filters[j].pending
  /\ \A k \in ToSet(unused) \ deleting : rule.filter[k] = NoFilter

LEMMA ConditionsShown ==
  ASSUME NEW vm, NEW rule, NEW node, IsRuleView(vm), Shows(vm, rule, node)
  PROVE  Conditions(vm.filters, vm.unused, vm.deleting, rule)
<1>1. /\ vm.filters \in Seq(FilterViews) /\ vm.unused \in Seq(FilterKeys) /\ vm.deleting \in SUBSET FilterKeys
  BY RuleViewParts DEF Parts
<1>2. /\ \A j, k \in DOMAIN vm.filters : vm.filters[j].key = vm.filters[k].key => j = k
      /\ vm.unused = Selected(kAllFilterKey, FilterKeys \ ShownKeys(vm.filters))
      /\ Len(vm.filters) + Len(vm.unused) = 3
  BY DEF IsRuleView
<1>3. /\ \A f \in Range(vm.filters) : (f.pending \/ f.value = rule.filter[f.key]) /\ (f.key \in vm.deleting => f.pending)
      /\ \A k \in ToSet(vm.unused) \ vm.deleting : rule.filter[k] = NoFilter
  BY DEF Shows
<1>4. \A j \in DOMAIN vm.filters : vm.filters[j] \in Range(vm.filters)
  BY DEF Range
<1> QED
  BY <1>1, <1>2, <1>3, <1>4 DEF Conditions

\* A change of the conditions or of the triggers keeps the action.
LEMMA OtherKept ==
  ASSUME NEW vm, NEW rule, NEW node, IsRuleView(vm), Shows(vm, rule, node),
         NEW new, IsView(new), new.action = vm.action,
         Conditions(new.filters, new.unused, new.deleting, rule),
         new.triggers \in SUBSET TriggerFlags, new.triggersPending \in BOOLEAN,
         new.triggersPending \/ new.triggers = rule.triggers
  PROVE  IsRuleView(new) /\ Shows(new, rule, node)
<1>1. IsRuleView(new)
  <2>1. new.filters \in Seq(FilterViews) /\ new.unused \in Seq(FilterKeys) /\ new.deleting \in SUBSET FilterKeys
    BY DEF Conditions
  <2>2. new \in [action : {new.action}, filters : Seq(FilterViews), unused : Seq(FilterKeys),
                 deleting : SUBSET FilterKeys, triggers : SUBSET TriggerFlags, triggersPending : BOOLEAN]
    BY <2>1 DEF IsView
  <2>3. IsActionView(new.action)
    BY DEF IsRuleView
  <2>4. /\ \A j, k \in DOMAIN new.filters : new.filters[j].key = new.filters[k].key => j = k
        /\ new.unused = Selected(kAllFilterKey, FilterKeys \ ShownKeys(new.filters))
        /\ Len(new.filters) + Len(new.unused) = 3
    BY DEF Conditions
  <2> QED
    BY <2>2, <2>3, <2>4 DEF IsRuleView
<1>2. Shows(new, rule, node)
  <2>1. /\ new.action.type = rule.type
        /\ ReadsAction(node.type, node.fields)
        /\ new.action.bounds = ReadAction(node.type, node.fields)
        /\ NumbersInRange(new.action)
        /\ \A f \in DOMAIN new.action.shown \ new.action.dirty : new.action.shown[f] = new.action.bounds[f]
        /\ new.action.dirty # {} => new.action.pending
    BY DEF Shows
  <2>2. \A f \in Range(new.filters) :
          (f.pending \/ f.value = rule.filter[f.key]) /\ (f.key \in new.deleting => f.pending)
    BY DEF Range, Conditions
  <2>3. \A k \in ToSet(new.unused) \ new.deleting : rule.filter[k] = NoFilter
    BY DEF Conditions
  <2> QED
    BY <2>1, <2>2, <2>3 DEF Shows
<1> QED
  BY <1>1, <1>2

LEMMA ChangedAt ==
  ASSUME NEW T, NEW s \in Seq(T), NEW j \in DOMAIN s, NEW x \in T, NEW new, new = [s EXCEPT ![j] = x]
  PROVE  /\ new \in Seq(T) /\ Len(new) = Len(s) /\ DOMAIN new = DOMAIN s
         /\ \A a \in DOMAIN s : new[a] = IF a = j THEN x ELSE s[a]
OBVIOUS

LEMMA AppendedTo ==
  ASSUME NEW T, NEW s \in Seq(T), NEW x \in T, NEW new, new = Append(s, x)
  PROVE  /\ new \in Seq(T) /\ Len(new) = Len(s) + 1 /\ DOMAIN new = 1..(Len(s) + 1)
         /\ \A a \in 1..Len(s) : new[a] = s[a]
         /\ new[Len(s) + 1] = x
OBVIOUS

LEMMA ConditionSet ==
  ASSUME NEW filters, NEW unused, NEW deleting, NEW rule, Conditions(filters, unused, deleting, rule),
         NEW new \in Seq(FilterViews), Len(new) = Len(filters),
         \A a \in DOMAIN filters : new[a].key = filters[a].key,
         \A a \in DOMAIN filters : new[a].pending \/ new[a] = filters[a]
  PROVE  Conditions(new, unused, deleting, rule)
<1>1. /\ filters \in Seq(FilterViews)
      /\ \A a, b \in DOMAIN filters : filters[a].key = filters[b].key => a = b
      /\ \A a \in DOMAIN filters : filters[a].pending \/ filters[a].value = rule.filter[filters[a].key]
      /\ \A a \in DOMAIN filters : filters[a].key \in deleting => filters[a].pending
  BY DEF Conditions
<1>2. DOMAIN new = DOMAIN filters
  BY <1>1
<1>3. ShownKeys(new) = ShownKeys(filters)
  BY <1>2 DEF ShownKeys
<1>4. \A a \in DOMAIN new : new[a].pending \/ new[a].value = rule.filter[new[a].key]
  BY <1>1, <1>2
<1>5. \A a \in DOMAIN new : new[a].key \in deleting => new[a].pending
  BY <1>1, <1>2
<1>6. \A a, b \in DOMAIN new : new[a].key = new[b].key => a = b
  BY <1>1, <1>2
<1> QED
  BY <1>3, <1>4, <1>5, <1>6 DEF Conditions

LEMMA ConditionChanged ==
  ASSUME NEW filters, NEW unused, NEW deleting, NEW rule, Conditions(filters, unused, deleting, rule),
         NEW j \in DOMAIN filters, NEW v \in FilterValues
  PROVE  Conditions([filters EXCEPT ![j] = NewFilter(filters[j].key, v, TRUE)], unused, deleting, rule)
<1>1. filters \in Seq(FilterViews) /\ filters[j].key \in FilterKeys
  <2>1. filters \in Seq(FilterViews)
    BY DEF Conditions
  <2>2. filters[j] \in FilterViews
    BY <2>1
  <2> QED
    BY <2>1, <2>2 DEF FilterViews
<1>2. PICK x : x = NewFilter(filters[j].key, v, TRUE)
  OBVIOUS
<1>3. x \in FilterViews /\ x.key = filters[j].key
  BY <1>1, <1>2 DEF NewFilter, FilterViews
<1>4. x.pending
  BY <1>2 DEF NewFilter
<1>5. PICK new : new = [filters EXCEPT ![j] = x]
  OBVIOUS
<1>6. /\ new \in Seq(FilterViews) /\ Len(new) = Len(filters)
      /\ \A a \in DOMAIN filters : new[a] = IF a = j THEN x ELSE filters[a]
  BY <1>1, <1>3, <1>5, ChangedAt
<1>7. \A a \in DOMAIN filters : new[a].key = filters[a].key
  BY <1>3, <1>6
<1>8. \A a \in DOMAIN filters : new[a].pending \/ new[a] = filters[a]
  BY <1>4, <1>6
<1>9. Conditions(new, unused, deleting, rule)
  BY <1>6, <1>7, <1>8, ConditionSet
<1> QED
  BY <1>2, <1>5, <1>9

LEMMA ConditionAppended ==
  ASSUME NEW filters, NEW unused, NEW deleting, NEW rule, Conditions(filters, unused, deleting, rule),
         NEW j \in DOMAIN unused, NEW x, x.key = unused[j], x.pending,
         NEW new \in Seq(FilterViews), Len(new) = Len(filters) + 1,
         \A a \in 1..Len(filters) : new[a] = filters[a],
         new[Len(filters) + 1] = x
  PROVE  Conditions(new, RemoveAt(unused, j), deleting, rule)
<1>1. /\ filters \in Seq(FilterViews) /\ unused \in Seq(FilterKeys) /\ j \in 1..Len(unused)
      /\ unused[j] \in FilterKeys /\ DOMAIN filters = 1..Len(filters) /\ Len(filters) \in Nat
  BY DEF Conditions
<1>3. x.key = unused[j]
  OBVIOUS
<1>4. x.pending
  OBVIOUS
<1>5. /\ new \in Seq(FilterViews) /\ Len(new) = Len(filters) + 1 /\ DOMAIN new = 1..(Len(filters) + 1)
      /\ \A a \in 1..Len(filters) : new[a] = filters[a]
      /\ new[Len(filters) + 1] = x
  OBVIOUS
<1>6. \A a \in DOMAIN new : a \in DOMAIN filters \/ a = Len(filters) + 1
  BY <1>1, <1>5
<1>7. ShownKeys(new) = ShownKeys(filters) \cup {unused[j]}
  <2>1. ASSUME NEW a \in DOMAIN new
        PROVE  new[a].key \in ShownKeys(filters) \cup {unused[j]}
    BY <1>1, <1>3, <1>5, <1>6 DEF ShownKeys
  <2>2. ASSUME NEW a \in DOMAIN filters
        PROVE  a \in DOMAIN new /\ new[a] = filters[a]
    BY <1>1, <1>5
  <2>3. Len(filters) + 1 \in DOMAIN new
    BY <1>1, <1>5
  <2> QED
    BY <1>3, <1>5, <2>1, <2>2, <2>3 DEF ShownKeys
<1> DEFINE S == FilterKeys \ ShownKeys(filters)
<1>8. unused = Selected(kAllFilterKey, S) /\ ToSet(unused) = S
  <2>1. ToSet(Selected(kAllFilterKey, S)) = FilterKeys \cap S
    BY KeysSelected
  <2> QED
    BY <2>1 DEF Conditions
<1>9. RemoveAt(unused, j) = Selected(kAllFilterKey, S \ {unused[j]})
  <2>1. j \in 1..Len(Selected(kAllFilterKey, S))
    BY <1>1, <1>8
  <2> HIDE DEF S
  <2> QED
    BY <1>8, <2>1, KeyTaken
<1>10. FilterKeys \ ShownKeys(new) = S \ {unused[j]}
  BY <1>7
<1>11. unused[j] \notin ShownKeys(filters)
  <2>1. unused[j] \in ToSet(unused)
    BY DEF ToSet
  <2> QED
    BY <1>8, <2>1
<1> HIDE DEF S
<1>12. RemoveAt(unused, j) \in Seq(FilterKeys) /\ Len(RemoveAt(unused, j)) = Len(unused) - 1
  BY <1>1, RemovedAt DEF Removed
<1>13. ToSet(RemoveAt(unused, j)) \subseteq ToSet(unused)
  <2>1. ToSet(RemoveAt(unused, j)) = FilterKeys \cap (S \ {unused[j]})
    BY <1>9, KeysSelected
  <2> QED
    BY <1>8, <2>1
<1>14. \A a, b \in DOMAIN new : new[a].key = new[b].key => a = b
  <2> SUFFICES ASSUME NEW a \in DOMAIN new, NEW b \in DOMAIN new, new[a].key = new[b].key
               PROVE  a = b
    OBVIOUS
  <2>1. \A c \in DOMAIN filters : new[c].key = filters[c].key /\ new[c].key # unused[j]
    BY <1>1, <1>5, <1>11 DEF ShownKeys
  <2>2. CASE a \in DOMAIN filters /\ b \in DOMAIN filters
    BY <2>1, <2>2 DEF Conditions
  <2> QED
    BY <1>3, <1>5, <1>6, <2>1, <2>2
<1>15. \A a \in DOMAIN new : new[a].pending \/ (a \in DOMAIN filters /\ new[a] = filters[a])
  BY <1>1, <1>4, <1>5, <1>6
<1>a. \A a \in DOMAIN filters : filters[a].pending \/ filters[a].value = rule.filter[filters[a].key]
  BY DEF Conditions
<1>b. \A a \in DOMAIN filters : filters[a].key \in deleting => filters[a].pending
  BY DEF Conditions
<1>16. ASSUME NEW a \in DOMAIN new
       PROVE  /\ new[a].pending \/ new[a].value = rule.filter[new[a].key]
              /\ new[a].key \in deleting => new[a].pending
  <2>1. CASE new[a].pending
    BY <2>1
  <2>2. CASE a \in DOMAIN filters /\ new[a] = filters[a]
    <3>1. a \in DOMAIN filters
      BY <2>2
    <3>2. /\ filters[a].pending \/ filters[a].value = rule.filter[filters[a].key]
          /\ filters[a].key \in deleting => filters[a].pending
      BY <1>a, <1>b, <3>1, Zenon
    <3> QED
      BY <2>2, <3>2, Zenon
  <2> QED
    BY <1>15, <2>1, <2>2
<1>18. Len(new) + Len(RemoveAt(unused, j)) = 3
  <2>1. Len(filters) + Len(unused) = 3 /\ Len(unused) \in Nat
    BY <1>1 DEF Conditions
  <2> QED
    BY <1>1, <1>5, <1>12, <2>1
<1> QED
  BY <1>5, <1>9, <1>10, <1>12, <1>13, <1>14, <1>16, <1>18 DEF Conditions

LEMMA ConditionAdded ==
  ASSUME NEW filters, NEW unused, NEW deleting, NEW rule, Conditions(filters, unused, deleting, rule),
         NEW j \in DOMAIN unused
  PROVE  Conditions(Append(filters, NewFilter(unused[j], NoFilter, TRUE)), RemoveAt(unused, j), deleting, rule)
<1>1. filters \in Seq(FilterViews) /\ unused[j] \in FilterKeys
  BY DEF Conditions
<1>2. PICK x : x = NewFilter(unused[j], NoFilter, TRUE)
  OBVIOUS
<1>3. x \in FilterViews /\ x.key = unused[j]
  <2>1. NoFilter \in FilterValues
    BY DEF NoFilter, FilterValues, StringMatchTypes
  <2> QED
    BY <1>1, <1>2, <2>1 DEF NewFilter, FilterViews
<1>4. x.pending
  BY <1>2 DEF NewFilter
<1>5. PICK new : new = Append(filters, x)
  OBVIOUS
<1>6. /\ new \in Seq(FilterViews) /\ Len(new) = Len(filters) + 1
      /\ \A a \in 1..Len(filters) : new[a] = filters[a]
      /\ new[Len(filters) + 1] = x
  BY <1>1, <1>3, <1>5, AppendedTo
<1>7. Conditions(new, RemoveAt(unused, j), deleting, rule)
  BY <1>3, <1>4, <1>6, ConditionAppended
<1> QED
  BY <1>2, <1>5, <1>7

LEMMA ConditionTaken ==
  ASSUME NEW filters, NEW unused, NEW deleting, NEW rule, Conditions(filters, unused, deleting, rule),
         NEW j \in DOMAIN filters, NEW new \in Seq(FilterViews), Removed(filters, j, new)
  PROVE  Conditions(new, InsertUnused(unused, filters[j].key), deleting \cup {filters[j].key}, rule)
<1> DEFINE key == filters[j].key
           S == FilterKeys \ ShownKeys(filters)
           u == InsertUnused(unused, key)
<1>1. /\ filters \in Seq(FilterViews) /\ j \in 1..Len(filters) /\ DOMAIN filters = 1..Len(filters)
      /\ Len(filters) \in Nat /\ DOMAIN new = 1..(Len(filters) - 1) /\ Len(new) = Len(filters) - 1
  BY DEF Conditions, Removed
<1>2. key \in FilterKeys
  <2>1. filters[j] \in FilterViews
    BY <1>1
  <2> QED
    BY <2>1 DEF FilterViews
<1>3. /\ \A a \in DOMAIN filters : filters[a].pending \/ filters[a].value = rule.filter[filters[a].key]
      /\ \A a \in DOMAIN filters : filters[a].key \in deleting => filters[a].pending
      /\ \A a, b \in DOMAIN filters : filters[a].key = filters[b].key => a = b
      /\ \A k \in ToSet(unused) \ deleting : rule.filter[k] = NoFilter
      /\ deleting \in SUBSET FilterKeys
  BY DEF Conditions
<1>4. \A a \in DOMAIN new : /\ a < j => a \in DOMAIN filters /\ new[a] = filters[a]
                            /\ ~(a < j) => a + 1 \in DOMAIN filters /\ new[a] = filters[a + 1]
  BY <1>1 DEF Removed
<1>5. \A a \in DOMAIN new : \E b \in DOMAIN filters : b # j /\ new[a] = filters[b]
  <2> SUFFICES ASSUME NEW a \in DOMAIN new
               PROVE  \E b \in DOMAIN filters : b # j /\ new[a] = filters[b]
    OBVIOUS
  <2>1. CASE a < j
    BY <1>1, <1>4, <2>1
  <2>2. CASE ~(a < j)
    <3>1. a + 1 # j /\ a + 1 \in DOMAIN filters /\ new[a] = filters[a + 1]
      BY <1>1, <1>4, <2>2
    <3> QED
      BY <3>1
  <2> QED
    BY <2>1, <2>2
<1>6. \A b \in DOMAIN filters : b # j => \E a \in DOMAIN new : new[a] = filters[b]
  <2> SUFFICES ASSUME NEW b \in DOMAIN filters, b # j
               PROVE  \E a \in DOMAIN new : new[a] = filters[b]
    OBVIOUS
  <2>1. CASE b < j
    <3>1. b \in DOMAIN new
      BY <1>1, <2>1
    <3> QED
      BY <1>4, <2>1, <3>1
  <2>2. CASE b > j
    <3>1. b - 1 \in DOMAIN new /\ ~(b - 1 < j) /\ (b - 1) + 1 = b
      BY <1>1, <2>2
    <3> QED
      BY <1>4, <3>1
  <2> QED
    BY <1>1, <2>1, <2>2
<1>7. ShownKeys(new) = ShownKeys(filters) \ {key}
  <2>1. ASSUME NEW a \in DOMAIN new
        PROVE  new[a].key \in ShownKeys(filters) \ {key}
    <3>1. PICK b \in DOMAIN filters : b # j /\ new[a] = filters[b]
      BY <1>5
    <3>2. filters[b].key # key
      BY <1>3, <3>1
    <3> QED
      BY <3>1, <3>2 DEF ShownKeys
  <2>2. ASSUME NEW b \in DOMAIN filters, filters[b].key # key
        PROVE  filters[b].key \in ShownKeys(new)
    <3>1. PICK a \in DOMAIN new : new[a] = filters[b]
      BY <1>6, <2>2
    <3> QED
      BY <3>1 DEF ShownKeys
  <2> QED
    BY <2>1, <2>2 DEF ShownKeys
<1>8. unused = Selected(kAllFilterKey, S) /\ key \notin S
  BY DEF Conditions, ShownKeys
<1>9. FilterKeys \ ShownKeys(new) = S \cup {key}
  BY <1>2, <1>7
<1>10. u = Selected(kAllFilterKey, S \cup {key})
  <2> HIDE DEF S, key
  <2>1. InsertUnused(Selected(kAllFilterKey, S), key) = Selected(kAllFilterKey, S \cup {key})
    BY <1>2, <1>8, KeyReturned
  <2> QED
    BY <1>8, <2>1
<1>11. /\ unused \in Seq(FilterKeys) /\ u \in Seq(FilterKeys) /\ Len(u) = Len(unused) + 1
       /\ ToSet(u) = ToSet(unused) \cup {key}
  <2> HIDE DEF S, key, u
  <2>1. /\ unused \in Seq(FilterKeys) /\ ToSet(unused) = FilterKeys \cap S
        /\ u \in Seq(FilterKeys) /\ ToSet(u) = FilterKeys \cap (S \cup {key})
    BY <1>8, <1>10, KeysSelected
  <2>2. Len(unused) = (IF "process" \in S THEN 1 ELSE 0) + (IF "class" \in S THEN 1 ELSE 0)
                        + (IF "title" \in S THEN 1 ELSE 0)
    BY <1>8, KeysSelected
  <2>3. Len(u) = (IF "process" \in S \cup {key} THEN 1 ELSE 0) + (IF "class" \in S \cup {key} THEN 1 ELSE 0)
                   + (IF "title" \in S \cup {key} THEN 1 ELSE 0)
    BY <1>10, KeysSelected
  <2>4. key = "process" \/ key = "class" \/ key = "title"
    BY <1>2 DEF FilterKeys
  <2>5. Len(u) = Len(unused) + 1
    BY <1>8, <2>2, <2>3, <2>4
  <2> QED
    BY <1>2, <2>1, <2>5
<1> HIDE DEF S, key, u
<1>12. \A a, b \in DOMAIN new : new[a].key = new[b].key => a = b
  <2> SUFFICES ASSUME NEW a \in DOMAIN new, NEW b \in DOMAIN new, new[a].key = new[b].key
               PROVE  a = b
    OBVIOUS
  <2>1. CASE a < j /\ b < j
    BY <1>1, <1>3, <1>4, <2>1
  <2>2. CASE a < j /\ ~(b < j)
    <3>1. a = b + 1
      BY <1>1, <1>3, <1>4, <2>2
    <3> QED
      BY <1>1, <2>2, <3>1
  <2>3. CASE ~(a < j) /\ b < j
    <3>1. a + 1 = b
      BY <1>1, <1>3, <1>4, <2>3
    <3> QED
      BY <1>1, <2>3, <3>1
  <2>4. CASE ~(a < j) /\ ~(b < j)
    <3>1. a + 1 = b + 1
      BY <1>1, <1>3, <1>4, <2>4
    <3> QED
      BY <1>1, <3>1
  <2> QED
    BY <2>1, <2>2, <2>3, <2>4
<1>13. ASSUME NEW a \in DOMAIN new
       PROVE  /\ new[a].pending \/ new[a].value = rule.filter[new[a].key]
              /\ new[a].key \in deleting \cup {key} => new[a].pending
  <2>1. PICK b \in DOMAIN filters : b # j /\ new[a] = filters[b]
    BY <1>5
  <2>2. /\ filters[b].pending \/ filters[b].value = rule.filter[filters[b].key]
        /\ filters[b].key \in deleting => filters[b].pending
    BY <1>3, Zenon
  <2>3. filters[b].key # key
    BY <1>3, <2>1 DEF key
  <2>4. filters[b].key \in deleting \cup {key} => filters[b].pending
    BY <2>2, <2>3
  <2> QED
    BY <2>1, <2>2, <2>4, Zenon
<1>14. \A k \in ToSet(u) \ (deleting \cup {key}) : rule.filter[k] = NoFilter
  BY <1>3, <1>11
<1>15. Len(new) + Len(u) = 3
  <2>1. Len(filters) + Len(unused) = 3 /\ Len(unused) \in Nat
    BY <1>11 DEF Conditions
  <2> QED
    BY <1>1, <1>11, <2>1
<1>16. Conditions(new, u, deleting \cup {key}, rule)
  <2>1. u = Selected(kAllFilterKey, FilterKeys \ ShownKeys(new))
    BY <1>9, <1>10
  <2>2. deleting \cup {key} \in SUBSET FilterKeys
    BY <1>2, <1>3
  <2> QED
    BY <1>11, <1>12, <1>13, <1>14, <1>15, <2>1, <2>2 DEF Conditions
<1> QED
  BY <1>16 DEF key, u

LEMMA ConditionDeleted ==
  ASSUME NEW filters, NEW unused, NEW deleting, NEW rule, Conditions(filters, unused, deleting, rule),
         NEW j \in DOMAIN filters
  PROVE  Conditions(RemoveAt(filters, j), InsertUnused(unused, filters[j].key),
                    deleting \cup {filters[j].key}, rule)
<1>1. filters \in Seq(FilterViews) /\ j \in 1..Len(filters)
  BY DEF Conditions
<1>2. RemoveAt(filters, j) \in Seq(FilterViews) /\ Removed(filters, j, RemoveAt(filters, j))
  BY <1>1, RemovedAt
<1> QED
  BY <1>2, ConditionTaken

\* What every edit keeps of the page.
EditKept(vm, rule, node, new) ==
  IsRuleView(new) /\ Shows(new, rule, node) /\ (vm.action.pending => new.action.pending)

LEMMA FilterChangeKept ==
  ASSUME NEW vm, NEW rule, NEW node, IsRuleView(vm), Shows(vm, rule, node),
         NEW j \in DOMAIN vm.filters, NEW v \in FilterValues
  PROVE  EditKept(vm, rule, node, [vm EXCEPT !.filters[j] = NewFilter(vm.filters[j].key, v, TRUE)])
<1>1. IsView(vm) /\ vm.triggers \in SUBSET TriggerFlags /\ vm.triggersPending \in BOOLEAN
  BY RuleViewParts DEF Parts
<1>2. PICK f : f = [vm.filters EXCEPT ![j] = NewFilter(vm.filters[j].key, v, TRUE)]
  OBVIOUS
<1>3. Conditions(f, vm.unused, vm.deleting, rule)
  <2>1. Conditions(vm.filters, vm.unused, vm.deleting, rule)
    BY ConditionsShown
  <2> QED
    BY <1>2, <2>1, ConditionChanged
<1>4. PICK new : new = [vm EXCEPT !.filters = f]
  OBVIOUS
<1>5. /\ IsView(new) /\ new.action = vm.action /\ new.filters = f /\ new.unused = vm.unused
      /\ new.deleting = vm.deleting /\ new.triggers = vm.triggers /\ new.triggersPending = vm.triggersPending
  BY <1>1, <1>4, FiltersPut
<1>6. vm.triggersPending \/ vm.triggers = rule.triggers
  BY DEF Shows
<1>7. IsRuleView(new) /\ Shows(new, rule, node)
  BY <1>1, <1>3, <1>5, <1>6, OtherKept
<1>8. new = [vm EXCEPT !.filters[j] = NewFilter(vm.filters[j].key, v, TRUE)]
  BY <1>2, <1>4
<1> QED
  BY <1>5, <1>7, <1>8 DEF EditKept

LEMMA FilterAddKept ==
  ASSUME NEW vm, NEW rule, NEW node, IsRuleView(vm), Shows(vm, rule, node), NEW j \in DOMAIN vm.unused
  PROVE  EditKept(vm, rule, node,
                  [vm EXCEPT !.unused = RemoveAt(@, j),
                             !.filters = Append(@, NewFilter(vm.unused[j], NoFilter, TRUE))])
<1>1. IsView(vm) /\ vm.triggers \in SUBSET TriggerFlags /\ vm.triggersPending \in BOOLEAN
  BY RuleViewParts DEF Parts
<1>2. PICK u, f : u = RemoveAt(vm.unused, j) /\ f = Append(vm.filters, NewFilter(vm.unused[j], NoFilter, TRUE))
  OBVIOUS
<1>3. Conditions(f, u, vm.deleting, rule)
  <2>1. Conditions(vm.filters, vm.unused, vm.deleting, rule)
    BY ConditionsShown
  <2> QED
    BY <1>2, <2>1, ConditionAdded
<1>4. PICK mid : mid = [vm EXCEPT !.unused = u]
  OBVIOUS
<1>5. /\ IsView(mid) /\ mid.action = vm.action /\ mid.filters = vm.filters /\ mid.unused = u
      /\ mid.deleting = vm.deleting /\ mid.triggers = vm.triggers /\ mid.triggersPending = vm.triggersPending
  BY <1>1, <1>4, UnusedPut
<1>6. PICK new : new = [mid EXCEPT !.filters = f]
  OBVIOUS
<1>7. /\ IsView(new) /\ new.action = mid.action /\ new.filters = f /\ new.unused = mid.unused
      /\ new.deleting = mid.deleting /\ new.triggers = mid.triggers /\ new.triggersPending = mid.triggersPending
  BY <1>5, <1>6, FiltersPut
<1>8. vm.triggersPending \/ vm.triggers = rule.triggers
  BY DEF Shows
<1>9. IsRuleView(new) /\ Shows(new, rule, node)
  BY <1>1, <1>3, <1>5, <1>7, <1>8, OtherKept
<1>10. new = [vm EXCEPT !.unused = RemoveAt(@, j),
                        !.filters = Append(@, NewFilter(vm.unused[j], NoFilter, TRUE))]
  BY <1>2, <1>4, <1>5, <1>6
<1> QED
  BY <1>5, <1>7, <1>9, <1>10 DEF EditKept

LEMMA FilterDeleteKept ==
  ASSUME NEW vm, NEW rule, NEW node, IsRuleView(vm), Shows(vm, rule, node), NEW j \in DOMAIN vm.filters
  PROVE  EditKept(vm, rule, node,
                  [vm EXCEPT !.filters = RemoveAt(@, j), !.deleting = @ \cup {vm.filters[j].key},
                             !.unused = InsertUnused(@, vm.filters[j].key)])
<1>1. IsView(vm) /\ vm.triggers \in SUBSET TriggerFlags /\ vm.triggersPending \in BOOLEAN
  BY RuleViewParts DEF Parts
<1>2. PICK u, f, d : /\ u = InsertUnused(vm.unused, vm.filters[j].key) /\ f = RemoveAt(vm.filters, j)
                     /\ d = vm.deleting \cup {vm.filters[j].key}
  OBVIOUS
<1>3. Conditions(f, u, d, rule)
  <2>1. Conditions(vm.filters, vm.unused, vm.deleting, rule)
    BY ConditionsShown
  <2> QED
    BY <1>2, <2>1, ConditionDeleted
<1>4. PICK first : first = [vm EXCEPT !.filters = f]
  OBVIOUS
<1>5. /\ IsView(first) /\ first.action = vm.action /\ first.filters = f /\ first.unused = vm.unused
      /\ first.deleting = vm.deleting /\ first.triggers = vm.triggers
      /\ first.triggersPending = vm.triggersPending
  BY <1>1, <1>4, FiltersPut
<1>6. PICK mid : mid = [first EXCEPT !.deleting = d]
  OBVIOUS
<1>7. /\ IsView(mid) /\ mid.action = first.action /\ mid.filters = first.filters /\ mid.unused = first.unused
      /\ mid.deleting = d /\ mid.triggers = first.triggers /\ mid.triggersPending = first.triggersPending
  BY <1>5, <1>6, DeletingPut
<1>8. PICK new : new = [mid EXCEPT !.unused = u]
  OBVIOUS
<1>9. /\ IsView(new) /\ new.action = mid.action /\ new.filters = mid.filters /\ new.unused = u
      /\ new.deleting = mid.deleting /\ new.triggers = mid.triggers /\ new.triggersPending = mid.triggersPending
  BY <1>7, <1>8, UnusedPut
<1>10. vm.triggersPending \/ vm.triggers = rule.triggers
  BY DEF Shows
<1>11. IsRuleView(new) /\ Shows(new, rule, node)
  <2>1. /\ new.action = vm.action /\ new.filters = f /\ new.unused = u /\ new.deleting = d
        /\ new.triggers = vm.triggers /\ new.triggersPending = vm.triggersPending
    BY <1>5, <1>7, <1>9
  <2> QED
    BY <1>1, <1>3, <1>9, <1>10, <2>1, OtherKept
<1>12. new = [vm EXCEPT !.filters = RemoveAt(@, j), !.deleting = @ \cup {vm.filters[j].key},
                        !.unused = InsertUnused(@, vm.filters[j].key)]
  BY <1>2, <1>4, <1>5, <1>6, <1>7, <1>8
<1> QED
  BY <1>5, <1>7, <1>9, <1>11, <1>12 DEF EditKept

LEMMA TriggersKept ==
  ASSUME NEW vm, NEW rule, NEW node, IsRuleView(vm), Shows(vm, rule, node), NEW t \in TriggerFlags
  PROVE  EditKept(vm, rule, node, [vm EXCEPT !.triggers = SymDiff(@, {t}), !.triggersPending = TRUE])
<1>1. IsView(vm) /\ vm.triggers \in SUBSET TriggerFlags
  BY RuleViewParts DEF Parts
<1>2. PICK x : x = SymDiff(vm.triggers, {t})
  OBVIOUS
<1>3. x \in SUBSET TriggerFlags
  BY <1>1, <1>2 DEF SymDiff
<1>4. PICK mid : mid = [vm EXCEPT !.triggers = x]
  OBVIOUS
<1>5. /\ IsView(mid) /\ mid.action = vm.action /\ mid.filters = vm.filters /\ mid.unused = vm.unused
      /\ mid.deleting = vm.deleting /\ mid.triggers = x
  BY <1>1, <1>4, TriggersPut
<1>6. PICK new : new = [mid EXCEPT !.triggersPending = TRUE]
  OBVIOUS
<1>7. /\ IsView(new) /\ new.action = mid.action /\ new.filters = mid.filters /\ new.unused = mid.unused
      /\ new.deleting = mid.deleting /\ new.triggers = mid.triggers /\ new.triggersPending = TRUE
  BY <1>5, <1>6, TriggersPendingPut
<1>8. Conditions(vm.filters, vm.unused, vm.deleting, rule)
  BY ConditionsShown
<1>9. IsRuleView(new) /\ Shows(new, rule, node)
  <2>1. /\ IsView(new) /\ new.action = vm.action /\ new.filters = vm.filters /\ new.unused = vm.unused
        /\ new.deleting = vm.deleting /\ new.triggers = x /\ new.triggersPending = TRUE
    BY <1>5, <1>7
  <2> QED
    BY <1>3, <1>8, <2>1, OtherKept
<1>10. new = [vm EXCEPT !.triggers = SymDiff(@, {t}), !.triggersPending = TRUE]
  BY <1>2, <1>4, <1>6
<1> QED
  BY <1>5, <1>7, <1>9, <1>10 DEF EditKept

LEMMA PageEdited ==
  ASSUME IInv, life = "run", NEW i \in DOMAIN page,
         \/ ChangeAbsolute(i) \/ ChangeRelative(i) \/ ChangeFilter(i) \/ AddFilter(i) \/ DeleteFilter(i)
         \/ ChangeTriggers(i)
  PROVE  \E what, vm : EditKept(page[i], rules[i], doc[i], vm) /\ Edit(i, what, vm)
<1>1. IsRuleView(page[i]) /\ Shows(page[i], rules[i], doc[i])
  BY DEF IInv, PageInv
<1>2. Parts(page[i]) /\ ActionParts(page[i].action)
  BY <1>1, RuleViewParts
<1>3. ASSUME NEW f, NEW n \in Numbers, ChangeNumber(i, f, n),
             InRange(page[i].action.type, f, n) \/ (f = "id" /\ n = 0)
      PROVE  \E what, vm : EditKept(page[i], rules[i], doc[i], vm) /\ Edit(i, what, vm)
  <2>1. f \in FieldsOf(page[i].action.type) /\ n \in Int
    BY <1>2, <1>3, EditorAssumption DEF ChangeNumber, ActionParts
  <2>2. PICK vm : vm = [page[i] EXCEPT !.action = NumberEdited(@, f, n)]
    OBVIOUS
  <2>3. IsRuleView(vm) /\ Shows(vm, rules[i], doc[i]) /\ vm.action.pending
    BY <1>1, <1>3, <2>1, <2>2, NumberKept
  <2>4. Edit(i, f, vm)
    BY <1>3, <2>2 DEF ChangeNumber
  <2> QED
    BY <2>3, <2>4 DEF EditKept
<1>4. CASE ChangeAbsolute(i)
  <2>1. PICK f \in EditedFields, n \in Numbers : LongInRange(f, n) /\ ChangeNumber(i, f, n)
    BY <1>4 DEF ChangeAbsolute
  <2>2. InRange(page[i].action.type, f, n)
    BY <1>4, <2>1, EditorAssumption DEF ChangeAbsolute, InRange, Bounds
  <2> QED
    BY <1>3, <2>1, <2>2
<1>5. CASE ChangeRelative(i)
  <2>1. PICK f \in EditedFields, n \in Numbers :
          /\ IF f = "id" THEN n = 0 \/ LongInRange(f, n) ELSE FloatInRange(n)
          /\ ChangeNumber(i, f, n)
    BY <1>5 DEF ChangeRelative
  <2>2. InRange(page[i].action.type, f, n) \/ (f = "id" /\ n = 0)
    BY <1>5, <2>1, EditorAssumption DEF ChangeRelative, InRange, Bounds
  <2> QED
    BY <1>3, <2>1, <2>2
<1>6. CASE ChangeFilter(i)
  <2>1. PICK j \in DOMAIN page[i].filters :
          LET filter == page[i].filters[j] IN
            \E v \in {[filter.value EXCEPT !.match = m] : m \in StringMatchTypes}
                       \cup {[filter.value EXCEPT !.text = s] : s \in Texts} :
              Edit(i, filter.key, [page[i] EXCEPT !.filters[j] = NewFilter(filter.key, v, TRUE)])
    BY <1>6 DEF ChangeFilter
  <2>2. PICK v \in {[page[i].filters[j].value EXCEPT !.match = m] : m \in StringMatchTypes}
                     \cup {[page[i].filters[j].value EXCEPT !.text = s] : s \in Texts} :
          Edit(i, page[i].filters[j].key,
               [page[i] EXCEPT !.filters[j] = NewFilter(page[i].filters[j].key, v, TRUE)])
    BY <2>1
  <2>3. v \in FilterValues
    <3>1. page[i].filters[j] \in FilterViews
      BY <1>2 DEF Parts
    <3>2. page[i].filters[j].value \in FilterValues
      BY <3>1 DEF FilterViews
    <3> QED
      BY <3>2, EditorAssumption DEF FilterValues
  <2>4. EditKept(page[i], rules[i], doc[i],
                 [page[i] EXCEPT !.filters[j] = NewFilter(page[i].filters[j].key, v, TRUE)])
    BY <1>1, <2>3, FilterChangeKept
  <2> QED
    BY <2>2, <2>4
<1>7. CASE AddFilter(i)
  <2>1. PICK j \in DOMAIN page[i].unused :
          Edit(i, page[i].unused[j],
               [page[i] EXCEPT !.unused = RemoveAt(@, j),
                               !.filters = Append(@, NewFilter(page[i].unused[j], NoFilter, TRUE))])
    BY <1>7 DEF AddFilter
  <2>2. EditKept(page[i], rules[i], doc[i],
                 [page[i] EXCEPT !.unused = RemoveAt(@, j),
                                 !.filters = Append(@, NewFilter(page[i].unused[j], NoFilter, TRUE))])
    BY <1>1, FilterAddKept
  <2> QED
    BY <2>1, <2>2
<1>8. CASE DeleteFilter(i)
  <2>1. PICK j \in DOMAIN page[i].filters :
          Edit(i, page[i].filters[j].key,
               [page[i] EXCEPT !.filters = RemoveAt(@, j), !.deleting = @ \cup {page[i].filters[j].key},
                               !.unused = InsertUnused(@, page[i].filters[j].key)])
    BY <1>8 DEF DeleteFilter
  <2>2. EditKept(page[i], rules[i], doc[i],
                 [page[i] EXCEPT !.filters = RemoveAt(@, j), !.deleting = @ \cup {page[i].filters[j].key},
                                 !.unused = InsertUnused(@, page[i].filters[j].key)])
    BY <1>1, FilterDeleteKept
  <2> QED
    BY <2>1, <2>2
<1>9. CASE ChangeTriggers(i)
  <2>1. PICK t \in TriggerFlags :
          Edit(i, t, [page[i] EXCEPT !.triggers = SymDiff(@, {t}), !.triggersPending = TRUE])
    BY <1>9 DEF ChangeTriggers
  <2>2. EditKept(page[i], rules[i], doc[i],
                 [page[i] EXCEPT !.triggers = SymDiff(@, {t}), !.triggersPending = TRUE])
    BY <1>1, TriggersKept
  <2> QED
    BY <2>1, <2>2
<1> QED
  BY <1>4, <1>5, <1>6, <1>7, <1>8, <1>9

LEMMA EditKeeps ==
  ASSUME IInv, life = "run", NEW i \in DOMAIN page, NEW what, NEW vm,
         EditKept(page[i], rules[i], doc[i], vm), Edit(i, what, vm), edits' \in 0..MaxEdits
  PROVE  IInv'
<1>1. /\ page' = [page EXCEPT ![i] = vm] /\ touched' = touched \cup {<<i, what>>}
      /\ UNCHANGED <<file, doc, rules, engine, life, loaded, unsaved>>
  BY DEF Edit
<1>2. DOMAIN page' = DOMAIN page /\ \A k \in DOMAIN page : page'[k] = IF k = i THEN vm ELSE page[k]
  BY <1>1
<1>3. DocInv' /\ RulesInv' /\ EngineInv' /\ StartInv'
  BY <1>1 DEF IInv, DocInv, RulesInv, EngineInv, StartInv
<1>4. PageInv'
  <2>1. page # NoPage => DOMAIN page = DOMAIN rules
    BY DEF IInv, PageInv
  <2>2. page # NoPage
    BY DEF NoPage
  <2>3. \A k \in DOMAIN page : IsRuleView(page'[k]) /\ Shows(page'[k], rules[k], doc[k])
    BY <1>2 DEF IInv, PageInv, EditKept
  <2> QED
    BY <1>1, <1>2, <2>1, <2>2, <2>3 DEF PageInv
<1>5. AheadInv'
  <2> SUFFICES ASSUME unsaved = {}, file # doc
               PROVE  \E k \in DOMAIN page' : page'[k].action.pending /\ <<k, "type">> \in touched'
    BY <1>1 DEF AheadInv
  <2>1. PICK k \in DOMAIN page : page[k].action.pending /\ <<k, "type">> \in touched
    BY DEF IInv, AheadInv
  <2>2. page'[k].action.pending
    BY <1>2, <2>1 DEF EditKept
  <2> QED
    BY <1>1, <1>2, <2>1, <2>2
<1> QED
  BY <1>3, <1>4, <1>5 DEF IInv

-----------------------------------------------------------------------------
(* A new type                                                              *)

IsNodeRecord(node) ==
  node = [shape |-> node.shape, type |-> node.type, fields |-> node.fields,
          where |-> node.where, when |-> node.when]

LEMMA NodeParts ==
  ASSUME NEW node, IsNode(node)
  PROVE  /\ IsNodeRecord(node)
         /\ node.shape \in STRING /\ node.type \in ActionTypes /\ node.fields \in [DOMAIN node.fields -> Int]
         /\ node.where \in [DOMAIN node.where -> Seq(Characters)] /\ DOMAIN node.where \subseteq FilterKeys
         /\ node.when \in [form : {"absent", "scalar", "seq", "map"}, names : Seq(TriggerNames)]
BY DEF IsNode, IsNodeRecord

LEMMA NodeMade ==
  ASSUME NEW new, IsNodeRecord(new),
         new.shape \in STRING, new.type \in ActionTypes, new.fields \in [DOMAIN new.fields -> Int],
         new.where \in [DOMAIN new.where -> Seq(Characters)], DOMAIN new.where \subseteq FilterKeys,
         new.when \in [form : {"absent", "scalar", "seq", "map"}, names : Seq(TriggerNames)]
  PROVE  IsNode(new)
BY DEF IsNode, IsNodeRecord

LEMMA TypeSet ==
  ASSUME NEW node, IsNode(node), NEW type \in ActionTypes, NEW new, new = SetType(node, type)
  PROVE  /\ IsNode(new)
         /\ new.type = type /\ new.shape = node.shape /\ new.where = node.where /\ new.when = node.when
<1>1. PICK shape, old, fields, where, when :
        /\ shape = node.shape /\ old = node.type /\ fields = node.fields /\ where = node.where
        /\ when = node.when
  OBVIOUS
<1>2. node = [shape |-> shape, type |-> old, fields |-> fields, where |-> where, when |-> when]
  BY <1>1, NodeParts DEF IsNodeRecord
<1>3. PICK kept : kept = RemoveFields(old, fields)
  OBVIOUS
<1>4. PICK mid : mid = [node EXCEPT !.type = type]
  OBVIOUS
<1>5. mid = [shape |-> shape, type |-> type, fields |-> fields, where |-> where, when |-> when]
  BY <1>2, <1>4
<1>6. PICK end : end = [mid EXCEPT !.fields = kept]
  OBVIOUS
<1>7. end = [shape |-> shape, type |-> type, fields |-> kept, where |-> where, when |-> when]
  BY <1>5, <1>6
<1>8. new = end
  BY <1>1, <1>3, <1>4, <1>5, <1>6 DEF SetType
<1>9. /\ IsNodeRecord(new)
      /\ new.type = type /\ new.shape = shape /\ new.where = where /\ new.when = when /\ new.fields = kept
  BY <1>7, <1>8 DEF IsNodeRecord
<1>10. kept \in [DOMAIN kept -> Int]
  <2>1. fields \in [DOMAIN fields -> Int]
    BY <1>1, NodeParts
  <2> QED
    BY <1>3, <2>1 DEF RemoveFields, Restrict
<1>11. IsNode(new)
  <2>1. /\ shape \in STRING /\ where \in [DOMAIN where -> Seq(Characters)] /\ DOMAIN where \subseteq FilterKeys
        /\ when \in [form : {"absent", "scalar", "seq", "map"}, names : Seq(TriggerNames)]
    BY <1>1, NodeParts
  <2> HIDE <1>8
  <2> QED
    BY <1>9, <1>10, <2>1, NodeMade
<1> QED
  BY <1>1, <1>9, <1>11

LEMMA TypeShown ==
  ASSUME NEW vm, NEW rule, NEW node, IsRuleView(vm), Shows(vm, rule, node),
         NEW new, IsView(new), new.filters = vm.filters, new.unused = vm.unused,
         new.deleting = vm.deleting, new.triggers = vm.triggers, new.triggersPending = vm.triggersPending,
         NEW changed, changed.filter = rule.filter, changed.triggers = rule.triggers,
         NEW made, changed.type = made.type, ReadsAction(made.type, made.fields),
         NEW a, new.action = a, IsActionView(a), NumbersInRange(a), a.type = made.type,
         a.bounds = ReadAction(made.type, made.fields), a.shown = a.bounds, a.dirty = {}
  PROVE  IsRuleView(new) /\ Shows(new, changed, made)
<1>3. Parts(vm)
  BY RuleViewParts
<1>5. IsRuleView(new)
  <2>1. new \in [action : {new.action}, filters : Seq(FilterViews), unused : Seq(FilterKeys),
                 deleting : SUBSET FilterKeys, triggers : SUBSET TriggerFlags, triggersPending : BOOLEAN]
    BY <1>3 DEF Parts, IsView
  <2>2. /\ \A j, k \in DOMAIN vm.filters : vm.filters[j].key = vm.filters[k].key => j = k
        /\ vm.unused = Selected(kAllFilterKey, FilterKeys \ ShownKeys(vm.filters))
        /\ Len(vm.filters) + Len(vm.unused) = 3
    BY DEF IsRuleView
  <2> QED
    BY <2>1, <2>2 DEF IsRuleView
<1>6. /\ \A f \in Range(vm.filters) : (f.pending \/ f.value = rule.filter[f.key]) /\ (f.key \in vm.deleting => f.pending)
      /\ \A k \in ToSet(vm.unused) \ vm.deleting : rule.filter[k] = NoFilter
      /\ vm.triggersPending \/ vm.triggers = rule.triggers
  BY DEF Shows
<1>7. /\ \A f \in Range(new.filters) :
           (f.pending \/ f.value = changed.filter[f.key]) /\ (f.key \in new.deleting => f.pending)
      /\ \A k \in ToSet(new.unused) \ new.deleting : changed.filter[k] = NoFilter
      /\ new.triggersPending \/ new.triggers = changed.triggers
  BY <1>6
<1>8. Shows(new, changed, made)
  <2>1. \A f \in DOMAIN new.action.shown \ new.action.dirty : new.action.shown[f] = new.action.bounds[f]
    OBVIOUS
  <2>2. new.action.type = changed.type /\ (new.action.dirty # {} => new.action.pending)
    OBVIOUS
  <2>3. ReadsAction(made.type, made.fields) /\ new.action.bounds = ReadAction(made.type, made.fields)
    OBVIOUS
  <2> QED
    BY <1>7, <2>1, <2>2, <2>3 DEF Shows
<1> QED
  BY <1>5, <1>8

LEMMA RuleTypeSet ==
  ASSUME NEW rule \in RuleValues, NEW type \in ActionTypes, NEW new, new = [rule EXCEPT !.type = type]
  PROVE  /\ new \in RuleValues /\ new.type = type
         /\ new.filter = rule.filter /\ new.triggers = rule.triggers
BY DEF RuleValues

LEMMA ReadableSame ==
  ASSUME NEW node, NEW new, new.shape = node.shape, new.when.form = node.when.form
  PROVE  ParseError(new) = ParseError(node)
BY DEF ParseError

LEMMA ChangeTypeKeeps ==
  ASSUME IInv, life = "run", NEW i \in DOMAIN page, ChangeType(i), edits' \in 0..MaxEdits
  PROVE  IInv'
<1>1. PICK type, node :
        /\ type \in ActionTypes
        /\ node = SetType(doc[i], type)
        /\ doc' = [doc EXCEPT ![i] = node]
        /\ rules' = [rules EXCEPT ![i].type = type]
        /\ touched' = touched \cup {<<i, "type">>}
        /\ IF ReadsAction(type, node.fields)
           THEN page' = [page EXCEPT ![i].action = NewAction(node, TRUE)] /\ life' = life
           ELSE life' = "crashed" /\ page' = page
        /\ UNCHANGED <<file, engine, loaded, unsaved>>
  BY DEF ChangeType
<1>2. /\ IsDocument(doc) /\ DOMAIN rules = Readable(doc) /\ DOMAIN page = DOMAIN rules
      /\ i \in DOMAIN rules /\ i \in DOMAIN doc /\ IsNode(doc[i])
      /\ IsRuleView(page[i]) /\ Shows(page[i], rules[i], doc[i]) /\ Agrees(rules[i], doc[i])
  <2>1. page # NoPage
    BY DEF NoPage
  <2>2. DOMAIN rules = Readable(doc) /\ DOMAIN page = DOMAIN rules
    BY <2>1 DEF IInv, RulesInv, PageInv
  <2> QED
    BY <2>2 DEF IInv, DocInv, RulesInv, PageInv, IsDocument, Readable
<1>3. /\ IsNode(node) /\ node.type = type /\ node.shape = doc[i].shape
      /\ node.where = doc[i].where /\ node.when = doc[i].when
  BY <1>1, <1>2, TypeSet
<1>4. /\ DOMAIN doc' = DOMAIN doc
      /\ \A k \in DOMAIN doc : doc'[k] = IF k = i THEN node ELSE doc[k]
  BY <1>1
<1>5. DocInv'
  <2>1. IsDocument(doc)'
    BY <1>2, <1>3, <1>4 DEF IsDocument
  <2>2. life' \in {"off", "run", "terminated", "crashed"}
    BY <1>1
  <2> QED
    BY <1>1, <1>4, <2>1, <2>2 DEF IInv, DocInv
<1>6. Readable(doc') = Readable(doc)
  <2>1. ParseError(node) = ParseError(doc[i])
    BY <1>3, ReadableSame
  <2> QED
    BY <1>4, <2>1 DEF Readable
<1>7. PICK rule : rule = [rules[i] EXCEPT !.type = type]
  OBVIOUS
<1>8. /\ rule \in RuleValues /\ rule.type = type
      /\ rule.filter = rules[i].filter /\ rule.triggers = rules[i].triggers
  <2>1. PICK old : old = rules[i]
    OBVIOUS
  <2>2. old \in RuleValues /\ rule = [old EXCEPT !.type = type]
    BY <1>2, <1>7, <2>1 DEF Agrees
  <2>3. /\ rule \in RuleValues /\ rule.type = type /\ rule.filter = old.filter /\ rule.triggers = old.triggers
    BY <1>1, <2>2, RuleTypeSet
  <2> QED
    BY <2>1, <2>3
<1>9. DOMAIN rules' = DOMAIN rules /\ \A k \in DOMAIN rules : rules'[k] = IF k = i THEN rule ELSE rules[k]
  BY <1>1, <1>7
<1>10. Agrees(rule, node)
  BY <1>2, <1>3, <1>8 DEF Agrees
<1>11. RulesInv'
  <2>1. \A k \in DOMAIN rules : Agrees(rules'[k], doc'[k])
    <3>1. \A k \in DOMAIN rules : k \in DOMAIN doc /\ Agrees(rules[k], doc[k])
      BY <1>2 DEF IInv, RulesInv, Readable
    <3> QED
      BY <1>4, <1>9, <1>10, <3>1
  <2>2. life' # "off"
    BY <1>1
  <2> QED
    BY <1>2, <1>6, <1>9, <2>1, <2>2 DEF RulesInv
<1>12. PageInv' /\ (life' = "run" => i \in DOMAIN page' /\ page'[i].action.pending)
  <2>1. CASE ~ReadsAction(type, node.fields)
    <3>1. life' = "crashed" /\ page' = page
      BY <1>1, <2>1
    <3>2. \A k \in DOMAIN page : IsRuleView(page[k])
      BY DEF IInv, PageInv
    <3> QED
      BY <1>2, <1>9, <3>1, <3>2 DEF PageInv
  <2>2. CASE ReadsAction(type, node.fields)
    <3>1. PICK vm : vm = [page[i] EXCEPT !.action = NewAction(node, TRUE)]
      OBVIOUS
    <3>2. IsView(page[i])
      BY <1>2, RuleViewParts DEF Parts
    <3>3. /\ IsView(vm) /\ vm.action = NewAction(node, TRUE) /\ vm.filters = page[i].filters
          /\ vm.unused = page[i].unused /\ vm.deleting = page[i].deleting
          /\ vm.triggers = page[i].triggers /\ vm.triggersPending = page[i].triggersPending
      BY <3>1, <3>2, ActionPut
    <3>4. ReadsAction(node.type, node.fields) /\ rule.type = node.type
      BY <1>3, <1>8, <2>2
    <3>a. PICK a : a = NewAction(node, TRUE)
      OBVIOUS
    <3>b. /\ IsActionView(a) /\ NumbersInRange(a) /\ a.type = node.type
          /\ a.bounds = ReadAction(node.type, node.fields) /\ a.shown = a.bounds /\ a.dirty = {}
      BY <1>3, <3>4, <3>a, NewActionIsView
    <3>c. a.pending
      BY <3>a DEF NewAction
    <3>d. vm.action = a
      BY <3>3, <3>a
    <3>e. IsRuleView(vm) /\ Shows(vm, rule, node)
      <4>1. /\ IsRuleView(page[i]) /\ Shows(page[i], rules[i], doc[i])
            /\ rule.filter = rules[i].filter /\ rule.triggers = rules[i].triggers
            /\ IsView(vm) /\ vm.filters = page[i].filters
            /\ vm.unused = page[i].unused /\ vm.deleting = page[i].deleting
            /\ vm.triggers = page[i].triggers /\ vm.triggersPending = page[i].triggersPending
        BY <1>2, <1>8, <3>3
      <4> QED
        BY <3>4, <3>b, <3>d, <4>1, TypeShown
    <3>5. IsRuleView(vm) /\ Shows(vm, rule, node) /\ vm.action.pending
      BY <3>c, <3>d, <3>e
    <3>6. /\ DOMAIN page' = DOMAIN page
          /\ \A k \in DOMAIN page : page'[k] = IF k = i THEN vm ELSE page[k]
      BY <1>1, <2>2, <3>1
    <3>7. \A k \in DOMAIN page : IsRuleView(page'[k]) /\ Shows(page'[k], rules'[k], doc'[k])
      <4>1. \A k \in DOMAIN page : k \in DOMAIN doc /\ k \in DOMAIN rules
                                     /\ IsRuleView(page[k]) /\ Shows(page[k], rules[k], doc[k])
        BY <1>2 DEF IInv, PageInv, Readable
      <4> QED
        BY <1>4, <1>9, <3>5, <3>6, <4>1
    <3>8. life' # "off"
      BY <1>1
    <3>9. DOMAIN page' = DOMAIN rules'
      BY <1>2, <1>9, <3>6
    <3>10. PageInv'
      BY <3>6, <3>7, <3>8, <3>9 DEF PageInv
    <3> QED
      BY <1>2, <3>5, <3>6, <3>10
  <2> QED
    BY <2>1, <2>2
<1>13. AheadInv'
  BY <1>1, <1>12 DEF AheadInv
<1>14. EngineInv' /\ StartInv'
  <2>1. life' # "terminated" /\ DOMAIN rules' = DOMAIN rules
    BY <1>1, <1>9
  <2> QED
    BY <1>1, <2>1 DEF IInv, EngineInv, StartInv
<1> QED
  BY <1>5, <1>11, <1>12, <1>13, <1>14 DEF IInv

-----------------------------------------------------------------------------
(* The process and the page                                                *)

LEMMA StartKeeps ==
  ASSUME IInv, Start
  PROVE  IInv'
<1>1. IsDocument(file) /\ IsDocument(loaded) /\ page = NoPage /\ edits \in 0..MaxEdits /\ unsaved \subseteq {"type", "failed"}
  BY DEF IInv, DocInv, PageInv, EngineInv, Start
<1>2. /\ doc' = file /\ rules' = ReadRules(file)
      /\ UNCHANGED <<file, page, touched, unsaved, edits>>
  BY DEF Start
<1>3. PICK error : error = CompileError(file, ReadRules(file))
  OBVIOUS
<1>4. /\ life' = IF error = "ParseError" THEN "terminated" ELSE "run"
      /\ loaded' = IF error = "ParseError" THEN loaded ELSE file
      /\ engine' = IF error = "nothing" THEN CompileRule(file, ReadRules(file)) ELSE <<>>
  BY <1>2, <1>3 DEF Start
<1>5. DocInv'
  BY <1>1, <1>2, <1>4 DEF DocInv
<1>6. RulesInv'
  <2>1. DOMAIN rules' = Readable(doc') /\ \A i \in DOMAIN rules' : Agrees(rules'[i], doc'[i])
    <3>1. \A i \in Readable(file) : Agrees(ReadRule(file[i]), file[i])
      BY <1>1, ReadRuleAgrees DEF IsDocument, Readable
    <3> QED
      BY <1>2, <3>1 DEF ReadRules
  <2> QED
    BY <1>4, <2>1 DEF RulesInv
<1>7. PageInv' /\ AheadInv'
  BY <1>1, <1>2, <1>4 DEF PageInv, AheadInv, NoPage
<1>8. EngineInv'
  <2>1. DOMAIN engine' \subseteq DOMAIN rules'
    <3>1. DOMAIN CompileRule(file, ReadRules(file)) \subseteq DOMAIN rules'
      BY <1>2 DEF CompileRule
    <3> QED
      BY <1>4, <3>1
  <2>2. CASE error = "ParseError"
    BY <1>1, <1>4, <2>1, <2>2 DEF EngineInv
  <2>3. CASE error # "ParseError"
    BY <1>1, <1>4, <2>1, <2>3 DEF EngineInv
  <2> QED
    BY <2>2, <2>3
<1>9. StartInv'
  BY <1>2, <1>3, <1>4 DEF IInv, StartInv
<1> QED
  BY <1>5, <1>6, <1>7, <1>8, <1>9 DEF IInv

LEMMA EndKeeps ==
  ASSUME IInv, End
  PROVE  IInv'
<1>1. /\ life' = "off" /\ doc' = file /\ rules' = <<>> /\ engine' = <<>> /\ page' = NoPage
      /\ touched' = {} /\ unsaved' = {} /\ UNCHANGED <<file, loaded, edits>>
  BY DEF End
<1>2. DocInv' /\ EngineInv' /\ StartInv'
  BY <1>1 DEF IInv, DocInv, EngineInv, StartInv
<1>3. RulesInv' /\ PageInv' /\ AheadInv'
  BY <1>1 DEF RulesInv, PageInv, AheadInv, NoPage
<1> QED
  BY <1>2, <1>3 DEF IInv

LEMMA OpenPageKeeps ==
  ASSUME IInv, OpenPage
  PROVE  IInv'
<1>1. /\ life = "run" /\ page = NoPage
      /\ UNCHANGED <<file, doc, rules, engine, loaded, touched, unsaved, edits>>
  BY DEF OpenPage
<1>2. /\ IsDocument(doc) /\ DOMAIN rules = Readable(doc)
      /\ \A i \in DOMAIN rules : Agrees(rules[i], doc[i]) /\ i \in DOMAIN doc /\ IsNode(doc[i])
  BY <1>1 DEF IInv, DocInv, RulesInv, IsDocument, Readable
<1>3. unsaved = {} => file = doc
  BY <1>1 DEF IInv, AheadInv, NoPage
<1>4. CASE \A i \in DOMAIN rules : ReadsAction(doc[i].type, doc[i].fields)
  <2>1. page' = [i \in DOMAIN rules |-> NewRule(i)] /\ life' = life
    BY <1>4 DEF OpenPage
  <2>2. \A i \in DOMAIN rules : IsRuleView(NewRule(i)) /\ Shows(NewRule(i), rules[i], doc[i])
    BY <1>2, <1>4, NewRuleIsView
  <2>3. DOMAIN page' = DOMAIN rules /\ \A i \in DOMAIN rules : page'[i] = NewRule(i)
    BY <2>1
  <2>4. PageInv'
    BY <1>1, <2>1, <2>2, <2>3 DEF PageInv
  <2> QED
    BY <1>1, <1>3, <2>1, <2>4 DEF IInv, DocInv, RulesInv, AheadInv, EngineInv, StartInv
<1>5. CASE ~\A i \in DOMAIN rules : ReadsAction(doc[i].type, doc[i].fields)
  <2>1. page' = page /\ life' = "crashed"
    BY <1>5 DEF OpenPage
  <2> QED
    BY <1>1, <2>1 DEF IInv, DocInv, RulesInv, PageInv, AheadInv, EngineInv, StartInv, NoPage
<1> QED
  BY <1>4, <1>5

LEMMA ClosePageKeeps ==
  ASSUME IInv, ClosePage
  PROVE  IInv'
<1>1. /\ life = "run" /\ page' = NoPage
      /\ touched' = {t \in touched : t[2] = "type" \/ "failed" \in unsaved}
      /\ unsaved' = unsaved \cup (IF touched' # {} THEN {"type"} ELSE {})
      /\ UNCHANGED <<file, doc, rules, engine, life, loaded, edits>>
  BY DEF ClosePage
<1>2. DocInv' /\ RulesInv' /\ EngineInv' /\ StartInv'
  <2>1. unsaved' \subseteq {"type", "failed"}
    BY <1>1 DEF IInv, DocInv
  <2> QED
    BY <1>1, <2>1 DEF IInv, DocInv, RulesInv, EngineInv, StartInv
<1>3. PageInv'
  BY <1>1 DEF PageInv, NoPage
<1>4. AheadInv'
  <2> SUFFICES ASSUME unsaved' = {}
               PROVE  file = doc
    BY <1>1 DEF AheadInv
  <2>1. unsaved = {} /\ touched' = {}
    BY <1>1
  <2>2. \A i : <<i, "type">> \notin touched
    <3> SUFFICES ASSUME NEW i, <<i, "type">> \in touched
                 PROVE  FALSE
      OBVIOUS
    <3>1. <<i, "type">>[2] = "type"
      OBVIOUS
    <3>2. <<i, "type">> \in touched'
      BY <1>1, <3>1
    <3> QED
      BY <2>1, <3>2
  <2> QED
    BY <1>1, <2>1, <2>2 DEF IInv, AheadInv
<1> QED
  BY <1>2, <1>3, <1>4 DEF IInv

LEMMA UserEditsKeep ==
  ASSUME IInv, UserEdits
  PROVE  IInv'
<1>1. life = "run" /\ edits' \in 0..MaxEdits
  BY EditorAssumption DEF IInv, DocInv, UserEdits
<1>2. PICK i \in DOMAIN page :
        \/ ChangeAbsolute(i) \/ ChangeRelative(i) \/ ChangeFilter(i) \/ AddFilter(i) \/ DeleteFilter(i)
        \/ ChangeTriggers(i) \/ ChangeType(i)
  BY DEF UserEdits
<1>3. CASE ChangeType(i)
  BY <1>1, <1>3, ChangeTypeKeeps
<1>4. CASE ~ChangeType(i)
  <2>1. PICK what, vm : EditKept(page[i], rules[i], doc[i], vm) /\ Edit(i, what, vm)
    BY <1>1, <1>2, <1>4, PageEdited
  <2> QED
    BY <1>1, <2>1, EditKeeps
<1> QED
  BY <1>3, <1>4

-----------------------------------------------------------------------------
(* Saving: the numbers                                                     *)

NumbersPut(fields, shown, written, unset) ==
  [f \in (DOMAIN fields \cup written) \ unset |-> IF f \in written THEN shown[f] ELSE fields[f]]

Differing(type, fields, shown, dirty) == {f \in dirty : ReadAction(type, fields)[f] # shown[f]}

\* What is written are the shown numbers that differ; an unset one is taken out.
LEMMA NumbersWritten ==
  ASSUME NEW type \in ActionTypes, NEW fields, fields \in [DOMAIN fields -> Int], ReadsAction(type, fields),
         NEW shown \in [FieldsOf(type) -> Int], NEW dirty \in SUBSET FieldsOf(type), NEW unset \in SUBSET dirty,
         \A f \in FieldsOf(type) \ dirty : shown[f] = ReadAction(type, fields)[f],
         \A f \in unset : shown[f] = DefaultNumber(type, f),
         \A f \in dirty \ unset : InRange(type, f, shown[f]),
         NEW written, written = Differing(type, fields, shown, dirty \ unset),
         NEW new, new = NumbersPut(fields, shown, written, unset)
  PROVE  new \in [DOMAIN new -> Int] /\ ReadsAction(type, new) /\ ReadAction(type, new) = shown
<1>0. written \subseteq dirty \ unset /\ \A f \in dirty \ (unset \cup written) : ReadAction(type, fields)[f] = shown[f]
  BY DEF Differing
<1>1. /\ DOMAIN new = (DOMAIN fields \cup written) \ unset
      /\ \A f \in DOMAIN new : new[f] = IF f \in written THEN shown[f] ELSE fields[f]
  BY DEF NumbersPut
<1>2. \A f \in DOMAIN fields : fields[f] \in Int
  OBVIOUS
<1>3. new \in [DOMAIN new -> Int]
  BY <1>0, <1>2 DEF NumbersPut
<1>4. ReadsAction(type, new)
  BY <1>0, <1>1 DEF ReadsAction
<1>5. ASSUME NEW f \in FieldsOf(type)
      PROVE  ReadAction(type, new)[f] = shown[f]
  <2>1. ReadAction(type, new)[f] = IF f \in DOMAIN new THEN new[f] ELSE DefaultNumber(type, f)
    BY DEF ReadAction
  <2>2. ReadAction(type, fields)[f] = IF f \in DOMAIN fields THEN fields[f] ELSE DefaultNumber(type, f)
    BY DEF ReadAction
  <2> QED
    BY <1>0, <1>1, <2>1, <2>2
<1>6. ReadAction(type, new) = [f \in FieldsOf(type) |-> shown[f]]
  <2>1. ReadAction(type, new) = [f \in FieldsOf(type) |-> ReadAction(type, new)[f]]
    BY DEF ReadAction
  <2> QED
    BY <1>5, <2>1, Zenon
<1> QED
  BY <1>3, <1>4, <1>6

\* Saving writes the numbers the page shows, and no other ones.
LEMMA FieldsSaved ==
  ASSUME NEW a, IsActionView(a), NumbersInRange(a), NEW fields, fields \in [DOMAIN fields -> Int],
         ReadsAction(a.type, fields), a.bounds = ReadAction(a.type, fields),
         \A f \in DOMAIN a.shown \ a.dirty : a.shown[f] = a.bounds[f],
         NEW new, new = AppliedFields(a, fields)
  PROVE  new \in [DOMAIN new -> Int] /\ ReadsAction(a.type, new) /\ ReadAction(a.type, new) = a.shown
<1>1. /\ a.type \in ActionTypes /\ a.shown \in [FieldsOf(a.type) -> Int] /\ a.dirty \in SUBSET FieldsOf(a.type)
      /\ \A f \in FieldsOf(a.type) \ a.dirty : a.shown[f] = ReadAction(a.type, fields)[f]
  BY DEF IsActionView
<1>2. CASE a.type = "relative"
  <2> DEFINE unset == {f \in a.dirty \cap {"id"} : a.shown[f] = 0}
             written == Differing(a.type, fields, a.shown, a.dirty \ unset)
  <2>1. new = NumbersPut(fields, a.shown, written, unset)
    BY <1>2 DEF AppliedFields, AppliedRelative, WriteRelative, WriteAbsolute, Restrict,
            NumbersPut, Differing
  <2>2. \A f \in unset : a.shown[f] = DefaultNumber(a.type, f)
    BY <1>2 DEF DefaultNumber, RelativeDefault
  <2>3. \A f \in a.dirty \ unset : InRange(a.type, f, a.shown[f])
    BY <1>1 DEF NumbersInRange
  <2>4. unset \in SUBSET a.dirty /\ written = Differing(a.type, fields, a.shown, a.dirty \ unset)
    OBVIOUS
  <2> HIDE DEF unset, written
  <2>5. PICK type, shown, dirty : type = a.type /\ shown = a.shown /\ dirty = a.dirty
    OBVIOUS
  <2>6. /\ type \in ActionTypes /\ shown \in [FieldsOf(type) -> Int] /\ dirty \in SUBSET FieldsOf(type)
        /\ \A f \in FieldsOf(type) \ dirty : shown[f] = ReadAction(type, fields)[f]
        /\ ReadsAction(type, fields)
    BY <1>1, <2>5
  <2>7. /\ unset \in SUBSET dirty /\ written = Differing(type, fields, shown, dirty \ unset)
        /\ new = NumbersPut(fields, shown, written, unset)
        /\ \A f \in unset : shown[f] = DefaultNumber(type, f)
        /\ \A f \in dirty \ unset : InRange(type, f, shown[f])
    BY <2>1, <2>2, <2>3, <2>4, <2>5
  <2>8. new \in [DOMAIN new -> Int] /\ ReadsAction(type, new) /\ ReadAction(type, new) = shown
    BY <2>6, <2>7, NumbersWritten
  <2> QED
    BY <2>5, <2>8
<1>3. CASE a.type # "relative"
  <2> DEFINE unset == {}
             written == Differing(a.type, fields, a.shown, a.dirty \ unset)
  <2>1. new = NumbersPut(fields, a.shown, written, unset)
    BY <1>3 DEF AppliedFields, AppliedAbsolute, WriteAbsolute, NumbersPut, Differing
  <2>2. \A f \in a.dirty \ unset : InRange(a.type, f, a.shown[f])
    <3>1. "id" \notin FieldsOf(a.type)
      BY <1>1, <1>3 DEF FieldsOf, Bounds, ActionTypes
    <3> QED
      BY <1>1, <3>1 DEF NumbersInRange
  <2>3. unset \in SUBSET a.dirty /\ written = Differing(a.type, fields, a.shown, a.dirty \ unset)
    OBVIOUS
  <2>4. \A f \in unset : a.shown[f] = DefaultNumber(a.type, f)
    OBVIOUS
  <2> HIDE DEF unset, written
  <2>5. PICK type, shown, dirty : type = a.type /\ shown = a.shown /\ dirty = a.dirty
    OBVIOUS
  <2>6. /\ type \in ActionTypes /\ shown \in [FieldsOf(type) -> Int] /\ dirty \in SUBSET FieldsOf(type)
        /\ \A f \in FieldsOf(type) \ dirty : shown[f] = ReadAction(type, fields)[f]
        /\ ReadsAction(type, fields)
    BY <1>1, <2>5
  <2>7. /\ unset \in SUBSET dirty /\ written = Differing(type, fields, shown, dirty \ unset)
        /\ new = NumbersPut(fields, shown, written, unset)
        /\ \A f \in unset : shown[f] = DefaultNumber(type, f)
        /\ \A f \in dirty \ unset : InRange(type, f, shown[f])
    BY <2>1, <2>2, <2>3, <2>4, <2>5
  <2>8. new \in [DOMAIN new -> Int] /\ ReadsAction(type, new) /\ ReadAction(type, new) = shown
    BY <2>6, <2>7, NumbersWritten
  <2> QED
    BY <2>5, <2>8
<1> QED
  BY <1>2, <1>3


-----------------------------------------------------------------------------
(* Saving: the conditions                                                  *)

\* What is to be written for a key is what the page shows for it.
LEMMA PendingValues ==
  ASSUME NEW vm, vm.filters \in Seq(FilterViews),
         \A j, k \in DOMAIN vm.filters : vm.filters[j].key = vm.filters[k].key => j = k,
         NEW values, values = PendingFilters(vm)
  PROVE  /\ values \in [DOMAIN values -> FilterValues] /\ DOMAIN values \subseteq FilterKeys
         /\ \A k \in DOMAIN values : \E j \in DOMAIN vm.filters : vm.filters[j].key = k /\ vm.filters[j].pending
         /\ \A j \in DOMAIN vm.filters :
              IF vm.filters[j].pending
              THEN vm.filters[j].key \in DOMAIN values /\ values[vm.filters[j].key] = vm.filters[j].value
              ELSE vm.filters[j].key \notin DOMAIN values
<1> DEFINE pending == {f \in Range(vm.filters) : f.pending}
<1>1. \A f \in pending : \E j \in DOMAIN vm.filters : f = vm.filters[j] /\ f \in FilterViews /\ f.pending
  BY DEF Range
<1>2. \A j \in DOMAIN vm.filters : vm.filters[j].pending => vm.filters[j] \in pending
  BY DEF Range
<1>3. \A f, g \in pending : f.key = g.key => f = g
  BY <1>1
<1> DEFINE Chosen(k) == CHOOSE f \in pending : f.key = k
<1>4. values = [k \in {f.key : f \in pending} |-> Chosen(k).value]
  BY DEF PendingFilters
<1>a. ASSUME NEW f \in pending
      PROVE  Chosen(f.key) \in pending /\ Chosen(f.key).key = f.key
  OBVIOUS
<1> HIDE DEF pending, Chosen
<1>5. DOMAIN values = {f.key : f \in pending}
  BY <1>4
<1>6. ASSUME NEW f \in pending
      PROVE  f.key \in DOMAIN values /\ values[f.key] = f.value
  <2>1. Chosen(f.key) = f
    BY <1>3, <1>a
  <2> QED
    BY <1>4, <1>5, <2>1
<1>7. \A f \in FilterViews : f.key \in FilterKeys /\ f.value \in FilterValues
  BY DEF FilterViews
<1>8. ASSUME NEW k \in DOMAIN values
      PROVE  /\ k \in FilterKeys /\ values[k] \in FilterValues
             /\ \E j \in DOMAIN vm.filters : vm.filters[j].key = k /\ vm.filters[j].pending
  BY <1>1, <1>5, <1>6, <1>7
<1>9. values = [k \in DOMAIN values |-> values[k]]
  BY <1>4
<1>10. values \in [DOMAIN values -> FilterValues]
  BY <1>8, <1>9
<1>11. ASSUME NEW j \in DOMAIN vm.filters
       PROVE  IF vm.filters[j].pending
              THEN vm.filters[j].key \in DOMAIN values /\ values[vm.filters[j].key] = vm.filters[j].value
              ELSE vm.filters[j].key \notin DOMAIN values
  <2>1. CASE vm.filters[j].pending
    BY <1>2, <1>6, <2>1
  <2>2. CASE ~vm.filters[j].pending
    BY <1>8, <2>2
  <2> QED
    BY <2>1, <2>2
<1> QED
  BY <1>8, <1>10, <1>11

LEMMA WrittenPattern ==
  ASSUME NEW v \in FilterValues
  PROVE  WritePattern(v) \in Seq(Characters)
<1>1. v.text \in Seq(Characters) /\ <<"^">> \in Seq(Characters) /\ <<"$">> \in Seq(Characters) /\ <<>> \in Seq(Characters)
  BY EditorAssumption DEF FilterValues
<1> QED
  BY <1>1 DEF WritePattern

\* The condition of a key after saving.
SavedFilter(values, deleting, filter, k) ==
  IF k \in DOMAIN values THEN values[k] ELSE IF k \in deleting THEN NoFilter ELSE filter[k]

LEMMA WhereSaved ==
  ASSUME NEW where, where \in [DOMAIN where -> Seq(Characters)], DOMAIN where \subseteq FilterKeys,
         NEW filter \in [FilterKeys -> FilterValues],
         \A k \in FilterKeys : ReadFilter(where)[k] = filter[k] \/ Ambiguous(filter[k]),
         NEW values, values \in [DOMAIN values -> FilterValues], DOMAIN values \subseteq FilterKeys,
         NEW deleting,
         NEW new, new = WriteFilters(Restrict(where, DOMAIN where \ deleting), values)
  PROVE  /\ new \in [DOMAIN new -> Seq(Characters)] /\ DOMAIN new \subseteq FilterKeys
         /\ \A k \in FilterKeys :
              LET v == SavedFilter(values, deleting, filter, k) IN ReadFilter(new)[k] = v \/ Ambiguous(v)
<1>1. PICK cleared : cleared = {k \in DOMAIN values : values[k] = NoFilter}
  OBVIOUS
<1>2. PICK kept : kept = Restrict(where, DOMAIN where \ deleting)
  OBVIOUS
<1>3. DOMAIN kept = DOMAIN where \ deleting /\ \A k \in DOMAIN kept : kept[k] = where[k]
  BY <1>2 DEF Restrict
<1>4. new = [k \in (DOMAIN kept \cup DOMAIN values) \ cleared |->
               IF k \in DOMAIN values THEN WritePattern(values[k]) ELSE kept[k]]
  BY <1>1, <1>2 DEF WriteFilters
<1>5. /\ DOMAIN new = (DOMAIN kept \cup DOMAIN values) \ cleared
      /\ \A k \in DOMAIN new : new[k] = IF k \in DOMAIN values THEN WritePattern(values[k]) ELSE where[k]
  BY <1>3, <1>4
<1>6. \A k \in DOMAIN values : values[k] \in FilterValues /\ WritePattern(values[k]) \in Seq(Characters)
  BY WrittenPattern
<1>7. \A k \in DOMAIN where : where[k] \in Seq(Characters)
  OBVIOUS
<1>8. \A k \in DOMAIN new : new[k] \in Seq(Characters)
  BY <1>3, <1>5, <1>6, <1>7
<1>9. new \in [DOMAIN new -> Seq(Characters)]
  <2>1. new = [k \in DOMAIN new |-> new[k]]
    BY <1>4
  <2> QED
    BY <1>8, <2>1
<1>10. ASSUME NEW k \in FilterKeys
       PROVE  LET v == SavedFilter(values, deleting, filter, k) IN ReadFilter(new)[k] = v \/ Ambiguous(v)
  <2>1. ReadFilter(new)[k] = IF k \in DOMAIN new THEN ReadPattern(new[k]) ELSE NoFilter
    BY DEF ReadFilter
  <2>2. ReadFilter(where)[k] = IF k \in DOMAIN where THEN ReadPattern(where[k]) ELSE NoFilter
    BY DEF ReadFilter
  <2>3. CASE k \in DOMAIN values
    <3>1. SavedFilter(values, deleting, filter, k) = values[k]
      BY <2>3 DEF SavedFilter
    <3>2. values[k] = NoFilter => ReadFilter(new)[k] = values[k]
      BY <1>1, <1>5, <2>1, <2>3
    <3>3. values[k] # NoFilter => ReadFilter(new)[k] = ReadPattern(WritePattern(values[k]))
      BY <1>1, <1>5, <2>1, <2>3
    <3>4. Ambiguous(values[k]) \/ ReadPattern(WritePattern(values[k])) = values[k]
      BY <1>6, <2>3, ReadWritten
    <3> QED
      BY <3>1, <3>2, <3>3, <3>4
  <2>4. CASE k \notin DOMAIN values
    <3>1. k \in DOMAIN new <=> k \in DOMAIN where /\ k \notin deleting
      BY <1>1, <1>3, <1>5, <2>4
    <3>2. k \in deleting => ReadFilter(new)[k] = NoFilter
      BY <2>1, <3>1
    <3>3. k \notin deleting => ReadFilter(new)[k] = ReadFilter(where)[k]
      BY <1>5, <2>1, <2>2, <2>4, <3>1
    <3> QED
      BY <2>4, <3>2, <3>3 DEF SavedFilter
  <2> QED
    BY <2>3, <2>4
<1>11. DOMAIN new \subseteq FilterKeys
  BY <1>3, <1>5
<1> QED
  BY <1>9, <1>10, <1>11


-----------------------------------------------------------------------------
(* Saving: the triggers                                                    *)

WhenValues == [form : {"absent", "scalar", "seq", "map"}, names : Seq(TriggerNames)]

\* Two sequences in a row have the elements of both.
LEMMA ToSetConcat ==
  ASSUME NEW T, NEW s \in Seq(T), NEW t \in Seq(T)
  PROVE  s \o t \in Seq(T) /\ ToSet(s \o t) = ToSet(s) \cup ToSet(t)
<1>1. s \o t \in Seq(T) /\ Len(s \o t) = Len(s) + Len(t) /\ Len(s) \in Nat /\ Len(t) \in Nat
  OBVIOUS
<1>2. \A i \in 1..(Len(s) + Len(t)) : (s \o t)[i] = IF i <= Len(s) THEN s[i] ELSE t[i - Len(s)]
  BY ConcatProperties
<1>3. DOMAIN s = 1..Len(s) /\ DOMAIN t = 1..Len(t) /\ DOMAIN (s \o t) = 1..(Len(s) + Len(t))
  BY <1>1
<1> DEFINE u == s \o t
<1>4. DOMAIN u = 1..(Len(s) + Len(t)) /\ \A i \in DOMAIN u : u[i] = IF i <= Len(s) THEN s[i] ELSE t[i - Len(s)]
  BY <1>2, <1>3
<1> HIDE DEF u
<1>5. ASSUME NEW i \in DOMAIN u
      PROVE  u[i] \in ToSet(s) \cup ToSet(t)
  <2>1. CASE i <= Len(s)
    BY <1>1, <1>3, <1>4, <2>1 DEF ToSet
  <2>2. CASE ~(i <= Len(s))
    <3>1. i - Len(s) \in 1..Len(t)
      BY <1>1, <1>4, <2>2
    <3> QED
      BY <1>3, <1>4, <2>2, <3>1 DEF ToSet
  <2> QED
    BY <2>1, <2>2
<1>6. ASSUME NEW i \in 1..Len(s)
      PROVE  s[i] \in ToSet(u)
  <2>1. i \in DOMAIN u /\ u[i] = s[i]
    BY <1>1, <1>4
  <2> QED
    BY <2>1 DEF ToSet
<1>7. ASSUME NEW i \in 1..Len(t)
      PROVE  t[i] \in ToSet(u)
  <2>1. Len(s) + i \in DOMAIN u /\ u[Len(s) + i] = t[i]
    BY <1>1, <1>4
  <2> QED
    BY <2>1 DEF ToSet
<1>8. ToSet(u) = ToSet(s) \cup ToSet(t)
  BY <1>3, <1>5, <1>6, <1>7 DEF ToSet
<1> QED
  BY <1>1, <1>8 DEF u

\* The triggers that are written are the ones that are read again.
LEMMA TriggersWritten ==
  ASSUME NEW when \in WhenValues, NEW value \in SUBSET TriggerFlags,
         NEW new, new = WriteTriggerFlags(when, value)
  PROVE  new \in WhenValues /\ new.form # "map" /\ ReadTriggerFlags(new) = value
<1>1. PICK names, kept, added :
        /\ names = when.names /\ kept = KeptNames(names, value)
        /\ added = Selected(kAllTriggerEntries, value \ ToSet(kept))
  OBVIOUS
<1>2. names \in Seq(TriggerNames)
  BY <1>1 DEF WhenValues
<1>3. kept \in Seq(TriggerNames) /\ ToSet(kept) = ToSet(names) \cap (ToSet(names) \ (TriggerFlags \ value))
  BY <1>1, <1>2, SelectedElements DEF KeptNames
<1>4. added \in Seq(TriggerNames) /\ ToSet(added) = TriggerFlags \cap (value \ ToSet(kept))
  <2>1. kAllTriggerEntries \in Seq(TriggerNames) /\ ToSet(kAllTriggerEntries) = TriggerFlags
    <3>1. kAllTriggerEntries \in Seq(TriggerFlags)
      BY DEF kAllTriggerEntries, TriggerFlags
    <3>2. TriggerFlags \subseteq TriggerNames
      BY EditorAssumption
    <3>3. Len(kAllTriggerEntries) = 3 /\ DOMAIN kAllTriggerEntries = 1..3
      BY DEF kAllTriggerEntries
    <3>4. kAllTriggerEntries[1] = "init" /\ kAllTriggerEntries[2] = "focus" /\ kAllTriggerEntries[3] = "show"
      BY DEF kAllTriggerEntries
    <3>5. ToSet(kAllTriggerEntries) = TriggerFlags
      BY <3>3, <3>4 DEF ToSet, TriggerFlags
    <3>6. Seq(TriggerFlags) \subseteq Seq(TriggerNames)
      BY <3>2
    <3> QED
      BY <3>1, <3>5, <3>6
  <2> QED
    BY <1>1, <2>1, SelectedElements
<1>5. PICK all : all = kept \o added
  OBVIOUS
<1>6. all \in Seq(TriggerNames) /\ ToSet(all) = ToSet(kept) \cup ToSet(added)
  BY <1>3, <1>4, <1>5, ToSetConcat
<1>7. new = [form |-> IF when.form = "scalar" /\ Len(all) = 1 THEN "scalar" ELSE "seq", names |-> all]
  BY <1>1, <1>5 DEF WriteTriggerFlags
<1>8. new.form \in {"scalar", "seq"} /\ new.names = all /\ new = [form |-> new.form, names |-> all]
  BY <1>7
<1>9. ToSet(all) \cap TriggerFlags = value
  BY <1>3, <1>4, <1>6
<1>10. ReadTriggerFlags(new) = value
  BY <1>8, <1>9 DEF ReadTriggerFlags, ToTriggerFlags
<1>11. new \in WhenValues
  BY <1>6, <1>8 DEF WhenValues
<1> QED
  BY <1>8, <1>10, <1>11

LEMMA WhenSaved ==
  ASSUME NEW when \in WhenValues, when.form # "map",
         NEW vm, vm.triggers \in SUBSET TriggerFlags,
         NEW rule, rule.triggers = ReadTriggerFlags(when), vm.triggersPending \/ vm.triggers = rule.triggers,
         NEW new, new = AppliedWhen(vm, rule, when)
  PROVE  new \in WhenValues /\ new.form # "map" /\ ReadTriggerFlags(new) = vm.triggers
<1>1. CASE vm.triggersPending /\ vm.triggers # rule.triggers
  <2>1. new = WriteTriggerFlags(when, vm.triggers)
    BY <1>1 DEF AppliedWhen
  <2> QED
    BY <2>1, TriggersWritten
<1>2. CASE ~(vm.triggersPending /\ vm.triggers # rule.triggers)
  <2>1. new = when
    BY <1>2 DEF AppliedWhen
  <2> QED
    BY <1>2, <2>1
<1> QED
  BY <1>1, <1>2

LEMMA NoMap ==
  ASSUME NEW node, ParseError(node) = <<>>
  PROVE  node.when.form # "map"
BY DEF ParseError

LEMMA StillReadable ==
  ASSUME NEW node, ParseError(node) = <<>>, NEW new, new.shape = node.shape, new.when.form # "map"
  PROVE  ParseError(new) = <<>>
<1>1. node.when.form # "map"
  BY NoMap
<1> QED
  BY <1>1 DEF ParseError


-----------------------------------------------------------------------------
(* Saving: a rule                                                          *)

LEMMA NodeSaved ==
  ASSUME NEW vm, NEW rule, NEW node, IsRuleView(vm), Shows(vm, rule, node), Agrees(rule, node),
         IsNode(node), ParseError(node) = <<>>,
         NEW new, new = AppliedNode(vm, rule, node)
  PROVE  /\ IsNode(new) /\ ParseError(new) = <<>> /\ new.type = node.type
         /\ ReadsAction(new.type, new.fields) /\ ReadAction(new.type, new.fields) = vm.action.shown
         /\ ReadTriggerFlags(new.when) = vm.triggers
         /\ new.where = AppliedWhere(vm, node.where)
         /\ \A k \in FilterKeys :
              LET v == SavedFilter(PendingFilters(vm), vm.deleting, rule.filter, k)
              IN  ReadFilter(new.where)[k] = v \/ Ambiguous(v)
<1>1. PICK fields, where, when :
        /\ fields = AppliedFields(vm.action, node.fields)
        /\ where = AppliedWhere(vm, node.where)
        /\ when = AppliedWhen(vm, rule, node.when)
  OBVIOUS
<1>2. new = [shape |-> node.shape, type |-> node.type, fields |-> fields, where |-> where, when |-> when]
  BY <1>1 DEF AppliedNode
<1>3. /\ node.shape \in STRING /\ node.type \in ActionTypes /\ node.fields \in [DOMAIN node.fields -> Int]
      /\ node.where \in [DOMAIN node.where -> Seq(Characters)] /\ DOMAIN node.where \subseteq FilterKeys
      /\ node.when \in WhenValues
  BY NodeParts DEF WhenValues
<1>4. Parts(vm) /\ IsActionView(vm.action)
  BY RuleViewParts DEF IsRuleView
<1>5. vm.action.type = node.type
  BY DEF Shows, Agrees
<1>6. /\ fields \in [DOMAIN fields -> Int] /\ ReadsAction(node.type, fields)
      /\ ReadAction(node.type, fields) = vm.action.shown
  <2>1. PICK a, old : a = vm.action /\ old = node.fields
    OBVIOUS
  <2>2. /\ IsActionView(a) /\ NumbersInRange(a) /\ old \in [DOMAIN old -> Int]
        /\ ReadsAction(a.type, old) /\ a.bounds = ReadAction(a.type, old)
        /\ \A f \in DOMAIN a.shown \ a.dirty : a.shown[f] = a.bounds[f]
    BY <1>3, <1>4, <1>5, <2>1 DEF Shows
  <2>3. fields = AppliedFields(a, old)
    BY <1>1, <2>1
  <2>4. fields \in [DOMAIN fields -> Int] /\ ReadsAction(a.type, fields) /\ ReadAction(a.type, fields) = a.shown
    BY <2>2, <2>3, FieldsSaved
  <2> QED
    BY <1>5, <2>1, <2>4
<1>7. /\ where \in [DOMAIN where -> Seq(Characters)] /\ DOMAIN where \subseteq FilterKeys
      /\ \A k \in FilterKeys :
           LET v == SavedFilter(PendingFilters(vm), vm.deleting, rule.filter, k)
           IN  ReadFilter(where)[k] = v \/ Ambiguous(v)
  <2>1. PICK old, filter, values, deleting :
          old = node.where /\ filter = rule.filter /\ values = PendingFilters(vm) /\ deleting = vm.deleting
    OBVIOUS
  <2>2. /\ old \in [DOMAIN old -> Seq(Characters)] /\ DOMAIN old \subseteq FilterKeys
        /\ filter \in [FilterKeys -> FilterValues]
        /\ \A k \in FilterKeys : ReadFilter(old)[k] = filter[k] \/ Ambiguous(filter[k])
    BY <1>3, <2>1 DEF Agrees, RuleValues
  <2>3. values \in [DOMAIN values -> FilterValues] /\ DOMAIN values \subseteq FilterKeys
    <3>1. vm.filters \in Seq(FilterViews)
      BY <1>4 DEF Parts
    <3>2. \A j, k \in DOMAIN vm.filters : vm.filters[j].key = vm.filters[k].key => j = k
      BY DEF IsRuleView
    <3> QED
      BY <2>1, <3>1, <3>2, PendingValues
  <2>4. where = WriteFilters(Restrict(old, DOMAIN old \ deleting), values)
    BY <1>1, <2>1 DEF AppliedWhere
  <2>5. /\ where \in [DOMAIN where -> Seq(Characters)] /\ DOMAIN where \subseteq FilterKeys
        /\ \A k \in FilterKeys :
             LET v == SavedFilter(values, deleting, filter, k) IN ReadFilter(where)[k] = v \/ Ambiguous(v)
    BY <2>2, <2>3, <2>4, WhereSaved
  <2> QED
    BY <2>1, <2>5
<1>8. when \in WhenValues /\ when.form # "map" /\ ReadTriggerFlags(when) = vm.triggers
  <2>1. node.when.form # "map"
    BY NoMap
  <2>2. vm.triggers \in SUBSET TriggerFlags /\ rule.triggers = ReadTriggerFlags(node.when)
        /\ (vm.triggersPending \/ vm.triggers = rule.triggers)
    BY <1>4 DEF Parts, Agrees, Shows
  <2> QED
    BY <1>1, <1>3, <2>1, <2>2, WhenSaved
<1>9. /\ new.shape = node.shape /\ new.type = node.type /\ new.fields = fields /\ new.where = where
      /\ new.when = when /\ IsNodeRecord(new)
  BY <1>2 DEF IsNodeRecord
<1>10. IsNode(new)
  BY <1>3, <1>6, <1>7, <1>8, <1>9, NodeMade DEF WhenValues
<1>11. ParseError(new) = <<>>
  BY <1>8, <1>9, StillReadable
<1> QED
  BY <1>1, <1>6, <1>7, <1>8, <1>9, <1>10, <1>11

LEMMA RuleSaved ==
  ASSUME NEW vm, NEW rule, NEW node, IsRuleView(vm), Shows(vm, rule, node), Agrees(rule, node),
         IsNode(node), ParseError(node) = <<>>,
         NEW new, new = AppliedNode(vm, rule, node),
         NEW changed, changed = AppliedRule(vm, rule)
  PROVE  /\ Agrees(changed, new)
         /\ changed.type = rule.type /\ changed.triggers = vm.triggers
         /\ \A k \in FilterKeys :
              changed.filter[k] = SavedFilter(PendingFilters(vm), vm.deleting, rule.filter, k)
<1>1. PICK values : values = PendingFilters(vm)
  OBVIOUS
<1>2. PICK filter : filter = [k \in FilterKeys |-> SavedFilter(values, vm.deleting, rule.filter, k)]
  OBVIOUS
<1>3. changed = [filter |-> filter, triggers |-> vm.triggers, type |-> rule.type]
  BY <1>1, <1>2 DEF AppliedRule, SavedFilter
<1>4. Parts(vm)
  BY RuleViewParts
<1>5. values \in [DOMAIN values -> FilterValues] /\ rule.filter \in [FilterKeys -> FilterValues]
  <2>1. vm.filters \in Seq(FilterViews)
    BY <1>4 DEF Parts
  <2>2. \A j, k \in DOMAIN vm.filters : vm.filters[j].key = vm.filters[k].key => j = k
    BY DEF IsRuleView
  <2> QED
    BY <1>1, <2>1, <2>2, PendingValues DEF Agrees, RuleValues
<1>6. NoFilter \in FilterValues
  BY DEF NoFilter, FilterValues, StringMatchTypes
<1>7. filter \in [FilterKeys -> FilterValues]
  BY <1>2, <1>5, <1>6 DEF SavedFilter
<1>8. changed.filter = filter /\ changed.triggers = vm.triggers /\ changed.type = rule.type
  BY <1>3
<1>9. changed \in RuleValues
  <2>1. vm.triggers \in SUBSET TriggerFlags /\ rule.type \in ActionTypes
    BY <1>4 DEF Parts, Agrees, RuleValues
  <2> QED
    BY <1>3, <1>7, <2>1 DEF RuleValues
<1>10. \A k \in FilterKeys : filter[k] = SavedFilter(values, vm.deleting, rule.filter, k)
  BY <1>2
<1>11. Agrees(changed, new)
  <2>1. /\ new.type = node.type /\ ReadTriggerFlags(new.when) = vm.triggers
        /\ \A k \in FilterKeys :
             LET v == SavedFilter(values, vm.deleting, rule.filter, k)
             IN  ReadFilter(new.where)[k] = v \/ Ambiguous(v)
    BY <1>1, NodeSaved
  <2>2. rule.type = node.type
    BY DEF Agrees
  <2> QED
    BY <1>8, <1>9, <1>10, <2>1, <2>2 DEF Agrees
<1> QED
  BY <1>1, <1>8, <1>10, <1>11


LEMMA FunctionIsSeq ==
  ASSUME NEW S, NEW n \in Nat, NEW f \in [1..n -> S]
  PROVE  f \in Seq(S) /\ Len(f) = n
OBVIOUS

\* Saved conditions are shown as they were, none of them pending any more.
LEMMA FiltersSaved ==
  ASSUME NEW filters \in Seq(FilterViews),
         NEW new, new = [j \in DOMAIN filters |-> NewFilter(filters[j].key, filters[j].value, FALSE)]
  PROVE  /\ new \in Seq(FilterViews) /\ Len(new) = Len(filters) /\ DOMAIN new = DOMAIN filters
         /\ \A j \in DOMAIN filters : new[j].key = filters[j].key /\ new[j].value = filters[j].value
         /\ ShownKeys(new) = ShownKeys(filters)
<1>1. \A j \in DOMAIN filters : filters[j].key \in FilterKeys /\ filters[j].value \in FilterValues
  <2>1. \A j \in DOMAIN filters : filters[j] \in FilterViews
    OBVIOUS
  <2> QED
    BY <2>1 DEF FilterViews
<1>2. DOMAIN filters = 1..Len(filters) /\ Len(filters) \in Nat
  OBVIOUS
<1>3. \A k \in FilterKeys, v \in FilterValues :
        NewFilter(k, v, FALSE) \in FilterViews /\ NewFilter(k, v, FALSE).key = k /\ NewFilter(k, v, FALSE).value = v
  BY DEF NewFilter, FilterViews
<1>4. \A j \in DOMAIN filters : /\ new[j] = NewFilter(filters[j].key, filters[j].value, FALSE)
                                /\ new[j] \in FilterViews
  BY <1>1, <1>3
<1>5. DOMAIN new = 1..Len(filters)
  BY <1>2
<1>6. new \in Seq(FilterViews) /\ Len(new) = Len(filters)
  <2>1. new \in [1..Len(filters) -> FilterViews]
    BY <1>2, <1>4
  <2> QED
    BY <1>2, <2>1, FunctionIsSeq
<1>7. \A j \in DOMAIN filters : new[j].key = filters[j].key /\ new[j].value = filters[j].value
  BY <1>1, <1>3, <1>4
<1>8. DOMAIN new = DOMAIN filters
  BY <1>2, <1>5
<1>9. ShownKeys(new) = ShownKeys(filters)
  <2>1. \A j \in DOMAIN filters : new[j].key = filters[j].key
    BY <1>7
  <2> QED
    BY <1>8, <2>1 DEF ShownKeys
<1> QED
  BY <1>6, <1>7, <1>8, <1>9

LEMMA ActionSaved ==
  ASSUME NEW a, IsActionView(a), NEW new, new = AppliedAction(a)
  PROVE  /\ IsActionView(new)
         /\ new.type = a.type /\ new.bounds = a.shown /\ new.shown = a.shown /\ new.dirty = {}
<1>1. PICK no : no = FALSE
  OBVIOUS
<1>2. new = [type |-> a.type, bounds |-> a.shown, shown |-> a.shown, dirty |-> {}, pending |-> no]
  BY <1>1 DEF AppliedAction
<1>3. a.type \in ActionTypes /\ a.shown \in [FieldsOf(a.type) -> Int]
  BY DEF IsActionView
<1>4. new.type = a.type /\ new.bounds = a.shown /\ new.shown = a.shown /\ new.dirty = {}
  BY <1>2
<1>5. no \in BOOLEAN
  BY <1>1
<1>6. IsActionView(new)
  BY <1>2, <1>3, <1>4, <1>5 DEF IsActionView
<1> QED
  BY <1>4, <1>6

LEMMA ViewSaved ==
  ASSUME NEW vm, NEW rule, NEW node, IsRuleView(vm), Shows(vm, rule, node), Agrees(rule, node),
         IsNode(node), ParseError(node) = <<>>,
         NEW saved, saved = AppliedNode(vm, rule, node),
         NEW changed, changed = AppliedRule(vm, rule),
         NEW new, new = AppliedView(vm)
  PROVE  IsRuleView(new) /\ Shows(new, changed, saved)
<1>1. PICK action, filters, no :
        /\ action = AppliedAction(vm.action)
        /\ filters = [j \in DOMAIN vm.filters |-> NewFilter(vm.filters[j].key, vm.filters[j].value, FALSE)]
        /\ no = FALSE
  OBVIOUS
<1>2. new = [action |-> action, filters |-> filters, unused |-> vm.unused, deleting |-> {},
             triggers |-> vm.triggers, triggersPending |-> no]
  BY <1>1 DEF AppliedView
<1>3. /\ new.action = action /\ new.filters = filters /\ new.unused = vm.unused /\ new.deleting = {}
      /\ new.triggers = vm.triggers /\ new.triggersPending = no
  BY <1>2
<1>4. Parts(vm) /\ IsActionView(vm.action) /\ NumbersInRange(vm.action)
  BY RuleViewParts DEF IsRuleView, Shows
<1>5. /\ IsActionView(action) /\ action.type = vm.action.type /\ action.bounds = vm.action.shown
      /\ action.shown = vm.action.shown /\ action.dirty = {}
  BY <1>1, <1>4, ActionSaved
<1>6. /\ filters \in Seq(FilterViews) /\ Len(filters) = Len(vm.filters) /\ DOMAIN filters = DOMAIN vm.filters
      /\ \A j \in DOMAIN vm.filters : filters[j].key = vm.filters[j].key /\ filters[j].value = vm.filters[j].value
      /\ ShownKeys(filters) = ShownKeys(vm.filters)
  <2>1. vm.filters \in Seq(FilterViews)
    BY <1>4 DEF Parts
  <2> QED
    BY <1>1, <2>1, FiltersSaved
<1>7. /\ \A j, k \in DOMAIN vm.filters : vm.filters[j].key = vm.filters[k].key => j = k
      /\ vm.unused = Selected(kAllFilterKey, FilterKeys \ ShownKeys(vm.filters))
      /\ Len(vm.filters) + Len(vm.unused) = 3
  BY DEF IsRuleView
<1>8. IsRuleView(new)
  <2>1. new \in [action : {new.action}, filters : Seq(FilterViews), unused : Seq(FilterKeys),
                 deleting : SUBSET FilterKeys, triggers : SUBSET TriggerFlags, triggersPending : BOOLEAN]
    <3>1. no \in BOOLEAN
      BY <1>1
    <3>2. vm.unused \in Seq(FilterKeys) /\ vm.triggers \in SUBSET TriggerFlags
      BY <1>4 DEF Parts
    <3> QED
      BY <1>2, <1>3, <1>6, <3>1, <3>2
  <2>2. \A j, k \in DOMAIN filters : filters[j].key = filters[k].key => j = k
    BY <1>6, <1>7
  <2>3. vm.unused = Selected(kAllFilterKey, FilterKeys \ ShownKeys(filters)) /\ Len(filters) + Len(vm.unused) = 3
    BY <1>6, <1>7
  <2> QED
    BY <1>3, <1>5, <2>1, <2>2, <2>3 DEF IsRuleView
<1>9. PICK values : values = PendingFilters(vm)
  OBVIOUS
<1>10. /\ changed.type = rule.type /\ changed.triggers = vm.triggers
       /\ \A k \in FilterKeys : changed.filter[k] = SavedFilter(values, vm.deleting, rule.filter, k)
  BY <1>9, RuleSaved
<1>11. /\ \A k \in DOMAIN values : \E j \in DOMAIN vm.filters : vm.filters[j].key = k /\ vm.filters[j].pending
       /\ \A j \in DOMAIN vm.filters :
            IF vm.filters[j].pending
            THEN vm.filters[j].key \in DOMAIN values /\ values[vm.filters[j].key] = vm.filters[j].value
            ELSE vm.filters[j].key \notin DOMAIN values
  <2>1. vm.filters \in Seq(FilterViews)
    BY <1>4 DEF Parts
  <2> QED
    BY <1>7, <1>9, <2>1, PendingValues
<1>12. /\ \A f \in Range(vm.filters) : (f.pending \/ f.value = rule.filter[f.key]) /\ (f.key \in vm.deleting => f.pending)
       /\ \A k \in ToSet(vm.unused) \ vm.deleting : rule.filter[k] = NoFilter
  BY DEF Shows
<1>13. ASSUME NEW j \in DOMAIN filters
       PROVE  filters[j].value = changed.filter[filters[j].key]
  <2>1. PICK f : f = vm.filters[j]
    OBVIOUS
  <2>2. f \in Range(vm.filters) /\ f.key \in FilterKeys
    <3>1. vm.filters \in Seq(FilterViews) /\ j \in DOMAIN vm.filters
      BY <1>4, <1>6 DEF Parts
    <3>2. f \in FilterViews
      BY <2>1, <3>1
    <3> QED
      BY <2>1, <3>1, <3>2 DEF Range, FilterViews
  <2>3. changed.filter[f.key] = SavedFilter(values, vm.deleting, rule.filter, f.key)
    BY <1>10, <2>2
  <2>4. CASE f.pending
    BY <1>6, <1>11, <2>1, <2>3, <2>4 DEF SavedFilter
  <2>5. CASE ~f.pending
    <3>1. f.key \notin DOMAIN values /\ f.key \notin vm.deleting /\ f.value = rule.filter[f.key]
      BY <1>6, <1>11, <1>12, <2>1, <2>2, <2>5
    <3> QED
      BY <1>6, <2>1, <2>3, <3>1 DEF SavedFilter
  <2> QED
    BY <2>4, <2>5
<1>14. ASSUME NEW k \in ToSet(vm.unused)
       PROVE  changed.filter[k] = NoFilter
  <2>1. k \in FilterKeys /\ k \notin ShownKeys(vm.filters)
    BY <1>7, KeysSelected
  <2>2. k \notin DOMAIN values
    BY <1>11, <2>1 DEF ShownKeys
  <2> QED
    BY <1>10, <1>12, <2>1, <2>2 DEF SavedFilter
<1>15. /\ saved.type = node.type /\ ReadsAction(saved.type, saved.fields)
       /\ ReadAction(saved.type, saved.fields) = vm.action.shown
  BY NodeSaved
<1>16. Shows(new, changed, saved)
  <2>1. action.type = changed.type /\ NumbersInRange(action)
    BY <1>4, <1>5, <1>10 DEF Shows, NumbersInRange
  <2>2. action.bounds = ReadAction(saved.type, saved.fields) /\ ReadsAction(saved.type, saved.fields)
    BY <1>5, <1>15
  <2>3. \A f \in DOMAIN action.shown \ action.dirty : action.shown[f] = action.bounds[f]
    BY <1>5
  <2>4. \A f \in Range(filters) : f.value = changed.filter[f.key]
    BY <1>13 DEF Range
  <2>5. vm.triggers = changed.triggers
    BY <1>10
  <2> QED
    BY <1>3, <1>5, <1>14, <2>1, <2>2, <2>3, <2>4, <2>5 DEF Shows
<1> QED
  BY <1>8, <1>16


-----------------------------------------------------------------------------
(* Saving: the document                                                    *)

\* A document whose actions are all read in their limits starts the engine.
LEMMA NoParseError ==
  ASSUME NEW nodes, DOMAIN nodes \subseteq Nat,
         \A i \in Readable(nodes) : ReadsAction(nodes[i].type, nodes[i].fields)
  PROVE  CompileError(nodes, ReadRules(nodes)) # "ParseError"
<1>1. PICK rs : rs = ReadRules(nodes)
  OBVIOUS
<1>2. DOMAIN rs = Readable(nodes) /\ Readable(nodes) \subseteq Nat
  BY <1>1 DEF ReadRules, Readable
<1>3. \A i \in DOMAIN rs : Thrown(nodes[i], rs[i]) # "ParseError"
  <2>1. \A i \in DOMAIN rs : ReadsAction(nodes[i].type, nodes[i].fields)
    BY <1>2
  <2> QED
    BY <2>1 DEF Thrown
<1> DEFINE throwing == {i \in DOMAIN rs : Thrown(nodes[i], rs[i]) # "nothing"}
<1>4. CompileError(nodes, rs) = IF throwing = {} THEN "nothing" ELSE Thrown(nodes[Min(throwing)], rs[Min(throwing)])
  BY DEF CompileError
<1>5. throwing \in SUBSET Nat /\ throwing \subseteq DOMAIN rs
  BY <1>2
<1> HIDE DEF throwing
<1>6. throwing # {} => Min(throwing) \in DOMAIN rs
  BY <1>5, MinIsLeast
<1> QED
  BY <1>1, <1>3, <1>4, <1>6

LEMMA SaveClickKeeps ==
  ASSUME IInv, SaveClick
  PROVE  IInv'
<1>1. /\ life = "run" /\ HasPendingChanges
      /\ UNCHANGED <<engine, life, loaded, edits>>
      /\ \/ file' = doc' /\ unsaved' = {}
         \/ file' = file /\ unsaved' = unsaved \cup {"failed"}
  BY DEF SaveClick
<1>2. /\ IsDocument(doc) /\ DOMAIN doc = DOMAIN file /\ IsDocument(file)
      /\ DOMAIN rules = Readable(doc) /\ DOMAIN page = DOMAIN rules
  <2>1. page # NoPage
    BY <1>1 DEF HasPendingChanges, NoPage
  <2> QED
    BY <1>1, <2>1 DEF IInv, DocInv, RulesInv, PageInv
<1>3. /\ DOMAIN doc' = DOMAIN doc
      /\ \A i \in DOMAIN doc : doc'[i] = IF i \in DOMAIN rules THEN AppliedNode(page[i], rules[i], doc[i]) ELSE doc[i]
      /\ DOMAIN rules' = DOMAIN rules
      /\ \A i \in DOMAIN rules : rules'[i] = AppliedRule(page[i], rules[i])
      /\ DOMAIN page' = DOMAIN rules
      /\ \A i \in DOMAIN rules : page'[i] = AppliedView(page[i])
  <2>1. /\ doc' = [i \in DOMAIN doc |-> IF i \in DOMAIN page THEN AppliedNode(page[i], rules[i], doc[i]) ELSE doc[i]]
        /\ rules' = [i \in DOMAIN rules |-> AppliedRule(page[i], rules[i])]
        /\ page' = [i \in DOMAIN page |-> AppliedView(page[i])]
    BY DEF SaveClick
  <2> QED
    BY <1>2, <2>1
<1>4. ASSUME NEW i \in DOMAIN rules
      PROVE  /\ IsNode(doc'[i]) /\ ParseError(doc'[i]) = <<>> /\ ReadsAction(doc'[i].type, doc'[i].fields)
             /\ Agrees(rules'[i], doc'[i])
             /\ IsRuleView(page'[i]) /\ Shows(page'[i], rules'[i], doc'[i])
  <2>1. PICK vm, rule, node : vm = page[i] /\ rule = rules[i] /\ node = doc[i]
    OBVIOUS
  <2>2. PICK saved, changed, new : saved = doc'[i] /\ changed = rules'[i] /\ new = page'[i]
    OBVIOUS
  <2>3. i \in DOMAIN doc /\ IsNode(node) /\ ParseError(node) = <<>>
    BY <1>2, <2>1 DEF IsDocument, Readable
  <2>4. IsRuleView(vm) /\ Shows(vm, rule, node) /\ Agrees(rule, node)
    BY <1>1, <1>2, <2>1 DEF IInv, PageInv, RulesInv
  <2>5. saved = AppliedNode(vm, rule, node) /\ changed = AppliedRule(vm, rule) /\ new = AppliedView(vm)
    BY <1>3, <2>1, <2>2, <2>3
  <2>6. IsNode(saved) /\ ParseError(saved) = <<>> /\ ReadsAction(saved.type, saved.fields)
    BY <2>3, <2>4, <2>5, NodeSaved
  <2>7. Agrees(changed, saved)
    BY <2>3, <2>4, <2>5, RuleSaved
  <2>8. IsRuleView(new) /\ Shows(new, changed, saved)
    BY <2>3, <2>4, <2>5, ViewSaved
  <2> QED
    BY <2>2, <2>6, <2>7, <2>8
<1>5. Readable(doc') = Readable(doc)
  BY <1>2, <1>3, <1>4 DEF Readable
<1>6. IsDocument(doc')
  BY <1>2, <1>3, <1>4 DEF IsDocument
<1>7. DocInv'
  <2>1. IsDocument(file') /\ DOMAIN doc' = DOMAIN file'
    BY <1>1, <1>2, <1>3, <1>6
  <2>2. unsaved' \subseteq {"type", "failed"}
    BY <1>1 DEF IInv, DocInv
  <2> QED
    BY <1>1, <1>6, <2>1, <2>2 DEF IInv, DocInv
<1>8. RulesInv'
  BY <1>1, <1>2, <1>3, <1>4, <1>5 DEF RulesInv
<1>9. PageInv'
  BY <1>1, <1>3, <1>4 DEF PageInv
<1>10. AheadInv'
  BY <1>1 DEF AheadInv
<1>11. EngineInv' /\ StartInv'
  <2>1. CompileError(doc', ReadRules(doc')) # "ParseError"
    <3>1. DOMAIN doc' \subseteq Nat /\ \A i \in Readable(doc') : ReadsAction(doc'[i].type, doc'[i].fields)
      BY <1>2, <1>3, <1>4, <1>5 DEF IsDocument
    <3> QED
      BY <3>1, NoParseError
  <2> QED
    BY <1>1, <1>3, <2>1 DEF IInv, EngineInv, StartInv
<1> QED
  BY <1>7, <1>8, <1>9, <1>10, <1>11 DEF IInv


-----------------------------------------------------------------------------
(* The theorems                                                            *)

LEMMA InitIInv ==
  ASSUME Init
  PROVE  IInv
<1>1. /\ file \in Files /\ doc = file /\ rules = <<>> /\ engine = <<>>
      /\ life = "off" /\ page = NoPage
      /\ loaded = <<>> /\ touched = {} /\ unsaved = {} /\ edits = 0
  BY DEF Init
<1>2. IsDocument(file)
  <2>1. file \in Seq(Range(file)) /\ \A node \in Range(file) : IsNode(node)
    BY <1>1, EditorAssumption
  <2>2. DOMAIN file \subseteq Nat
    BY <2>1
  <2>3. \A i \in DOMAIN file : file[i] \in Range(file)
    BY DEF Range
  <2> QED
    BY <2>1, <2>2, <2>3 DEF IsDocument
<1>3. DocInv
  BY <1>1, <1>2, EditorAssumption DEF DocInv
<1>4. DOMAIN rules = {} /\ DOMAIN engine = {} /\ DOMAIN loaded = {} /\ DOMAIN page = {}
  BY <1>1 DEF NoPage
<1>5. RulesInv /\ PageInv /\ AheadInv
  BY <1>1, <1>4 DEF RulesInv, PageInv, AheadInv
<1>6. EngineInv /\ StartInv
  BY <1>1, <1>4 DEF EngineInv, StartInv, IsDocument
<1> QED
  BY <1>3, <1>5, <1>6 DEF IInv

LEMMA StutterIInv ==
  ASSUME IInv, UNCHANGED vars
  PROVE  IInv'
<1>1. UNCHANGED <<file, doc, rules, engine, life, page, loaded, touched, unsaved, edits>>
  BY DEF vars
<1>2. DocInv' /\ RulesInv' /\ PageInv'
  BY <1>1 DEF IInv, DocInv, RulesInv, PageInv
<1>3. AheadInv' /\ EngineInv' /\ StartInv'
  BY <1>1 DEF IInv, AheadInv, EngineInv, StartInv
<1> QED
  BY <1>2, <1>3 DEF IInv

\* What is shown of a rule, what is kept of it in memory and what its node says
\* go together whatever the user does, and the document is one that is read.
THEOREM IInvCorrect == Spec => []IInv
<1>1. Init => IInv
  BY InitIInv
<1>2. IInv /\ [Next]_vars => IInv'
  BY StartKeeps, EndKeeps, OpenPageKeeps, ClosePageKeeps, UserEditsKeep, SaveClickKeeps, StutterIInv DEF Next
<1> QED
  BY <1>1, <1>2, PTL DEF Spec

\* RulesViewModel::SaveClick() with what writes to the document without it
\* (RuleViewModel::ActionType()): a document that is ahead of its file is known
\* to be: by a pending change, a failed save or a type chosen on a page left.
THEOREM SavedUnlessKnownCorrect == Spec => []SavedUnlessKnown
<1>1. IInv => SavedUnlessKnown
  BY DEF IInv, AheadInv, SavedUnlessKnown, HasPendingChanges, PendingRule
<1> QED
  BY <1>1, IInvCorrect, PTL

\* The view models of RuleViewModel, FilterViewModel and ActionViewModel show
\* what the document says, but for what is pending.
THEOREM ViewIsDocumentCorrect == Spec => []ViewIsDocument
<1>1. ASSUME IInv
      PROVE  ViewIsDocument
  <2> SUFFICES ASSUME life = "run", NEW i \in DOMAIN page
               PROVE  LET vm == page[i]
                          action == vm.action IN
                        /\ action.type = rules[i].type
                        /\ action.bounds = ReadAction(doc[i].type, doc[i].fields)
                        /\ \A f \in DOMAIN action.shown \ action.dirty : action.shown[f] = action.bounds[f]
                        /\ action.dirty # {} => action.pending
                        /\ \A f \in Range(vm.filters) : f.pending \/ f.value = rules[i].filter[f.key]
                        /\ \A k \in ToSet(vm.unused) \ vm.deleting : rules[i].filter[k] = NoFilter
                        /\ vm.triggersPending \/ vm.triggers = rules[i].triggers
    BY Zenon DEF ViewIsDocument
  <2>1. Shows(page[i], rules[i], doc[i])
    BY <1>1 DEF IInv, PageInv
  <2> QED
    BY <2>1 DEF Shows
<1> QED
  BY <1>1, IInvCorrect, PTL

\* The lists of RuleViewModel: addFilter() and deleteFilter() move a key from
\* one to the other, and the one of the unused keys stays in its order.
THEOREM KeysPartitionedCorrect == Spec => []KeysPartitioned
<1>1. ASSUME IInv
      PROVE  KeysPartitioned
  <2>1. ASSUME NEW i \in DOMAIN page
        PROVE  LET shown == [j \in DOMAIN page[i].filters |-> page[i].filters[j].key] IN
                 /\ Len(shown) + Len(page[i].unused) = Cardinality(FilterKeys)
                 /\ ToSet(shown) \cup ToSet(page[i].unused) = FilterKeys
                 /\ page[i].unused = Selected(kAllFilterKey, FilterKeys \ ToSet(shown))
    <3>1. PICK filters, unused : filters = page[i].filters /\ unused = page[i].unused
      OBVIOUS
    <3>2. /\ filters \in Seq(FilterViews) /\ unused = Selected(kAllFilterKey, FilterKeys \ ShownKeys(filters))
          /\ Len(filters) + Len(unused) = 3
      <4>1. IsRuleView(page[i])
        BY <1>1 DEF IInv, PageInv
      <4> QED
        BY <3>1, <4>1, RuleViewParts DEF IsRuleView, Parts
    <3>3. PICK shown : shown = [j \in DOMAIN filters |-> filters[j].key]
      OBVIOUS
    <3>4. \A j \in DOMAIN filters : filters[j] \in FilterViews /\ filters[j].key \in FilterKeys
      <4>1. \A j \in DOMAIN filters : filters[j] \in FilterViews
        BY <3>2
      <4> QED
        BY <4>1 DEF FilterViews
    <3>5. Len(shown) = Len(filters) /\ DOMAIN shown = DOMAIN filters
      <4>1. Len(filters) \in Nat /\ DOMAIN filters = 1..Len(filters)
        BY <3>2
      <4>2. shown \in [1..Len(filters) -> FilterKeys]
        BY <3>3, <3>4, <4>1
      <4> QED
        BY <4>1, <4>2, FunctionIsSeq
    <3>6. ToSet(shown) = ShownKeys(filters)
      BY <3>3, <3>5 DEF ToSet, ShownKeys
    <3>7. ShownKeys(filters) \subseteq FilterKeys
      BY <3>4 DEF ShownKeys
    <3>8. ToSet(unused) = FilterKeys \ ShownKeys(filters)
      BY <3>2, KeysSelected
    <3>9. Cardinality(FilterKeys) = 3
      <4>1. "process" # "class" /\ "process" # "title" /\ "class" # "title"
        OBVIOUS
      <4>2. Cardinality(({"process"} \cup {"class"}) \cup {"title"}) = 3
        BY <4>1, TripleCardinality, Zenon
      <4>3. FilterKeys = ({"process"} \cup {"class"}) \cup {"title"}
        BY DEF FilterKeys
      <4> QED
        BY <4>2, <4>3
    <3>10. /\ Len(shown) + Len(unused) = Cardinality(FilterKeys)
           /\ ToSet(shown) \cup ToSet(unused) = FilterKeys
           /\ unused = Selected(kAllFilterKey, FilterKeys \ ToSet(shown))
      BY <3>2, <3>5, <3>6, <3>7, <3>8, <3>9
    <3> QED
      BY <3>1, <3>3, <3>10
  <2> QED
    BY <2>1 DEF KeysPartitioned
<1> QED
  BY <1>1, IInvCorrect, PTL

\* The predicates of compiler::CompileRule() test what docs/configuration.md
\* says of the patterns of a file, for every pattern and every window.
THEOREM MatchesAsDocumentedCorrect == Spec => []MatchesAsDocumented
<1>1. ASSUME IInv
      PROVE  MatchesAsDocumented
  <2>1. ASSUME NEW i \in DOMAIN engine, NEW w \in Windows
        PROVE  Matches(engine[i], w) <=>
                 \A k \in DOMAIN loaded[i].where :
                   PatternMatches(loaded[i].where[k], w[k]) \/ (k = "process" /\ loaded[i].where[k] = <<"^", "$">>)
    <3>1. engine = CompileRule(loaded, ReadRules(loaded)) /\ IsDocument(loaded)
      BY <1>1 DEF IInv, EngineInv
    <3>2. /\ i \in DOMAIN ReadRules(loaded)
          /\ engine[i].condition = CompileFilter(ReadRules(loaded)[i].filter)
      BY <3>1 DEF CompileRule
    <3>3. i \in DOMAIN loaded /\ ReadRules(loaded)[i].filter = ReadFilter(loaded[i].where)
      BY <3>2 DEF ReadRules, Readable, ReadRule
    <3>4. PICK where : where = loaded[i].where
      OBVIOUS
    <3>5. where \in [DOMAIN where -> Seq(Characters)] /\ DOMAIN where \subseteq FilterKeys
      BY <3>1, <3>3, <3>4, NodeParts DEF IsDocument
    <3>6. w \in [FilterKeys -> Seq(Characters)]
      BY EditorAssumption
    <3>7. (\A p \in CompileFilter(ReadFilter(where)) : Evaluate(p, w)) <=>
            \A k \in DOMAIN where : PatternMatches(where[k], w[k]) \/ (k = "process" /\ where[k] = <<"^", "$">>)
      BY <3>5, <3>6, NodeMatches
    <3> QED
      BY <3>2, <3>3, <3>4, <3>7 DEF Matches
  <2> QED
    BY <2>1, Zenon DEF MatchesAsDocumented
<1> QED
  BY <1>1, IInvCorrect, PTL

\* Rule, RuleViewModel and the node of a rule agree, and a file that
\* SaveClick() wrote does not end the program at its next start.
THEOREM EditorInvCorrect == Spec => []EditorInv
<1>1. ASSUME IInv
      PROVE  EditorTypeOK
  <2>1. ASSUME NEW i \in DOMAIN page
        PROVE  /\ DOMAIN page[i].action.shown = FieldsOf(page[i].action.type)
               /\ page[i].action.dirty \subseteq FieldsOf(page[i].action.type)
               /\ page[i].triggers \subseteq TriggerFlags
    <3>1. IsRuleView(page[i])
      BY <1>1 DEF IInv, PageInv
    <3> QED
      BY <3>1, RuleViewParts DEF Parts, ActionParts
  <2>2. /\ life \in {"off", "run", "terminated", "crashed"}
        /\ DOMAIN doc = DOMAIN file /\ DOMAIN engine \subseteq DOMAIN rules
        /\ edits \in 0..MaxEdits /\ unsaved \subseteq {"type", "failed"}
        /\ life # "off" => DOMAIN rules = Readable(doc)
        /\ page # NoPage => DOMAIN page = DOMAIN rules
    BY <1>1 DEF IInv, DocInv, RulesInv, PageInv, EngineInv
  <2> QED
    BY <2>1, <2>2 DEF EditorTypeOK
<1>2. ASSUME IInv
      PROVE  MemoryIsDocument
  <2>1. ASSUME NEW i \in DOMAIN rules
        PROVE  LET read == ReadRule(doc[i]) IN
                 /\ read.type = rules[i].type /\ read.triggers = rules[i].triggers
                 /\ \A k \in FilterKeys : read.filter[k] = rules[i].filter[k] \/ Ambiguous(rules[i].filter[k])
    <3>1. Agrees(rules[i], doc[i])
      BY <1>2 DEF IInv, RulesInv
    <3> QED
      BY <3>1 DEF Agrees, ReadRule
  <2> QED
    BY <2>1 DEF MemoryIsDocument
<1>3. IInv => StartsAgain
  BY DEF IInv, StartInv, StartsAgain
<1>4. IInv => EditorInv
  BY <1>1, <1>2, <1>3 DEF EditorInv
<1> QED
  BY <1>4, IInvCorrect, PTL


-----------------------------------------------------------------------------
(* What is saved                                                           *)

SameNumber(f, old, new) == f \in DOMAIN old \cap DOMAIN new /\ old[f] = new[f]
NumbersKept(i, T, old, new) == \A f \in DOMAIN old \cup DOMAIN new : <<i, f>> \in T \/ SameNumber(f, old, new)
ForeignKept(old, new) == \A f \in DOMAIN old \ FieldsOf("relative") : f \in DOMAIN new
WhereKept(i, T, old, new) ==
  \A k \in FilterKeys :
    \/ <<i, k>> \in T
    \/ k \notin DOMAIN old \cup DOMAIN new
    \/ k \in DOMAIN old \cap DOMAIN new /\ old[k] = new[k]
Unknown(names) == Selected(names, ToSet(names) \ TriggerFlags)
WhenKept(i, T, old, new) ==
  /\ Unknown(new.names) = Unknown(old.names)
  /\ \A t \in SymDiff(ReadTriggerFlags(old), ReadTriggerFlags(new)) : <<i, t>> \in T

\* KeptNode() for a set of touched parts: of rule i, new differs from old in
\* nothing else.
Kept(i, T, old, new) ==
  /\ ParseError(old) # <<>> => new = old
  /\ <<i, "type">> \in T \/ (new.type = old.type /\ NumbersKept(i, T, old.fields, new.fields))
  /\ ForeignKept(old.fields, new.fields)
  /\ WhereKept(i, T, old.where, new.where)
  /\ WhenKept(i, T, old.when, new.when)

\* What saving the view model would change in the node of rule i is touched.
EditsTouched(i, T, vm, rule) ==
  /\ \A f \in vm.action.dirty : <<i, f>> \in T
  /\ \A f \in Range(vm.filters) : f.pending => <<i, f.key>> \in T
  /\ \A k \in vm.deleting : <<i, k>> \in T
  /\ \A t \in SymDiff(rule.triggers, vm.triggers) : <<i, t>> \in T

\* The document differs from the file in what is touched, and without a failed
\* save only in types.
KeptInv ==
  /\ \A i \in DOMAIN file : Kept(i, touched, file[i], doc[i])
  /\ \A i \in DOMAIN page : EditsTouched(i, touched, page[i], rules[i])
  /\ "failed" \notin unsaved =>
       \A i \in DOMAIN file :
         /\ doc[i].where = file[i].where /\ doc[i].when = file[i].when
         /\ <<i, "type">> \in touched \/ doc[i] = file[i]


LEMMA KeptNodeIsKept ==
  ASSUME NEW i, NEW old, NEW new
  PROVE  KeptNode(i, old, new) <=> Kept(i, touched, old, new)
BY DEF KeptNode, Kept, NumbersKept, SameNumber, ForeignKept, WhereKept, WhenKept, Unknown

LEMMA NothingChanged ==
  ASSUME NEW i, NEW T, NEW node
  PROVE  Kept(i, T, node, node)
BY DEF Kept, NumbersKept, SameNumber, ForeignKept, WhereKept, WhenKept, SymDiff

LEMMA MoreTouched ==
  ASSUME NEW i, NEW T, NEW U, T \subseteq U, NEW old, NEW new, Kept(i, T, old, new)
  PROVE  Kept(i, U, old, new)
BY DEF Kept, NumbersKept, WhereKept, WhenKept

\* What two changes in a row keep.
LEMMA ChangedTwice ==
  ASSUME NEW i, NEW T, NEW old, NEW mid, NEW new, Kept(i, T, old, mid), Kept(i, T, mid, new)
  PROVE  Kept(i, T, old, new)
<1>1. ParseError(old) # <<>> => new = old
  BY DEF Kept
<1>2. <<i, "type">> \in T \/ (new.type = old.type /\ NumbersKept(i, T, old.fields, new.fields))
  BY DEF Kept, NumbersKept, SameNumber
<1>3. ForeignKept(old.fields, new.fields)
  BY DEF Kept, ForeignKept
<1>4. WhereKept(i, T, old.where, new.where)
  BY DEF Kept, WhereKept
<1>5. WhenKept(i, T, old.when, new.when)
  BY DEF Kept, WhenKept, SymDiff
<1> QED
  BY <1>1, <1>2, <1>3, <1>4, <1>5 DEF Kept


-----------------------------------------------------------------------------
(* Selecting from a sequence that is made of others                        *)

LEMMA SelectedSame ==
  ASSUME NEW s, Len(s) \in Nat, NEW A, NEW B, \A n \in 1..Len(s) : s[n] \in A <=> s[n] \in B
  PROVE  Selected(s, A) = Selected(s, B)
<1>1. PICK f : IsFirst(f, s, A, Len(s)) /\ Selected(s, A) = f[Len(s)]
  BY SelectedIsFirst
<1>2. PICK g : IsFirst(g, s, B, Len(s)) /\ Selected(s, B) = g[Len(s)]
  BY SelectedIsFirst
<1>3. Grows(f, s, A, Len(s)) /\ Grows(g, s, B, Len(s))
  BY <1>1, <1>2, FirstAt
<1> DEFINE P == {n \in 0..Len(s) : f[n] = g[n]}
<1>4. 0 \in P
  BY <1>3 DEF Grows
<1>5. ASSUME NEW k \in 1..Len(s), k - 1 \in P
      PROVE  k \in P
  <2>1. k \in 0..Len(s) /\ f[k - 1] = g[k - 1]
    BY <1>5
  <2>2. CASE s[k] \in A
    <3>1. f[k] = Append(f[k - 1], s[k]) /\ g[k] = Append(g[k - 1], s[k])
      BY <1>3, <2>2 DEF Grows
    <3> QED
      BY <2>1, <3>1
  <2>3. CASE s[k] \notin A
    <3>1. f[k] = f[k - 1] /\ g[k] = g[k - 1]
      BY <1>3, <2>3 DEF Grows
    <3> QED
      BY <2>1, <3>1
  <2> QED
    BY <2>2, <2>3
<1>6. Len(s) \in P
  <2>1. P \in SUBSET (0..Len(s))
    OBVIOUS
  <2> HIDE DEF P
  <2> QED
    BY <1>4, <1>5, <2>1, UpTo
<1> QED
  BY <1>1, <1>2, <1>6

LEMMA SelectedAppend ==
  ASSUME NEW T, NEW s \in Seq(T), NEW e \in T, NEW S
  PROVE  Selected(Append(s, e), S) = IF e \in S THEN Append(Selected(s, S), e) ELSE Selected(s, S)
<1>1. PICK t : t = Append(s, e)
  OBVIOUS
<1>2. /\ Len(s) \in Nat /\ Len(t) = Len(s) + 1 /\ t[Len(s) + 1] = e
      /\ \A n \in 1..Len(s) : t[n] = s[n]
  BY <1>1, AppendedTo
<1>3. PICK f : IsFirst(f, s, S, Len(s)) /\ Selected(s, S) = f[Len(s)]
  BY <1>2, SelectedIsFirst
<1>4. PICK g : IsFirst(g, t, S, Len(t)) /\ Selected(t, S) = g[Len(t)]
  <2>1. Len(t) \in Nat
    BY <1>2
  <2> QED
    BY <2>1, SelectedIsFirst
<1>5. Grows(f, s, S, Len(s)) /\ Grows(g, t, S, Len(s) + 1)
  <2>1. Len(s) + 1 \in Nat
    BY <1>2
  <2> QED
    BY <1>2, <1>3, <1>4, <2>1, FirstAt
<1> DEFINE P == {n \in 0..Len(s) : f[n] = g[n]}
<1>6. 0 \in P
  BY <1>2, <1>5 DEF Grows
<1>7. ASSUME NEW k \in 1..Len(s), k - 1 \in P
      PROVE  k \in P
  <2>1. k \in 1..(Len(s) + 1) /\ t[k] = s[k]
    BY <1>2
  <2>2. k \in 0..Len(s) /\ f[k - 1] = g[k - 1]
    BY <1>7
  <2>3. CASE s[k] \in S
    <3>1. f[k] = Append(f[k - 1], s[k]) /\ g[k] = Append(g[k - 1], s[k])
      BY <1>5, <2>1, <2>3 DEF Grows
    <3> QED
      BY <2>2, <3>1
  <2>4. CASE s[k] \notin S
    <3>1. f[k] = f[k - 1] /\ g[k] = g[k - 1]
      BY <1>5, <2>1, <2>4 DEF Grows
    <3> QED
      BY <2>2, <3>1
  <2> QED
    BY <2>3, <2>4
<1>8. Len(s) \in P
  <2>1. P \in SUBSET (0..Len(s))
    OBVIOUS
  <2> HIDE DEF P
  <2> QED
    BY <1>2, <1>6, <1>7, <2>1, UpTo
<1>9. Len(s) + 1 \in 1..(Len(s) + 1) /\ (Len(s) + 1) - 1 = Len(s)
  BY <1>2
<1>10. g[Len(s) + 1] = IF e \in S THEN Append(g[Len(s)], e) ELSE g[Len(s)]
  BY <1>2, <1>5, <1>9 DEF Grows
<1> QED
  BY <1>1, <1>2, <1>3, <1>4, <1>8, <1>10

LEMMA SelectedOfNothing ==
  ASSUME NEW S
  PROVE  Selected(<<>>, S) = <<>>
<1>1. <<>> \in Seq({}) /\ ToSet(<<>>) = {}
  BY DEF ToSet
<1>2. Selected(<<>>, S) \in Seq({})
  BY <1>1, SelectedElements
<1> QED
  BY <1>2

FirstOf(s, n) == SubSeq(s, 1, n)

\* The first n elements of a sequence, one more at a time.
LEMMA FirstOfGrows ==
  ASSUME NEW T, NEW s \in Seq(T)
  PROVE  /\ FirstOf(s, 0) = <<>> /\ FirstOf(s, Len(s)) = s
         /\ \A n \in 0..Len(s) : FirstOf(s, n) \in Seq(T)
         /\ \A n \in 1..Len(s) : FirstOf(s, n) = Append(FirstOf(s, n - 1), s[n]) /\ s[n] \in T
<1>1. Len(s) \in Nat /\ FirstOf(s, 0) = <<>> /\ FirstOf(s, Len(s)) = s
  BY DEF FirstOf
<1>2. ASSUME NEW n \in 0..Len(s)
      PROVE  FirstOf(s, n) \in Seq(T) /\ Len(FirstOf(s, n)) = n /\ \A k \in 1..n : FirstOf(s, n)[k] = s[k]
  BY DEF FirstOf
<1>3. ASSUME NEW n \in 1..Len(s)
      PROVE  FirstOf(s, n) = Append(FirstOf(s, n - 1), s[n]) /\ s[n] \in T
  <2>1. PICK a, b : a = FirstOf(s, n) /\ b = FirstOf(s, n - 1)
    OBVIOUS
  <2>2. n \in 0..Len(s) /\ n - 1 \in 0..Len(s) /\ s[n] \in T
    OBVIOUS
  <2>3. a \in Seq(T) /\ Len(a) = n /\ \A k \in 1..n : a[k] = s[k]
    BY <1>2, <2>1, <2>2
  <2>4. b \in Seq(T) /\ Len(b) = n - 1 /\ \A k \in 1..(n - 1) : b[k] = s[k]
    BY <1>2, <2>1, <2>2
  <2>5. PICK c : c = Append(b, s[n])
    OBVIOUS
  <2>6. c \in Seq(T) /\ Len(c) = Len(b) + 1 /\ (\A k \in 1..Len(b) : c[k] = b[k]) /\ c[Len(b) + 1] = s[n]
    BY <2>2, <2>4, <2>5, AppendedTo
  <2>7. ASSUME NEW k \in 1..n
        PROVE  c[k] = s[k]
    <3>1. CASE k \in 1..(n - 1)
      <4>1. c[k] = b[k]
        BY <2>4, <2>6, <3>1
      <4> QED
        BY <2>4, <3>1, <4>1
    <3>2. CASE k = n
      BY <2>4, <2>6, <3>2
    <3> QED
      BY <3>1, <3>2
  <2>8. a = c
    <3>1. Len(c) = n
      BY <2>4, <2>6
    <3> QED
      BY <2>3, <2>6, <2>7, <3>1, SeqEqual
  <2> QED
    BY <2>1, <2>2, <2>5, <2>8
<1> QED
  BY <1>1, <1>2, <1>3

\* What is selected of what was selected.
LEMMA SelectedTwice ==
  ASSUME NEW T, NEW s \in Seq(T), NEW A, NEW B
  PROVE  Selected(Selected(s, A), B) = Selected(s, A \cap B)
<1> DEFINE P == {n \in 0..Len(s) : Selected(Selected(FirstOf(s, n), A), B) = Selected(FirstOf(s, n), A \cap B)}
<1>1. Len(s) \in Nat /\ P \in SUBSET (0..Len(s))
  OBVIOUS
<1>2. 0 \in P
  BY <1>1, FirstOfGrows, SelectedOfNothing
<1>3. ASSUME NEW k \in 1..Len(s), k - 1 \in P
      PROVE  k \in P
  <2>1. PICK p, e : p = FirstOf(s, k - 1) /\ e = s[k]
    OBVIOUS
  <2>2. p \in Seq(T) /\ e \in T /\ FirstOf(s, k) = Append(p, e)
    <3>1. k - 1 \in 0..Len(s)
      OBVIOUS
    <3> QED
      BY <2>1, <3>1, FirstOfGrows
  <2>3. Selected(Selected(p, A), B) = Selected(p, A \cap B)
    BY <1>3, <2>1
  <2>4. PICK q : q = Selected(p, A)
    OBVIOUS
  <2>5. q \in Seq(T)
    BY <2>2, <2>4, SelectedElements
  <2>6. Selected(Append(p, e), A) = IF e \in A THEN Append(q, e) ELSE q
    BY <2>2, <2>4, SelectedAppend
  <2>7. Selected(Append(q, e), B) = IF e \in B THEN Append(Selected(q, B), e) ELSE Selected(q, B)
    BY <2>2, <2>5, SelectedAppend
  <2>8. Selected(Append(p, e), A \cap B) =
          IF e \in A \cap B THEN Append(Selected(p, A \cap B), e) ELSE Selected(p, A \cap B)
    BY <2>2, SelectedAppend
  <2>9. Selected(Selected(Append(p, e), A), B) = Selected(Append(p, e), A \cap B)
    BY <2>3, <2>4, <2>6, <2>7, <2>8
  <2>10. k \in 0..Len(s)
    OBVIOUS
  <2> QED
    BY <2>2, <2>9, <2>10
<1>4. Len(s) \in P
  <2> HIDE DEF P
  <2> QED
    BY <1>1, <1>2, <1>3, UpTo
<1> QED
  BY <1>4, FirstOfGrows

\* Nothing is selected of what is behind, if none of it is in the set.
LEMMA SelectedBefore ==
  ASSUME NEW T, NEW s \in Seq(T), NEW t \in Seq(T), NEW S, \A n \in 1..Len(t) : t[n] \notin S
  PROVE  Selected(s \o t, S) = Selected(s, S)
<1> DEFINE P == {n \in 0..Len(t) : Selected(s \o FirstOf(t, n), S) = Selected(s, S)}
<1>1. Len(t) \in Nat /\ P \in SUBSET (0..Len(t))
  OBVIOUS
<1>2. 0 \in P
  <2>1. PICK p : p = FirstOf(t, 0)
    OBVIOUS
  <2>2. p = <<>>
    BY <2>1, FirstOfGrows
  <2>3. s \o p = s
    BY <2>2
  <2>4. 0 \in 0..Len(t)
    BY <1>1
  <2> QED
    BY <2>1, <2>3, <2>4
<1>3. ASSUME NEW k \in 1..Len(t), k - 1 \in P
      PROVE  k \in P
  <2>1. PICK p, e : p = FirstOf(t, k - 1) /\ e = t[k]
    OBVIOUS
  <2>2. p \in Seq(T) /\ e \in T /\ FirstOf(t, k) = Append(p, e) /\ e \notin S
    <3>1. k - 1 \in 0..Len(t)
      OBVIOUS
    <3> QED
      BY <2>1, <3>1, FirstOfGrows
  <2>3. s \o Append(p, e) = Append(s \o p, e) /\ s \o p \in Seq(T)
    BY <2>2
  <2>4. Selected(s \o Append(p, e), S) = Selected(s \o p, S)
    BY <2>2, <2>3, SelectedAppend
  <2>5. Selected(s \o p, S) = Selected(s, S)
    BY <1>3, <2>1
  <2>6. k \in 0..Len(t)
    OBVIOUS
  <2> QED
    BY <2>2, <2>4, <2>5, <2>6
<1>4. Len(t) \in P
  <2> HIDE DEF P
  <2> QED
    BY <1>1, <1>2, <1>3, UpTo
<1> QED
  BY <1>4, FirstOfGrows


-----------------------------------------------------------------------------
(* What a save keeps                                                       *)

\* The names that are no triggers stay, in their order.
LEMMA OtherNamesStay ==
  ASSUME NEW when \in WhenValues, NEW value \in SUBSET TriggerFlags,
         NEW new, new = WriteTriggerFlags(when, value)
  PROVE  Unknown(new.names) = Unknown(when.names)
<1>1. PICK names, kept, added, all :
        /\ names = when.names /\ kept = KeptNames(names, value)
        /\ added = Selected(kAllTriggerEntries, value \ ToSet(kept)) /\ all = kept \o added
  OBVIOUS
<1>2. new.names = all
  BY <1>1 DEF WriteTriggerFlags
<1>3. names \in Seq(TriggerNames)
  BY <1>1 DEF WhenValues
<1>4. PICK A : A = ToSet(names) \ (TriggerFlags \ value)
  OBVIOUS
<1>5. kept = Selected(names, A) /\ kept \in Seq(TriggerNames) /\ ToSet(kept) = ToSet(names) \cap A
  BY <1>1, <1>3, <1>4, SelectedElements DEF KeptNames
<1>6. added \in Seq(TriggerFlags)
  <2>1. kAllTriggerEntries \in Seq(TriggerFlags)
    BY DEF kAllTriggerEntries, TriggerFlags
  <2> QED
    BY <1>1, <2>1, SelectedElements
<1>7. added \in Seq(TriggerNames)
  BY <1>6, EditorAssumption
<1>a. all = kept \o added
  BY <1>1
<1>b. kept \in Seq(TriggerNames)
  BY <1>5
<1>8. PICK S : S = ToSet(all) \ TriggerFlags
  OBVIOUS
<1>9. Selected(all, S) = Selected(kept, S)
  <2>1. \A n \in 1..Len(added) : added[n] \notin S
    <3>1. \A n \in 1..Len(added) : added[n] \in TriggerFlags
      BY <1>6
    <3> QED
      BY <1>8, <3>1
  <2> QED
    BY <1>7, <1>a, <1>b, <2>1, SelectedBefore
<1>10. Selected(kept, S) = Selected(names, A \cap S)
  BY <1>3, <1>5, SelectedTwice
<1>11. Selected(names, A \cap S) = Selected(names, ToSet(names) \ TriggerFlags)
  <2>1. ToSet(all) = ToSet(kept) \cup ToSet(added)
    BY <1>7, <1>a, <1>b, ToSetConcat
  <2>2. ASSUME NEW n \in 1..Len(names)
        PROVE  names[n] \in A \cap S <=> names[n] \in ToSet(names) \ TriggerFlags
    <3>1. names[n] \in ToSet(names)
      BY <1>3 DEF ToSet
    <3> QED
      BY <1>4, <1>5, <1>8, <2>1, <3>1
  <2>3. Len(names) \in Nat
    BY <1>3
  <2> QED
    BY <2>2, <2>3, SelectedSame
<1> QED
  BY <1>1, <1>2, <1>8, <1>9, <1>10, <1>11 DEF Unknown

LEMMA WhenKeptSaved ==
  ASSUME NEW i, NEW T, NEW when \in WhenValues, when.form # "map",
         NEW vm, vm.triggers \in SUBSET TriggerFlags,
         NEW rule, rule.triggers = ReadTriggerFlags(when), vm.triggersPending \/ vm.triggers = rule.triggers,
         \A t \in SymDiff(rule.triggers, vm.triggers) : <<i, t>> \in T,
         NEW new, new = AppliedWhen(vm, rule, when)
  PROVE  WhenKept(i, T, when, new)
<1>1. ReadTriggerFlags(new) = vm.triggers
  BY WhenSaved
<1>2. Unknown(new.names) = Unknown(when.names)
  <2>1. CASE vm.triggersPending /\ vm.triggers # rule.triggers
    <3>1. new = WriteTriggerFlags(when, vm.triggers)
      BY <2>1 DEF AppliedWhen
    <3> QED
      BY <3>1, OtherNamesStay
  <2>2. CASE ~(vm.triggersPending /\ vm.triggers # rule.triggers)
    BY <2>2 DEF AppliedWhen
  <2> QED
    BY <2>1, <2>2
<1> QED
  BY <1>1, <1>2 DEF WhenKept

LEMMA WhereKeptSaved ==
  ASSUME NEW i, NEW T, NEW where, NEW values, \A k \in DOMAIN values : <<i, k>> \in T,
         NEW deleting, \A k \in deleting : <<i, k>> \in T,
         NEW new, new = WriteFilters(Restrict(where, DOMAIN where \ deleting), values)
  PROVE  WhereKept(i, T, where, new)
<1>1. PICK cleared, kept : /\ cleared = {k \in DOMAIN values : values[k] = NoFilter}
                           /\ kept = Restrict(where, DOMAIN where \ deleting)
  OBVIOUS
<1>2. DOMAIN kept = DOMAIN where \ deleting /\ \A k \in DOMAIN kept : kept[k] = where[k]
  BY <1>1 DEF Restrict
<1>3. new = [k \in (DOMAIN kept \cup DOMAIN values) \ cleared |->
               IF k \in DOMAIN values THEN WritePattern(values[k]) ELSE kept[k]]
  BY <1>1 DEF WriteFilters
<1>4. /\ DOMAIN new = (DOMAIN kept \cup DOMAIN values) \ cleared
      /\ \A k \in DOMAIN new : k \notin DOMAIN values => new[k] = where[k]
  BY <1>2, <1>3
<1>5. ASSUME NEW k \in FilterKeys, <<i, k>> \notin T
      PROVE  \/ k \notin DOMAIN where \cup DOMAIN new
             \/ k \in DOMAIN where \cap DOMAIN new /\ where[k] = new[k]
  <2>1. k \notin DOMAIN values /\ k \notin deleting /\ k \notin cleared
    BY <1>1, <1>5
  <2>2. k \in DOMAIN new <=> k \in DOMAIN where
    BY <1>2, <1>4, <2>1
  <2> QED
    BY <1>4, <2>1, <2>2
<1> QED
  BY <1>5 DEF WhereKept

\* The setters write the fields in dirty, and take out none but the monitor's id.
LEMMA FieldsKeptSaved ==
  ASSUME NEW i, NEW T, NEW a, \A f \in a.dirty : <<i, f>> \in T,
         NEW fields, NEW new, new = AppliedFields(a, fields)
  PROVE  NumbersKept(i, T, fields, new) /\ ForeignKept(fields, new)
<1>1. ASSUME NEW written, written \subseteq a.dirty, NEW unset, unset \subseteq a.dirty \cap {"id"},
             new = NumbersPut(fields, a.shown, written, unset)
      PROVE  NumbersKept(i, T, fields, new) /\ ForeignKept(fields, new)
  <2>1. /\ DOMAIN new = (DOMAIN fields \cup written) \ unset
        /\ \A f \in DOMAIN new : f \notin written => new[f] = fields[f]
    BY <1>1 DEF NumbersPut
  <2>2. "id" \in FieldsOf("relative")
    BY DEF FieldsOf
  <2> QED
    BY <1>1, <2>1, <2>2 DEF NumbersKept, SameNumber, ForeignKept
<1>2. CASE a.type = "relative"
  <2>1. PICK unset : unset = {f \in a.dirty \cap {"id"} : a.shown[f] = 0}
    OBVIOUS
  <2>2. PICK written : written = {f \in a.dirty \ unset : a.bounds[f] # a.shown[f]}
    OBVIOUS
  <2>3. new = NumbersPut(fields, a.shown, written, unset)
    BY <1>2, <2>1, <2>2 DEF AppliedFields, AppliedRelative, WriteRelative, WriteAbsolute, Restrict, NumbersPut
  <2> QED
    BY <1>1, <2>1, <2>2, <2>3
<1>3. CASE a.type # "relative"
  <2>1. PICK written : written = {f \in a.dirty : a.bounds[f] # a.shown[f]}
    OBVIOUS
  <2>2. new = NumbersPut(fields, a.shown, written, {})
    BY <1>3, <2>1 DEF AppliedFields, AppliedAbsolute, WriteAbsolute, NumbersPut
  <2> QED
    BY <1>1, <2>1, <2>2
<1> QED
  BY <1>2, <1>3

\* A save changes of a rule's node what its view model has touched.
LEMMA NodeKeptSaved ==
  ASSUME NEW i, NEW T, NEW vm, NEW rule, NEW node, IsRuleView(vm), Shows(vm, rule, node), Agrees(rule, node),
         IsNode(node), ParseError(node) = <<>>, EditsTouched(i, T, vm, rule),
         NEW new, new = AppliedNode(vm, rule, node)
  PROVE  Kept(i, T, node, new)
<1>1. /\ new.type = node.type /\ new.fields = AppliedFields(vm.action, node.fields)
      /\ new.where = AppliedWhere(vm, node.where) /\ new.when = AppliedWhen(vm, rule, node.when)
  BY DEF AppliedNode
<1>2. Parts(vm)
  BY RuleViewParts
<1>3. NumbersKept(i, T, node.fields, new.fields) /\ ForeignKept(node.fields, new.fields)
  <2>1. PICK a : a = vm.action
    OBVIOUS
  <2>2. \A f \in a.dirty : <<i, f>> \in T
    BY <2>1 DEF EditsTouched
  <2> QED
    BY <1>1, <2>1, <2>2, FieldsKeptSaved
<1>4. WhereKept(i, T, node.where, new.where)
  <2>1. PICK values, deleting : values = PendingFilters(vm) /\ deleting = vm.deleting
    OBVIOUS
  <2>2. \A k \in DOMAIN values : \E j \in DOMAIN vm.filters : vm.filters[j].key = k /\ vm.filters[j].pending
    <3>1. vm.filters \in Seq(FilterViews)
      BY <1>2 DEF Parts
    <3>2. \A j, k \in DOMAIN vm.filters : vm.filters[j].key = vm.filters[k].key => j = k
      BY DEF IsRuleView
    <3> QED
      BY <2>1, <3>1, <3>2, PendingValues
  <2>3. \A k \in DOMAIN values : <<i, k>> \in T
    BY <2>2 DEF EditsTouched, Range
  <2>4. \A k \in deleting : <<i, k>> \in T
    BY <2>1 DEF EditsTouched
  <2>5. new.where = WriteFilters(Restrict(node.where, DOMAIN node.where \ deleting), values)
    BY <1>1, <2>1 DEF AppliedWhere
  <2> QED
    BY <2>3, <2>4, <2>5, WhereKeptSaved
<1>5. WhenKept(i, T, node.when, new.when)
  <2>1. PICK when : when = node.when
    OBVIOUS
  <2>2. when \in WhenValues /\ when.form # "map"
    BY <2>1, NodeParts, NoMap DEF WhenValues
  <2>3. /\ vm.triggers \in SUBSET TriggerFlags /\ rule.triggers = ReadTriggerFlags(when)
        /\ vm.triggersPending \/ vm.triggers = rule.triggers
    BY <1>2, <2>1 DEF Parts, Agrees, Shows
  <2>4. \A t \in SymDiff(rule.triggers, vm.triggers) : <<i, t>> \in T
    BY DEF EditsTouched
  <2> QED
    BY <1>1, <2>1, <2>2, <2>3, <2>4, WhenKeptSaved
<1> QED
  BY <1>1, <1>3, <1>4, <1>5 DEF Kept


-----------------------------------------------------------------------------
(* What an edit touches                                                    *)

\* An edit of what changes nothing else of a view model.
Touches(what, old, new) ==
  /\ new.action.dirty \subseteq old.action.dirty \cup {what}
  /\ \A f \in Range(new.filters) : f.pending => f.key = what \/ f \in Range(old.filters)
  /\ new.deleting \subseteq old.deleting \cup {what}
  /\ SymDiff(old.triggers, new.triggers) \subseteq {what}

LEMMA EditTouched ==
  ASSUME NEW i, NEW T, NEW what, NEW old, NEW new, Touches(what, old, new),
         NEW rule, EditsTouched(i, T, old, rule)
  PROVE  EditsTouched(i, T \cup {<<i, what>>}, new, rule)
<1>1. \A t \in SymDiff(rule.triggers, new.triggers) : t \in SymDiff(rule.triggers, old.triggers) \/ t = what
  BY DEF Touches, SymDiff
<1> QED
  BY <1>1 DEF Touches, EditsTouched

LEMMA NumberTouched ==
  ASSUME NEW vm, IsView(vm), NEW f, NEW n, NEW new, new = [vm EXCEPT !.action = NumberEdited(@, f, n)]
  PROVE  Touches(f, vm, new)
<1>1. PICK a : a = NumberEdited(vm.action, f, n)
  OBVIOUS
<1>2. /\ new.action = a /\ new.filters = vm.filters /\ new.deleting = vm.deleting /\ new.triggers = vm.triggers
  BY <1>1, ActionPut
<1>3. a.dirty = vm.action.dirty \cup {f}
  BY <1>1 DEF NumberEdited
<1> QED
  BY <1>2, <1>3 DEF Touches, SymDiff

LEMMA FilterTouched ==
  ASSUME NEW vm, IsView(vm), vm.filters \in Seq(FilterViews), NEW j \in DOMAIN vm.filters, NEW v \in FilterValues
  PROVE  Touches(vm.filters[j].key, vm, [vm EXCEPT !.filters[j] = NewFilter(vm.filters[j].key, v, TRUE)])
<1>1. PICK x, f : x = NewFilter(vm.filters[j].key, v, TRUE) /\ f = [vm.filters EXCEPT ![j] = x]
  OBVIOUS
<1>2. x.key = vm.filters[j].key
  BY <1>1 DEF NewFilter
<1>3. PICK new : new = [vm EXCEPT !.filters = f]
  OBVIOUS
<1>4. /\ new.action = vm.action /\ new.filters = f /\ new.deleting = vm.deleting /\ new.triggers = vm.triggers
  BY <1>3, FiltersPut
<1>5. \A g \in Range(f) : g = x \/ g \in Range(vm.filters)
  BY <1>1 DEF Range
<1>6. Touches(vm.filters[j].key, vm, new)
  BY <1>2, <1>4, <1>5 DEF Touches, SymDiff
<1>7. new = [vm EXCEPT !.filters[j] = NewFilter(vm.filters[j].key, v, TRUE)]
  BY <1>1, <1>3
<1> QED
  BY <1>6, <1>7

LEMMA AppendedRange ==
  ASSUME NEW T, NEW s \in Seq(T), NEW x \in T, NEW new, new = Append(s, x)
  PROVE  \A g \in Range(new) : g = x \/ g \in Range(s)
<1>1. /\ DOMAIN new = 1..(Len(s) + 1) /\ \A a \in 1..Len(s) : new[a] = s[a]
      /\ new[Len(s) + 1] = x
  BY AppendedTo
<1>2. DOMAIN s = 1..Len(s) /\ Len(s) \in Nat
  OBVIOUS
<1>3. \A a \in 1..(Len(s) + 1) : a \in 1..Len(s) \/ a = Len(s) + 1
  BY <1>2
<1> QED
  BY <1>1, <1>2, <1>3 DEF Range

LEMMA RemovedRange ==
  ASSUME NEW T, NEW s \in Seq(T), NEW j \in 1..Len(s), NEW new, new = RemoveAt(s, j)
  PROVE  \A g \in Range(new) : g \in Range(s)
<1>1. new \in Seq(T) /\ Removed(s, j, new)
  BY RemovedAt
<1>2. Len(s) \in Nat /\ DOMAIN s = 1..Len(s) /\ DOMAIN new = 1..Len(new) /\ Len(new) = Len(s) - 1
  BY <1>1 DEF Removed
<1>3. ASSUME NEW a \in 1..(Len(s) - 1)
      PROVE  new[a] \in Range(s)
  <2>1. CASE a \in 1..(j - 1)
    <3>1. new[a] = s[a] /\ a \in DOMAIN s
      BY <1>1, <1>2, <2>1 DEF Removed
    <3> QED
      BY <3>1 DEF Range
  <2>2. CASE a \in j..(Len(s) - 1)
    <3>1. new[a] = s[a + 1] /\ a + 1 \in DOMAIN s
      BY <1>1, <1>2, <2>2 DEF Removed
    <3> QED
      BY <3>1 DEF Range
  <2> QED
    BY <1>2, <2>1, <2>2
<1> QED
  BY <1>2, <1>3 DEF Range

\* Edits of the lists of a view model: a condition taken away, or one added.
LEMMA ListsTouched ==
  ASSUME NEW vm, IsView(vm), NEW x, NEW y, NEW z, NEW key, z \subseteq vm.deleting \cup {key},
         \A g \in Range(x) : g \in Range(vm.filters)
  PROVE  Touches(key, vm, [vm EXCEPT !.filters = x, !.deleting = z, !.unused = y])
<1>1. PICK first : first = [vm EXCEPT !.filters = x]
  OBVIOUS
<1>2. /\ IsView(first) /\ first.action = vm.action /\ first.filters = x /\ first.unused = vm.unused
      /\ first.deleting = vm.deleting /\ first.triggers = vm.triggers
      /\ first.triggersPending = vm.triggersPending
  BY <1>1, FiltersPut
<1>3. PICK mid : mid = [first EXCEPT !.deleting = z]
  OBVIOUS
<1>4. /\ IsView(mid) /\ mid.action = first.action /\ mid.filters = first.filters /\ mid.unused = first.unused
      /\ mid.deleting = z /\ mid.triggers = first.triggers /\ mid.triggersPending = first.triggersPending
  BY <1>2, <1>3, DeletingPut
<1>5. PICK new : new = [mid EXCEPT !.unused = y]
  OBVIOUS
<1>6. /\ IsView(new) /\ new.action = mid.action /\ new.filters = mid.filters /\ new.unused = y
      /\ new.deleting = mid.deleting /\ new.triggers = mid.triggers /\ new.triggersPending = mid.triggersPending
  BY <1>4, <1>5, UnusedPut
<1>7. new = [vm EXCEPT !.filters = x, !.deleting = z, !.unused = y]
  BY <1>1, <1>3, <1>5
<1>8. new.action = vm.action /\ new.filters = x /\ new.deleting = z /\ new.triggers = vm.triggers
  BY <1>2, <1>4, <1>6
<1>9. Touches(key, vm, new)
  BY <1>8 DEF Touches, SymDiff
<1> QED
  BY <1>7, <1>9

LEMMA KeyTouched ==
  ASSUME NEW vm, IsView(vm), NEW x, NEW y, NEW key,
         \A g \in Range(x) : g.key = key \/ g \in Range(vm.filters)
  PROVE  Touches(key, vm, [vm EXCEPT !.unused = y, !.filters = x])
<1>1. PICK mid : mid = [vm EXCEPT !.unused = y]
  OBVIOUS
<1>2. /\ IsView(mid) /\ mid.action = vm.action /\ mid.filters = vm.filters /\ mid.unused = y
      /\ mid.deleting = vm.deleting /\ mid.triggers = vm.triggers /\ mid.triggersPending = vm.triggersPending
  BY <1>1, UnusedPut
<1>3. PICK new : new = [mid EXCEPT !.filters = x]
  OBVIOUS
<1>4. /\ IsView(new) /\ new.action = mid.action /\ new.filters = x /\ new.unused = mid.unused
      /\ new.deleting = mid.deleting /\ new.triggers = mid.triggers /\ new.triggersPending = mid.triggersPending
  BY <1>2, <1>3, FiltersPut
<1>5. new = [vm EXCEPT !.unused = y, !.filters = x]
  BY <1>1, <1>3
<1>6. new.action = vm.action /\ new.filters = x /\ new.deleting = vm.deleting /\ new.triggers = vm.triggers
  BY <1>2, <1>4
<1>7. Touches(key, vm, new)
  BY <1>6 DEF Touches, SymDiff
<1> QED
  BY <1>5, <1>7

LEMMA AddTouched ==
  ASSUME NEW vm, IsView(vm), vm.filters \in Seq(FilterViews), NEW key \in FilterKeys, NEW j
  PROVE  Touches(key, vm, [vm EXCEPT !.unused = RemoveAt(@, j),
                                     !.filters = Append(@, NewFilter(key, NoFilter, TRUE))])
<1>1. PICK x, f : x = NewFilter(key, NoFilter, TRUE) /\ f = Append(vm.filters, x)
  OBVIOUS
<1>2. x.key = key /\ x \in FilterViews
  BY <1>1 DEF NewFilter, NoFilter, FilterViews, FilterValues, StringMatchTypes
<1>3. \A g \in Range(f) : g = x \/ g \in Range(vm.filters)
  BY <1>1, <1>2, AppendedRange
<1>4. \A g \in Range(f) : g.key = key \/ g \in Range(vm.filters)
  BY <1>2, <1>3
<1>5. Touches(key, vm, [vm EXCEPT !.unused = RemoveAt(vm.unused, j), !.filters = f])
  BY <1>4, KeyTouched, Zenon
<1> QED
  BY <1>1, <1>5, Zenon

LEMMA DeleteTouched ==
  ASSUME NEW vm, IsView(vm), vm.filters \in Seq(FilterViews), NEW j \in DOMAIN vm.filters, NEW key
  PROVE  Touches(key, vm, [vm EXCEPT !.filters = RemoveAt(@, j), !.deleting = @ \cup {key},
                                     !.unused = InsertUnused(@, key)])
<1>1. PICK f, d : f = RemoveAt(vm.filters, j) /\ d = vm.deleting \cup {key}
  OBVIOUS
<1>2. \A g \in Range(f) : g \in Range(vm.filters)
  <2>1. j \in 1..Len(vm.filters)
    OBVIOUS
  <2> QED
    BY <1>1, <2>1, RemovedRange
<1>3. d \subseteq vm.deleting \cup {key}
  BY <1>1
<1>4. Touches(key, vm, [vm EXCEPT !.filters = f, !.deleting = d, !.unused = InsertUnused(vm.unused, key)])
  BY <1>2, <1>3, ListsTouched, Zenon
<1> QED
  BY <1>1, <1>4, Zenon

LEMMA TriggerTouched ==
  ASSUME NEW vm, IsView(vm), NEW t,
         NEW new, new = [vm EXCEPT !.triggers = SymDiff(@, {t}), !.triggersPending = TRUE]
  PROVE  Touches(t, vm, new)
<1>1. PICK x : x = SymDiff(vm.triggers, {t})
  OBVIOUS
<1>2. PICK mid : mid = [vm EXCEPT !.triggers = x]
  OBVIOUS
<1>3. /\ IsView(mid) /\ mid.action = vm.action /\ mid.filters = vm.filters
      /\ mid.deleting = vm.deleting /\ mid.triggers = x
  BY <1>2, TriggersPut
<1>4. new = [mid EXCEPT !.triggersPending = TRUE]
  BY <1>1, <1>2
<1>5. /\ new.action = vm.action /\ new.filters = vm.filters /\ new.deleting = vm.deleting /\ new.triggers = x
  BY <1>3, <1>4, TriggersPendingPut
<1>6. SymDiff(vm.triggers, x) \subseteq {t}
  BY <1>1 DEF SymDiff
<1> QED
  BY <1>5, <1>6 DEF Touches


LEMMA PageTouched ==
  ASSUME IInv, NEW i \in DOMAIN page,
         \/ ChangeAbsolute(i) \/ ChangeRelative(i) \/ ChangeFilter(i) \/ AddFilter(i) \/ DeleteFilter(i)
         \/ ChangeTriggers(i)
  PROVE  \E what, vm : Touches(what, page[i], vm) /\ Edit(i, what, vm)
<1>1. IsView(page[i]) /\ page[i].filters \in Seq(FilterViews) /\ page[i].unused \in Seq(FilterKeys)
  <2>1. IsRuleView(page[i])
    BY DEF IInv, PageInv
  <2> QED
    BY <2>1, RuleViewParts DEF Parts
<1>2. ASSUME NEW f, NEW n, ChangeNumber(i, f, n)
      PROVE  \E what, vm : Touches(what, page[i], vm) /\ Edit(i, what, vm)
  <2>1. PICK vm : vm = [page[i] EXCEPT !.action = NumberEdited(@, f, n)]
    OBVIOUS
  <2>2. Touches(f, page[i], vm)
    BY <1>1, <2>1, NumberTouched
  <2>3. Edit(i, f, vm)
    BY <1>2, <2>1 DEF ChangeNumber
  <2> QED
    BY <2>2, <2>3
<1>3. CASE ChangeAbsolute(i) \/ ChangeRelative(i)
  BY <1>2, <1>3 DEF ChangeAbsolute, ChangeRelative
<1>4. CASE ChangeFilter(i)
  <2>1. PICK j \in DOMAIN page[i].filters :
          LET filter == page[i].filters[j] IN
            \E v \in {[filter.value EXCEPT !.match = m] : m \in StringMatchTypes}
                       \cup {[filter.value EXCEPT !.text = s] : s \in Texts} :
              Edit(i, filter.key, [page[i] EXCEPT !.filters[j] = NewFilter(filter.key, v, TRUE)])
    BY <1>4 DEF ChangeFilter
  <2>2. PICK v \in {[page[i].filters[j].value EXCEPT !.match = m] : m \in StringMatchTypes}
                     \cup {[page[i].filters[j].value EXCEPT !.text = s] : s \in Texts} :
          Edit(i, page[i].filters[j].key,
               [page[i] EXCEPT !.filters[j] = NewFilter(page[i].filters[j].key, v, TRUE)])
    BY <2>1
  <2>3. v \in FilterValues
    <3>1. page[i].filters[j] \in FilterViews
      BY <1>1
    <3>2. page[i].filters[j].value \in FilterValues
      BY <3>1 DEF FilterViews
    <3> QED
      BY <3>2, EditorAssumption DEF FilterValues
  <2>4. Touches(page[i].filters[j].key, page[i],
                [page[i] EXCEPT !.filters[j] = NewFilter(page[i].filters[j].key, v, TRUE)])
    BY <1>1, <2>3, FilterTouched
  <2> QED
    BY <2>2, <2>4
<1>5. CASE AddFilter(i)
  <2>1. PICK j \in DOMAIN page[i].unused :
          Edit(i, page[i].unused[j],
               [page[i] EXCEPT !.unused = RemoveAt(@, j),
                               !.filters = Append(@, NewFilter(page[i].unused[j], NoFilter, TRUE))])
    BY <1>5 DEF AddFilter
  <2>2. page[i].unused[j] \in FilterKeys
    BY <1>1
  <2>3. Touches(page[i].unused[j], page[i],
                [page[i] EXCEPT !.unused = RemoveAt(@, j),
                                !.filters = Append(@, NewFilter(page[i].unused[j], NoFilter, TRUE))])
    BY <1>1, <2>2, AddTouched
  <2> QED
    BY <2>1, <2>3
<1>6. CASE DeleteFilter(i)
  <2>1. PICK j \in DOMAIN page[i].filters :
          Edit(i, page[i].filters[j].key,
               [page[i] EXCEPT !.filters = RemoveAt(@, j), !.deleting = @ \cup {page[i].filters[j].key},
                               !.unused = InsertUnused(@, page[i].filters[j].key)])
    BY <1>6 DEF DeleteFilter
  <2>2. Touches(page[i].filters[j].key, page[i],
                [page[i] EXCEPT !.filters = RemoveAt(@, j), !.deleting = @ \cup {page[i].filters[j].key},
                                !.unused = InsertUnused(@, page[i].filters[j].key)])
    BY <1>1, DeleteTouched
  <2> QED
    BY <2>1, <2>2
<1>7. CASE ChangeTriggers(i)
  <2>1. PICK t \in TriggerFlags :
          Edit(i, t, [page[i] EXCEPT !.triggers = SymDiff(@, {t}), !.triggersPending = TRUE])
    BY <1>7 DEF ChangeTriggers
  <2>2. Touches(t, page[i], [page[i] EXCEPT !.triggers = SymDiff(@, {t}), !.triggersPending = TRUE])
    BY <1>1, TriggerTouched
  <2> QED
    BY <2>1, <2>2
<1> QED
  BY <1>3, <1>4, <1>5, <1>6, <1>7

LEMMA EditKeepsDocument ==
  ASSUME KeptInv, NEW i \in DOMAIN page, NEW what, NEW vm, Touches(what, page[i], vm), Edit(i, what, vm)
  PROVE  KeptInv'
<1>1. /\ page' = [page EXCEPT ![i] = vm] /\ touched' = touched \cup {<<i, what>>}
      /\ UNCHANGED <<file, doc, rules, unsaved>>
  BY DEF Edit
<1>2. DOMAIN page' = DOMAIN page /\ \A k \in DOMAIN page : page'[k] = IF k = i THEN vm ELSE page[k]
  BY <1>1
<1>3. \A k \in DOMAIN file' : Kept(k, touched', file'[k], doc'[k])
  BY <1>1, MoreTouched DEF KeptInv
<1>4. \A k \in DOMAIN page : EditsTouched(k, touched', page'[k], rules[k])
  <2>1. EditsTouched(i, touched', vm, rules[i])
    BY <1>1, EditTouched DEF KeptInv
  <2>2. \A k \in DOMAIN page : EditsTouched(k, touched', page[k], rules[k])
    BY <1>1 DEF KeptInv, EditsTouched
  <2> QED
    BY <1>2, <2>1, <2>2
<1>5. "failed" \notin unsaved' =>
        \A k \in DOMAIN file' :
          /\ doc'[k].where = file'[k].where /\ doc'[k].when = file'[k].when
          /\ <<k, "type">> \in touched' \/ doc'[k] = file'[k]
  BY <1>1 DEF KeptInv
<1> QED
  BY <1>1, <1>2, <1>3, <1>4, <1>5 DEF KeptInv

\* A new type takes the numbers of the old one out of the node, nothing else.
LEMMA TypeKept ==
  ASSUME NEW i, NEW T, <<i, "type">> \in T, NEW node, ParseError(node) = <<>>,
         NEW new, new.fields = RemoveFields(node.type, node.fields), node.type \in ActionTypes,
         new.where = node.where, new.when = node.when
  PROVE  Kept(i, T, node, new)
<1>1. ForeignKept(node.fields, new.fields)
  <2>1. FieldsOf(node.type) \subseteq FieldsOf("relative")
    BY DEF FieldsOf, ActionTypes
  <2>2. DOMAIN new.fields = DOMAIN node.fields \ FieldsOf(node.type)
    BY DEF RemoveFields, Restrict
  <2> QED
    BY <2>1, <2>2 DEF ForeignKept
<1>2. WhereKept(i, T, node.where, new.where) /\ WhenKept(i, T, node.when, new.when)
  BY DEF WhereKept, WhenKept, SymDiff
<1> QED
  BY <1>1, <1>2 DEF Kept

LEMMA TypeSetFields ==
  ASSUME NEW node, IsNode(node), NEW type, NEW new, new = SetType(node, type)
  PROVE  new.fields = RemoveFields(node.type, node.fields)
<1>1. PICK shape, old, fields, where, when :
        /\ shape = node.shape /\ old = node.type /\ fields = node.fields /\ where = node.where
        /\ when = node.when
  OBVIOUS
<1>2. node = [shape |-> shape, type |-> old, fields |-> fields, where |-> where, when |-> when]
  BY <1>1, NodeParts DEF IsNodeRecord
<1>3. new = [node EXCEPT !.type = type, !.fields = RemoveFields(old, fields)]
  BY <1>1 DEF SetType
<1> QED
  BY <1>1, <1>2, <1>3

LEMMA ChangeTypeKeepsDocument ==
  ASSUME IInv, KeptInv, life = "run", NEW i \in DOMAIN page, ChangeType(i)
  PROVE  KeptInv'
<1>1. PICK type, node :
        /\ type \in ActionTypes
        /\ node = SetType(doc[i], type)
        /\ doc' = [doc EXCEPT ![i] = node]
        /\ rules' = [rules EXCEPT ![i].type = type]
        /\ touched' = touched \cup {<<i, "type">>}
        /\ IF ReadsAction(type, node.fields)
           THEN page' = [page EXCEPT ![i].action = NewAction(node, TRUE)]
           ELSE page' = page
        /\ UNCHANGED <<file, unsaved>>
  BY DEF ChangeType
<1>2. /\ DOMAIN page = DOMAIN rules /\ DOMAIN doc = DOMAIN file /\ i \in DOMAIN doc /\ IsNode(doc[i])
      /\ ParseError(doc[i]) = <<>> /\ IsRuleView(page[i]) /\ Agrees(rules[i], doc[i])
  <2>1. page # NoPage
    BY DEF NoPage
  <2>2. DOMAIN rules = Readable(doc) /\ DOMAIN page = DOMAIN rules
    BY <2>1 DEF IInv, RulesInv, PageInv
  <2> QED
    BY <2>2 DEF IInv, DocInv, RulesInv, PageInv, IsDocument, Readable
<1>3. node.where = doc[i].where /\ node.when = doc[i].when /\ node.fields = RemoveFields(doc[i].type, doc[i].fields)
  BY <1>1, <1>2, TypeSet, TypeSetFields
<1>4. \A k \in DOMAIN doc : doc'[k] = IF k = i THEN node ELSE doc[k]
  BY <1>1
<1>5. Kept(i, touched', doc[i], node)
  <2>1. <<i, "type">> \in touched' /\ doc[i].type \in ActionTypes
    BY <1>1, <1>2, NodeParts
  <2> QED
    BY <1>2, <1>3, <2>1, TypeKept
<1>6. \A k \in DOMAIN file : Kept(k, touched', file[k], doc'[k])
  <2>1. touched \subseteq touched'
    BY <1>1
  <2>2. \A k \in DOMAIN file : Kept(k, touched', file[k], doc[k])
    BY <2>1, MoreTouched DEF KeptInv
  <2>3. Kept(i, touched', file[i], node)
    BY <1>2, <1>5, <2>2, ChangedTwice
  <2> QED
    BY <1>2, <1>4, <2>2, <2>3
<1>7. \A k \in DOMAIN rules : rules'[k].triggers = rules[k].triggers
  <2>1. \A k \in DOMAIN rules : k # i => rules'[k] = rules[k]
    BY <1>1
  <2>2. PICK old, new : old = rules[i] /\ new = [old EXCEPT !.type = type]
    OBVIOUS
  <2>3. new.triggers = old.triggers
    BY <1>1, <1>2, <2>2, RuleTypeSet DEF Agrees
  <2>4. rules'[i] = new
    BY <1>1, <1>2, <2>2
  <2> QED
    BY <2>1, <2>2, <2>3, <2>4
<1>8. DOMAIN page' = DOMAIN page /\ \A k \in DOMAIN page : EditsTouched(k, touched', page'[k], rules'[k])
  <2>1. \A k \in DOMAIN page : EditsTouched(k, touched', page[k], rules'[k])
    BY <1>1, <1>2, <1>7 DEF KeptInv, EditsTouched
  <2>2. CASE page' = page
    BY <2>1, <2>2
  <2>3. CASE page' = [page EXCEPT ![i].action = NewAction(node, TRUE)]
    <3>1. PICK vm : vm = [page[i] EXCEPT !.action = NewAction(node, TRUE)]
      OBVIOUS
    <3>2. IsView(page[i])
      BY <1>2, RuleViewParts DEF Parts
    <3>3. /\ vm.action = NewAction(node, TRUE) /\ vm.filters = page[i].filters
          /\ vm.deleting = page[i].deleting /\ vm.triggers = page[i].triggers
      BY <3>1, <3>2, ActionPut
    <3>4. NewAction(node, TRUE).dirty = {}
      BY DEF NewAction
    <3>5. EditsTouched(i, touched', vm, rules'[i])
      BY <2>1, <3>3, <3>4 DEF EditsTouched
    <3>6. DOMAIN page' = DOMAIN page /\ \A k \in DOMAIN page : page'[k] = IF k = i THEN vm ELSE page[k]
      BY <2>3, <3>1
    <3> QED
      BY <2>1, <3>5, <3>6
  <2> QED
    BY <1>1, <2>2, <2>3
<1>9. "failed" \notin unsaved' =>
        \A k \in DOMAIN file' :
          /\ doc'[k].where = file'[k].where /\ doc'[k].when = file'[k].when
          /\ <<k, "type">> \in touched' \/ doc'[k] = file'[k]
  BY <1>1, <1>2, <1>3, <1>4 DEF KeptInv
<1>10. file' = file
  BY <1>1
<1> QED
  BY <1>6, <1>8, <1>9, <1>10 DEF KeptInv


LEMMA EditsKeepDocument ==
  ASSUME IInv, KeptInv, UserEdits
  PROVE  KeptInv'
<1>1. life = "run"
  BY DEF UserEdits
<1>2. PICK i \in DOMAIN page :
        \/ ChangeAbsolute(i) \/ ChangeRelative(i) \/ ChangeFilter(i) \/ AddFilter(i) \/ DeleteFilter(i)
        \/ ChangeTriggers(i) \/ ChangeType(i)
  BY DEF UserEdits
<1>3. CASE ChangeType(i)
  BY <1>1, <1>3, ChangeTypeKeepsDocument
<1>4. CASE ~ChangeType(i)
  <2>1. PICK what, vm : Touches(what, page[i], vm) /\ Edit(i, what, vm)
    BY <1>2, <1>4, PageTouched
  <2> QED
    BY <2>1, EditKeepsDocument
<1> QED
  BY <1>3, <1>4

LEMMA StartKeepsDocument ==
  ASSUME IInv, KeptInv, Start \/ End
  PROVE  KeptInv'
<1>1. doc' = file /\ file' = file
  BY DEF Start, End
<1>2. page' = NoPage
  BY DEF IInv, PageInv, Start, End
<1>3. DOMAIN page' = {}
  BY <1>2 DEF NoPage
<1>4. \A i \in DOMAIN file' : Kept(i, touched', file'[i], doc'[i])
  BY <1>1, NothingChanged
<1> QED
  BY <1>1, <1>3, <1>4 DEF KeptInv

\* A new page shows what is in memory: nothing on it is touched.
LEMMA OpenPageKeepsDocument ==
  ASSUME KeptInv, OpenPage
  PROVE  KeptInv'
<1>1. UNCHANGED <<file, doc, rules, touched, unsaved>>
  BY DEF OpenPage
<1>2. page = NoPage /\ DOMAIN NoPage = {}
  BY DEF OpenPage, NoPage
<1>3. CASE page' = page
  BY <1>1, <1>3 DEF KeptInv
<1>4. CASE page' = [i \in DOMAIN rules |-> NewRule(i)]
  <2>1. ASSUME NEW i \in DOMAIN rules
        PROVE  EditsTouched(i, touched, NewRule(i), rules[i])
    <3>1. PICK used, triggers, action :
            /\ used = Selected(kAllFilterKey, {k \in FilterKeys : HasFilter(i, k)})
            /\ triggers = rules[i].triggers /\ action = NewAction(doc[i], FALSE)
      OBVIOUS
    <3>2. PICK filters : filters = [j \in DOMAIN used |-> NewFilter(used[j], FilterValue(i, used[j]), FALSE)]
      OBVIOUS
    <3>3. /\ NewRule(i).action = action /\ NewRule(i).filters = filters /\ NewRule(i).deleting = {}
          /\ NewRule(i).triggers = triggers
      BY <3>1, <3>2 DEF NewRule
    <3>4. action.dirty = {}
      BY <3>1 DEF NewAction
    <3>5. \A f \in Range(filters) : f.pending = FALSE
      BY <3>2 DEF Range, NewFilter
    <3>6. SymDiff(triggers, triggers) = {}
      BY DEF SymDiff
    <3> QED
      BY <3>1, <3>3, <3>4, <3>5, <3>6 DEF EditsTouched
  <2> QED
    BY <1>1, <1>4, <2>1 DEF KeptInv
<1> QED
  BY <1>3, <1>4 DEF OpenPage

\* The changes of a page that is left are gone, but for the types, and but for
\* everything that a save put in the document and not in the file.
LEMMA ClosePageKeepsDocument ==
  ASSUME KeptInv, ClosePage
  PROVE  KeptInv'
<1>1. /\ page' = NoPage
      /\ touched' = {t \in touched : t[2] = "type" \/ "failed" \in unsaved}
      /\ "failed" \in unsaved' <=> "failed" \in unsaved
      /\ UNCHANGED <<file, doc>>
  <2>1. unsaved' = unsaved \cup (IF touched' # {} THEN {"type"} ELSE {})
    BY DEF ClosePage
  <2> QED
    BY <2>1 DEF ClosePage
<1>2. DOMAIN page' = {}
  BY <1>1 DEF NoPage
<1>3. CASE "failed" \in unsaved
  <2>1. touched' = touched
    BY <1>1, <1>3
  <2> QED
    BY <1>1, <1>2, <1>3, <2>1 DEF KeptInv
<1>4. CASE "failed" \notin unsaved
  <2>1. ASSUME NEW i \in DOMAIN file
        PROVE  /\ Kept(i, touched', file[i], doc[i])
               /\ <<i, "type">> \in touched' \/ doc[i] = file[i]
    <3>1. /\ doc[i].where = file[i].where /\ doc[i].when = file[i].when
          /\ <<i, "type">> \in touched \/ doc[i] = file[i]
          /\ Kept(i, touched, file[i], doc[i])
      BY <1>4 DEF KeptInv
    <3>2. CASE doc[i] = file[i]
      BY <3>2, NothingChanged
    <3>3. CASE doc[i] # file[i]
      <4>1. <<i, "type">>[2] = "type"
        OBVIOUS
      <4>2. <<i, "type">> \in touched'
        BY <1>1, <3>1, <3>3, <4>1
      <4>3. /\ WhereKept(i, touched', file[i].where, doc[i].where)
            /\ WhenKept(i, touched', file[i].when, doc[i].when)
        BY <3>1 DEF WhereKept, WhenKept, SymDiff
      <4> QED
        BY <3>1, <4>2, <4>3 DEF Kept
    <3> QED
      BY <3>2, <3>3
  <2> QED
    BY <1>1, <1>2, <1>4, <2>1 DEF KeptInv
<1> QED
  BY <1>3, <1>4

\* What is saved is no longer pending.
LEMMA NothingToSave ==
  ASSUME NEW i, NEW T, NEW vm, NEW rule, NEW new, new = AppliedView(vm), NEW changed, changed = AppliedRule(vm, rule)
  PROVE  EditsTouched(i, T, new, changed)
<1>1. PICK action, filters :
        /\ action = AppliedAction(vm.action)
        /\ filters = [j \in DOMAIN vm.filters |-> NewFilter(vm.filters[j].key, vm.filters[j].value, FALSE)]
  OBVIOUS
<1>2. new.action = action /\ new.filters = filters /\ new.deleting = {} /\ new.triggers = vm.triggers
  BY <1>1 DEF AppliedView
<1>3. changed.triggers = vm.triggers
  BY DEF AppliedRule
<1>4. action.dirty = {} /\ \A f \in Range(filters) : f.pending = FALSE
  BY <1>1 DEF AppliedAction, Range, NewFilter
<1>5. SymDiff(vm.triggers, vm.triggers) = {}
  BY DEF SymDiff
<1> QED
  BY <1>2, <1>3, <1>4, <1>5 DEF EditsTouched

\* A save keeps of the file what was not touched, whether it fails or not.
LEMMA SaveKeepsDocument ==
  ASSUME IInv, KeptInv, SaveClick
  PROVE  KeptInv' /\ \A i \in DOMAIN file : Kept(i, touched, file[i], file'[i])
<1>1. /\ life = "run"
      /\ \/ file' = doc' /\ touched' = {} /\ unsaved' = {}
         \/ file' = file /\ touched' = touched /\ unsaved' = unsaved \cup {"failed"}
  BY DEF SaveClick
<1>2. /\ IsDocument(doc) /\ DOMAIN doc = DOMAIN file
      /\ DOMAIN rules = Readable(doc) /\ DOMAIN page = DOMAIN rules
  <2>1. page # NoPage
    BY DEF SaveClick, HasPendingChanges, NoPage
  <2> QED
    BY <1>1, <2>1 DEF IInv, DocInv, RulesInv, PageInv
<1>3. /\ DOMAIN doc' = DOMAIN doc
      /\ \A i \in DOMAIN doc : doc'[i] = IF i \in DOMAIN rules THEN AppliedNode(page[i], rules[i], doc[i]) ELSE doc[i]
      /\ \A i \in DOMAIN rules : rules'[i] = AppliedRule(page[i], rules[i])
      /\ DOMAIN page' = DOMAIN rules
      /\ \A i \in DOMAIN rules : page'[i] = AppliedView(page[i])
  <2>1. /\ doc' = [i \in DOMAIN doc |-> IF i \in DOMAIN page THEN AppliedNode(page[i], rules[i], doc[i]) ELSE doc[i]]
        /\ rules' = [i \in DOMAIN rules |-> AppliedRule(page[i], rules[i])]
        /\ page' = [i \in DOMAIN page |-> AppliedView(page[i])]
    BY DEF SaveClick
  <2> QED
    BY <1>2, <2>1
<1>4. ASSUME NEW i \in DOMAIN rules
      PROVE  Kept(i, touched, doc[i], doc'[i])
  <2>1. PICK vm, rule, node, new : vm = page[i] /\ rule = rules[i] /\ node = doc[i] /\ new = doc'[i]
    OBVIOUS
  <2>2. i \in DOMAIN doc /\ IsNode(node) /\ ParseError(node) = <<>>
    BY <1>2, <2>1 DEF IsDocument, Readable
  <2>3. IsRuleView(vm) /\ Shows(vm, rule, node) /\ Agrees(rule, node) /\ EditsTouched(i, touched, vm, rule)
    BY <1>1, <1>2, <2>1 DEF IInv, PageInv, RulesInv, KeptInv
  <2>4. new = AppliedNode(vm, rule, node)
    BY <1>3, <2>1, <2>2
  <2> QED
    BY <2>1, <2>2, <2>3, <2>4, NodeKeptSaved
<1>5. ASSUME NEW i \in DOMAIN file
      PROVE  Kept(i, touched, file[i], doc'[i])
  <2>1. Kept(i, touched, doc[i], doc'[i])
    BY <1>2, <1>3, <1>4, NothingChanged
  <2> QED
    BY <2>1, ChangedTwice DEF KeptInv
<1>6. ASSUME NEW i \in DOMAIN rules
      PROVE  EditsTouched(i, touched', page'[i], rules'[i])
  <2>1. PICK vm, rule : vm = page[i] /\ rule = rules[i]
    OBVIOUS
  <2>2. PICK new, changed : new = AppliedView(vm) /\ changed = AppliedRule(vm, rule)
    OBVIOUS
  <2>3. page'[i] = new /\ rules'[i] = changed
    BY <1>3, <2>1, <2>2
  <2>4. EditsTouched(i, touched', new, changed)
    BY <2>2, NothingToSave
  <2> QED
    BY <2>3, <2>4
<1>7. CASE file' = doc' /\ touched' = {} /\ unsaved' = {}
  BY <1>2, <1>3, <1>5, <1>6, <1>7, NothingChanged DEF KeptInv
<1>8. CASE file' = file /\ touched' = touched /\ unsaved' = unsaved \cup {"failed"}
  BY <1>2, <1>3, <1>5, <1>6, <1>8, NothingChanged DEF KeptInv
<1> QED
  BY <1>1, <1>7, <1>8

LEMMA InitKept ==
  ASSUME Init
  PROVE  KeptInv
<1>1. doc = file /\ page = NoPage
  BY DEF Init
<1>2. DOMAIN page = {}
  BY <1>1 DEF NoPage
<1> QED
  BY <1>1, <1>2, NothingChanged DEF KeptInv

\* RulesViewModel::SaveClick() through Rule, Filter, Action and TriggerFlags: of
\* the file a save changes what the user has changed since it was read or
\* written; rules that do not parse, names that are no triggers and foreign keys
\* stay, whatever was edited, saved, failed or left before.
THEOREM SavesOnlyChangesCorrect == Spec => SavesOnlyChanges
<1>1. Init => KeptInv
  BY InitKept
<1>2. IInv /\ KeptInv /\ [Next]_vars => KeptInv'
  <2>1. IInv /\ KeptInv /\ Next => KeptInv'
    BY StartKeepsDocument, OpenPageKeepsDocument, ClosePageKeepsDocument, EditsKeepDocument, SaveKeepsDocument DEF Next
  <2>2. KeptInv /\ UNCHANGED vars => KeptInv'
    BY DEF KeptInv, vars
  <2> QED
    BY <2>1, <2>2
<1>3. IInv /\ KeptInv /\ [Next]_vars => [\A i \in DOMAIN file : KeptNode(i, file[i], file'[i])]_file
  <2>1. ASSUME IInv, KeptInv, SaveClick
        PROVE  \A i \in DOMAIN file : KeptNode(i, file[i], file'[i])
    BY <2>1, SaveKeepsDocument, KeptNodeIsKept
  <2>2. Start \/ End \/ OpenPage \/ ClosePage \/ UNCHANGED vars => file' = file
    BY DEF Start, End, OpenPage, ClosePage, vars
  <2>3. UserEdits => file' = file
    BY DEF UserEdits, ChangeAbsolute, ChangeRelative, ChangeNumber, ChangeFilter, AddFilter, DeleteFilter,
           ChangeTriggers, ChangeType, Edit
  <2> QED
    BY <2>1, <2>2, <2>3 DEF Next
<1> QED
  BY <1>1, <1>2, <1>3, IInvCorrect, PTL DEF Spec, SavesOnlyChanges


=============================================================================
