---------------------------- MODULE RuleCompiler ----------------------------
(***************************************************************************)
(* compiler::CompileRule() (src/app/compiler) makes the engine's rules of   *)
(* the rules in memory, and the engine's predicates test a window.          *)
(***************************************************************************)
EXTENDS SettingsNodes, FiniteSetsExt

CONSTANT MonitorIds  \* the ids CompilationContext finds a monitor for

\* Operation: nothing for a type that is invalid and for a monitor that is not there.
CompileAction(node) ==
  LET bounds == ReadAction(node.type, node.fields)
      found  == node.type = "relative" => bounds["id"] = 0 \/ bounds["id"] \div 2 \in MonitorIds
  IN  IF node.type # "invalid" /\ found THEN <<[type |-> node.type, bounds |-> bounds]>> ELSE <<>>

\* The predicate of a condition that says something.  An empty process path
\* says nothing, an empty class or title does if it is to be equal.
CompileProcessImageName(v) ==
  IF v.text # <<>> THEN {[key |-> "process", match |-> v.match, text |-> v.text]} ELSE {}
CompileWindowClass(v) ==
  IF v.text # <<>> \/ v.match = "Equals" THEN {[key |-> "class", match |-> v.match, text |-> v.text]} ELSE {}
CompileWindowTitle(v) ==
  IF v.text # <<>> \/ v.match = "Equals" THEN {[key |-> "title", match |-> v.match, text |-> v.text]} ELSE {}

CompileFilter(filter) ==
  CompileProcessImageName(filter["process"]) \cup CompileWindowClass(filter["class"])
    \cup CompileWindowTitle(filter["title"])

\* The capacity of PredicateSet, a static_vector.
kPredicateCapacity == 2

\* What compiling a rule throws: a number of its action, or its third predicate.
Thrown(node, rule) ==
  IF ~ReadsAction(node.type, node.fields) THEN "ParseError"
  ELSE IF CompileAction(node) # <<>> /\ Cardinality(CompileFilter(rule.filter)) > kPredicateCapacity
  THEN "bad_alloc" ELSE "nothing"

\* The first exception ends CompileRule().
CompileError(nodes, rules) ==
  LET throwing == {i \in DOMAIN rules : Thrown(nodes[i], rules[i]) # "nothing"}
  IN  IF throwing = {} THEN "nothing" ELSE Thrown(nodes[Min(throwing)], rules[Min(throwing)])

CompileRule(nodes, rules) ==
  [i \in {j \in DOMAIN rules : CompileAction(nodes[j]) # <<>>} |->
     [trigger |-> rules[i].triggers, operation |-> CompileAction(nodes[i]),
      condition |-> CompileFilter(rules[i].filter)]]

-----------------------------------------------------------------------------
(* Predicates                                                              *)

Evaluate_Swapped(p, window) ==
  LET s == window[p.key]
  IN  CASE p.match = "Equals"     -> s = p.text
        [] p.match = "StartsWith" -> IsSuffix(p.text, s)
        [] p.match = "EndsWith"   -> IsPrefix(p.text, s)
        [] p.match = "Contains"   -> \E i \in 1..(Len(s) + 1) : IsPrefix(p.text, SubSeq(s, i, Len(s)))

Evaluate(p, window) ==
  LET s == window[p.key]
  IN  CASE p.match = "Equals"     -> s = p.text
        [] p.match = "StartsWith" -> IsPrefix(p.text, s)
        [] p.match = "EndsWith"   -> IsSuffix(p.text, s)
        [] p.match = "Contains"   -> \E i \in 1..(Len(s) + 1) : IsPrefix(p.text, SubSeq(s, i, Len(s)))

Matches(rule, window) == \A p \in rule.condition : Evaluate(p, window)

\* The reference: the table of patterns in docs/configuration.md read as anchors.
\* The pattern's text is a part of s, at its start with "^" and at its end with "$".
PatternMatches(pattern, s) ==
  LET starts == pattern # <<>> /\ Head(pattern) = "^"
      ends   == pattern # <<>> /\ Last(pattern) = "$"
      text   == SubSeq(pattern, IF starts THEN 2 ELSE 1, Len(pattern) - (IF ends THEN 1 ELSE 0))
  IN  \E i \in 1..(Len(s) + 1), j \in 0..Len(s) :
        /\ SubSeq(s, i, j) = text
        /\ j - i + 1 = Len(text)
        /\ starts => i = 1
        /\ ends => j = Len(s)

=============================================================================
