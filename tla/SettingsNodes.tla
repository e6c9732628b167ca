--------------------------- MODULE SettingsNodes ---------------------------
(***************************************************************************)
(* The nodes of the settings document, and how Rule, Filter, Action,        *)
(* TriggerFlags and NodeHelper (src/app/settings) read and write them.      *)
(*                                                                         *)
(* A text is a sequence of characters.  A number stands for its double, so  *)
(* that 0.5 is one, and what is no number at all for one out of range.      *)
(* A rule's node is a record: shape is "map" or says where it has no maps;  *)
(* where maps the present keys to patterns; when is a scalar, a sequence, a *)
(* map or absent; fields maps the present keys of "then" to numbers: the    *)
(* monitor's "name", a text nothing but its reading looks at, to 0 when it  *)
(* is one and to another number when it is a container.                     *)
(***************************************************************************)
EXTENDS Integers, SequencesExt

FilterKeys == {"process", "class", "title"}
kAllFilterKey == <<"process", "class", "title">>
TriggerFlags == {"init", "focus", "show"}
kAllTriggerEntries == <<"init", "focus", "show">>
ActionTypes == {"invalid", "absolute", "relative"}
StringMatchTypes == {"Contains", "StartsWith", "EndsWith", "Equals"}

-----------------------------------------------------------------------------
(* Numbers                                                                 *)

Bounds == {"x", "y", "width", "height"}
FieldsOf(type) ==
  CASE type = "absolute" -> Bounds
    [] type = "relative" -> Bounds \cup {"id", "name"}
    [] type = "invalid"  -> {}

\* The limits of the namespace numeric_limit, for whole numbers ...
LongInRange(field, n) ==
  n % 2 = 0 /\ CASE field = "id"         -> 2 <= n /\ n <= 32
                  [] field \in {"x", "y"} -> -32768 <= n /\ n <= 32768
                  [] OTHER                -> 0 <= n /\ n <= 32768
\* ... and for the floats of a relative action.
FloatInRange(n) == 0 <= n /\ n <= 2

InRange(type, field, n) ==
  CASE field = "name"                          -> n = 0
    [] type = "relative" /\ field \in Bounds -> FloatInRange(n)
    [] OTHER                                   -> LongInRange(field, n)

\* What a field without a value is read as.
AbsoluteDefault == [x |-> 0, y |-> 0, width |-> 1280, height |-> 800]
RelativeDefault == [x |-> 1, y |-> 1, width |-> 2, height |-> 2, id |-> 0, name |-> 0]
DefaultNumber(type, field) == IF type = "relative" THEN RelativeDefault[field] ELSE AbsoluteDefault[field]

\* Constructing an AbsoluteMoveAndResize or a RelativeMoveAndResize throws
\* unless every field that is present is in range, and the name a text.
ReadsAction(type, fields) ==
  \A f \in FieldsOf(type) \cap DOMAIN fields : InRange(type, f, fields[f])

ReadAction(type, fields) ==
  [f \in FieldsOf(type) |-> IF f \in DOMAIN fields THEN fields[f] ELSE DefaultNumber(type, f)]

\* The setters of the fields in dirty: none writes the value its action has ...
WriteAbsolute(fields, bounds, shown, dirty) ==
  LET written == {f \in dirty : bounds[f] # shown[f]}
  IN  [f \in DOMAIN fields \cup written |-> IF f \in written THEN shown[f] ELSE fields[f]]

WriteRelative_KeepsUnset(fields, bounds, shown, dirty) ==
  WriteAbsolute(fields, bounds, shown, {f \in dirty : shown[f] # 0})

\* ... and an id that is not set has no key.
WriteRelative(fields, bounds, shown, dirty) ==
  LET unset   == {f \in dirty \cap {"id"} : shown[f] = 0}
      written == WriteAbsolute(fields, bounds, shown, dirty \ unset)
  IN  Restrict(written, DOMAIN written \ unset)

\* removeFields() of a type
RemoveFields(type, fields) == Restrict(fields, DOMAIN fields \ FieldsOf(type))

-----------------------------------------------------------------------------
(* Patterns: StringAndMatchType                                            *)

NoFilter == [match |-> "Contains", text |-> <<>>]

ReadPattern(s) ==
  LET starts == s # <<>> /\ Head(s) = "^"
      ends   == s # <<>> /\ Last(s) = "$"
  IN  [match |-> CASE starts /\ ends  -> "Equals"
                   [] starts /\ ~ends -> "StartsWith"
                   [] ~starts /\ ends -> "EndsWith"
                   [] OTHER           -> "Contains",
       text |-> SubSeq(s, IF starts THEN 2 ELSE 1, IF ends THEN Len(s) - 1 ELSE Len(s))]

WritePattern(v) ==
  (IF v.match \in {"Equals", "StartsWith"} THEN <<"^">> ELSE <<>>)
    \o v.text
    \o (IF v.match \in {"Equals", "EndsWith"} THEN <<"$">> ELSE <<>>)

\* A text that itself has a marker where its match type writes none: there is
\* no escape, so it reads back as another condition.
Ambiguous(v) ==
  \/ v.match \in {"Contains", "EndsWith"} /\ v.text # <<>> /\ Head(v.text) = "^"
  \/ v.match \in {"Contains", "StartsWith"} /\ v.text # <<>> /\ Last(v.text) = "$"

ReadFilter(where) ==
  [k \in FilterKeys |-> IF k \in DOMAIN where THEN ReadPattern(where[k]) ELSE NoFilter]

\* writeFilterStringMatchType() for each key of values: a condition that says
\* nothing has no key.
WriteFilters(where, values) ==
  LET cleared == {k \in DOMAIN values : values[k] = NoFilter}
  IN  [k \in (DOMAIN where \cup DOMAIN values) \ cleared |->
         IF k \in DOMAIN values THEN WritePattern(values[k]) ELSE where[k]]

-----------------------------------------------------------------------------
(* Triggers                                                                *)

\* The elements of s that are in S, in their order: SelectSeq as a recursive
\* function, which proofs can unfold.
Selected(s, S) ==
  LET first[n \in 0..Len(s)] ==
        IF n = 0 THEN <<>>
        ELSE IF s[n] \in S THEN Append(first[n - 1], s[n]) ELSE first[n - 1]
  IN  first[Len(s)]

\* A name that is no trigger is ignored.
ToTriggerFlags(names) == ToSet(names) \cap TriggerFlags

ReadTriggerFlags(when) ==
  IF when.form \in {"scalar", "seq"} THEN ToTriggerFlags(when.names) ELSE {}

\* The names that stay when only some triggers are wanted: other names, too.
KeptNames(names, value) == Selected(names, ToSet(names) \ (TriggerFlags \ value))

WriteTriggerFlags_Rebuilt(when, value) ==
  LET names == Selected(kAllTriggerEntries, value)
  IN  [form |-> IF when.form = "scalar" /\ Len(names) = 1 THEN "scalar" ELSE "seq", names |-> names]

\* Triggers that are not wanted are removed and new ones appended, in the order
\* of the enumeration; other names stay.  A single trigger keeps its scalar form.
WriteTriggerFlags(when, value) ==
  LET kept  == KeptNames(when.names, value)
      added == Selected(kAllTriggerEntries, value \ ToSet(kept))
      names == kept \o added
  IN  [form |-> IF when.form = "scalar" /\ Len(names) = 1 THEN "scalar" ELSE "seq", names |-> names]

-----------------------------------------------------------------------------
(* Rules                                                                   *)

\* The first ParseError of Rule's constructor, in the order of its members: the
\* reason and the key.  "name", "where", "then", "type" and a condition may have
\* the shape of another node.
ParseError(node) ==
  CASE node.shape = "scalar"      -> <<"ExpectedMap", "rule">>
    [] node.shape = "noWhere"     -> <<"MissingRequiredKey", "where">>
    [] node.shape = "noThen"      -> <<"MissingRequiredKey", "then">>
    [] node.shape = "nameMap"     -> <<"ExpectedString", "name">>
    [] node.shape = "whereScalar" -> <<"ExpectedMap", "where">>
    [] node.shape = "titleMap"    -> <<"ExpectedString", "title">>
    [] node.when.form = "map"     -> <<"ExpectedSequence", "when">>
    [] node.shape = "thenScalar"  -> <<"ExpectedMap", "then">>
    [] node.shape = "typeMap"     -> <<"ExpectedString", "type">>
    [] OTHER -> <<>>

ReadRule(node) ==
  [filter |-> ReadFilter(node.where), triggers |-> ReadTriggerFlags(node.when), type |-> node.type]

\* readRules(): a rule with an error is logged and left out.
Readable(nodes) == {i \in DOMAIN nodes : ParseError(nodes[i]) = <<>>}
ReadRules(nodes) == [i \in Readable(nodes) |-> ReadRule(nodes[i])]

\* Action::setType(): the type is written and the fields of the old one removed.
SetType(node, value) ==
  [node EXCEPT !.type = value, !.fields = RemoveFields(node.type, @)]

=============================================================================
