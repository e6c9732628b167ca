----------------------------- MODULE RuleEditor -----------------------------
(***************************************************************************)
(* The rules' way through the program: parsed at its start, compiled for    *)
(* the engine, shown by the view models of the rule editor's page           *)
(* (src/winui3/ViewModels/Settings), changed there, written to the document *)
(* and saved.  save() is one step here; module SettingsStore has its steps. *)
(*                                                                         *)
(* A change of an action's type goes to the document at once, every other   *)
(* change when the user saves; the engine has the rules of the start.       *)
(***************************************************************************)
EXTENDS RuleCompiler

CONSTANTS
  Characters,    \* what texts are made of
  TriggerNames,  \* the names "when" may have, those of no trigger included
  Files,         \* the documents the file may have at first: sequences of rule nodes
  Numbers,       \* the numbers the user enters
  EditedFields,  \* the number fields the user edits; the page has none for the name
  Texts,         \* the texts the user types into a filter
  EditorFaults,  \* "save": a save may fail
  Windows,       \* the windows, by what the conditions test: [FilterKeys -> Seq(Characters)]
  MaxEdits       \* bound on the user's edits

\* What the nodes of a document hold.
IsNode(node) ==
  /\ node \in [shape : STRING, type : ActionTypes, fields : [DOMAIN node.fields -> Int],
               where : [DOMAIN node.where -> Seq(Characters)],
               when : [form : {"absent", "scalar", "seq", "map"}, names : Seq(TriggerNames)]]
  /\ DOMAIN node.where \subseteq FilterKeys

ASSUME EditorAssumption ==
  /\ {"^", "$"} \subseteq Characters /\ TriggerFlags \subseteq TriggerNames
  /\ \A nodes \in Files : nodes \in Seq(Range(nodes)) /\ \A node \in Range(nodes) : IsNode(node)
  /\ Numbers \subseteq Int /\ EditedFields \subseteq Bounds \cup {"id"}
  /\ Texts \subseteq Seq(Characters)
  /\ Windows \subseteq [FilterKeys -> Seq(Characters)]
  /\ MaxEdits \in Nat

VARIABLES
  file,    \* the rules of the settings file
  doc,     \* the nodes of the document in memory
  rules,   \* UserSettings::rules_: what Rule, Filter and Action keep of them
  engine,  \* the rule set of the engine
  life,    \* of the process: "off", "run", "terminated" or "crashed"
  page,    \* RulesViewModel::Items_; empty without a page
  loaded,  \* the file of the last start that succeeded
  touched, \* what the user changed since the file was read or written
  unsaved, \* why the document is ahead of the file without a pending change
  edits    \* the number of edits

vars == <<file, doc, rules, engine, life, page, loaded, touched, unsaved, edits>>

NoPage == <<>>

Init ==
  /\ file \in Files
  /\ doc = file /\ rules = <<>> /\ engine = <<>>
  /\ life = "off" /\ page = NoPage
  /\ loaded = <<>> /\ touched = {} /\ unsaved = {} /\ edits = 0

-----------------------------------------------------------------------------
(* The process                                                             *)

\* A ParseError out of the engine's noexcept handler terminates the program;
\* without memory the rule set stays as it was, which is empty.
Start ==
  /\ life = "off"
  /\ doc' = file
  /\ rules' = ReadRules(file)
  /\ LET error == CompileError(file, rules') IN
       /\ life' = IF error = "ParseError" THEN "terminated" ELSE "run"
       /\ loaded' = IF error = "ParseError" THEN loaded ELSE file
       /\ engine' = IF error = "nothing" THEN CompileRule(file, rules') ELSE <<>>
  /\ UNCHANGED <<file, page, touched, unsaved, edits>>

End ==
  /\ life # "off"
  /\ life' = "off"
  /\ doc' = file /\ rules' = <<>> /\ engine' = <<>> /\ page' = NoPage
  /\ touched' = {} /\ unsaved' = {}
  /\ UNCHANGED <<file, loaded, edits>>

-----------------------------------------------------------------------------
(* The page                                                                *)

\* makeActionViewModel(): its model reads the node anew.
NewAction(node, changeType) ==
  LET bounds == ReadAction(node.type, node.fields)
  IN  [type |-> node.type, bounds |-> bounds, shown |-> bounds, dirty |-> {}, pending |-> changeType]

NewFilter(key, v, newElem) == [key |-> key, value |-> v, pending |-> newElem]

FilterValue(i, key) == rules[i].filter[key]

HasFilter(i, key) == FilterValue(i, key) # NoFilter

NewRule(i) ==
  LET used == Selected(kAllFilterKey, {k \in FilterKeys : HasFilter(i, k)})
  IN  [action   |-> NewAction(doc[i], FALSE),
       filters  |-> [j \in DOMAIN used |-> NewFilter(used[j], FilterValue(i, used[j]), FALSE)],
       unused   |-> Selected(kAllFilterKey, {k \in FilterKeys : ~HasFilter(i, k)}),
       deleting |-> {},
       triggers |-> rules[i].triggers, triggersPending |-> FALSE]

\* A ParseError that leaves a handler of the page ends the process.
OpenPage ==
  /\ life = "run" /\ page = NoPage
  /\ IF \A i \in DOMAIN rules : ReadsAction(doc[i].type, doc[i].fields)
     THEN page' = [i \in DOMAIN rules |-> NewRule(i)] /\ life' = life
     ELSE life' = "crashed" /\ page' = page
  /\ UNCHANGED <<file, doc, rules, engine, loaded, touched, unsaved, edits>>

\* The user leaves the page: its pending changes are lost, but not a new type.
ClosePage ==
  /\ life = "run" /\ page # NoPage
  /\ page' = NoPage
  /\ touched' = {t \in touched : t[2] = "type" \/ "failed" \in unsaved}
  /\ unsaved' = unsaved \cup (IF touched' # {} THEN {"type"} ELSE {})
  /\ UNCHANGED <<file, doc, rules, engine, life, loaded, edits>>

PendingRule(vm) ==
  \/ vm.deleting # {}
  \/ vm.action.pending
  \/ \E j \in DOMAIN vm.filters : vm.filters[j].pending
  \/ vm.triggersPending
HasPendingChanges == \E i \in DOMAIN page : PendingRule(page[i])

\* An edit of rule i: only the page changes.
Edit(i, what, vm) ==
  /\ page' = [page EXCEPT ![i] = vm]
  /\ touched' = touched \cup {<<i, what>>}
  /\ UNCHANGED <<file, doc, rules, engine, life, loaded, unsaved>>

NumberEdited(action, f, n) ==
  [type |-> action.type, bounds |-> action.bounds, shown |-> [action.shown EXCEPT ![f] = n],
   dirty |-> action.dirty \cup {f}, pending |-> TRUE]

ChangeNumber(i, f, n) ==
  /\ f \in DOMAIN page[i].action.shown
  /\ page[i].action.shown[f] # n
  /\ Edit(i, f, [page[i] EXCEPT !.action = NumberEdited(@, f, n)])

\* A number out of its limits is refused with an exception.
ChangeAbsolute(i) ==
  /\ page[i].action.type = "absolute"
  /\ \E f \in EditedFields, n \in Numbers : LongInRange(f, n) /\ ChangeNumber(i, f, n)

ChangeRelative(i) ==
  /\ page[i].action.type = "relative"
  /\ \E f \in EditedFields, n \in Numbers :
       /\ IF f = "id" THEN n = 0 \/ LongInRange(f, n) ELSE FloatInRange(n)
       /\ ChangeNumber(i, f, n)

ChangeFilter(i) ==
  \E j \in DOMAIN page[i].filters :
    LET filter == page[i].filters[j] IN
      \E v \in {[filter.value EXCEPT !.match = m] : m \in StringMatchTypes}
                 \cup {[filter.value EXCEPT !.text = s] : s \in Texts} :
        /\ v # filter.value
        /\ Edit(i, filter.key, [page[i] EXCEPT !.filters[j] = NewFilter(filter.key, v, TRUE)])

AddFilter(i) ==
  \E j \in DOMAIN page[i].unused :
    LET key == page[i].unused[j] IN
      Edit(i, key, [page[i] EXCEPT !.unused = RemoveAt(@, j),
                                   !.filters = Append(@, NewFilter(key, NoFilter, TRUE))])

InsertUnused_AtEnd(unused, key) == Append(unused, key)

\* The key goes back to its place in the order of the enumeration.
InsertUnused(unused, key) ==
  LET before == {k \in ToSet(unused) :
                   \E a, b \in DOMAIN kAllFilterKey :
                     a < b /\ kAllFilterKey[a] = k /\ kAllFilterKey[b] = key}
  IN  InsertAt(unused, Cardinality(before) + 1, key)

DeleteFilter(i) ==
  \E j \in DOMAIN page[i].filters :
    LET key == page[i].filters[j].key IN
      Edit(i, key, [page[i] EXCEPT !.filters = RemoveAt(@, j), !.deleting = @ \cup {key},
                                   !.unused = InsertUnused(@, key)])

ChangeTriggers(i) ==
  \E t \in TriggerFlags :
    Edit(i, t, [page[i] EXCEPT !.triggers = SymDiff(@, {t}), !.triggersPending = TRUE])

\* RuleViewModel::ActionType(): the document changes before a new view model
\* is made, which may throw on what the old type had left in the node.
ChangeType(i) ==
  \E type \in ActionTypes \ {"invalid", rules[i].type} :
    LET node == SetType(doc[i], type) IN
      /\ doc' = [doc EXCEPT ![i] = node]
      /\ rules' = [rules EXCEPT ![i].type = type]
      /\ touched' = touched \cup {<<i, "type">>}
      /\ IF ReadsAction(type, node.fields)
         THEN page' = [page EXCEPT ![i].action = NewAction(node, TRUE)] /\ life' = life
         ELSE life' = "crashed" /\ page' = page
      /\ UNCHANGED <<file, engine, loaded, unsaved>>

UserEdits ==
  /\ life = "run" /\ edits < MaxEdits
  /\ edits' = edits + 1
  /\ \E i \in DOMAIN page :
       \/ ChangeAbsolute(i) \/ ChangeRelative(i) \/ ChangeFilter(i) \/ AddFilter(i) \/ DeleteFilter(i)
       \/ ChangeTriggers(i) \/ ChangeType(i)

-----------------------------------------------------------------------------
(* SaveClick: applyChanges() of every rule, and save() if one had changes  *)

\* The conditions that are to be written, by their keys: a key is shown once.
PendingFilters(vm) ==
  LET pending == {f \in Range(vm.filters) : f.pending}
  IN  [k \in {f.key : f \in pending} |-> (CHOOSE f \in pending : f.key = k).value]

AppliedWhere_DeletesLast(vm, where) ==
  LET written == WriteFilters(where, PendingFilters(vm))
  IN  Restrict(written, DOMAIN written \ vm.deleting)

\* Deleted conditions are cleared first: one of them may have been added again.
AppliedWhere(vm, where) ==
  WriteFilters(Restrict(where, DOMAIN where \ vm.deleting), PendingFilters(vm))

AppliedAbsolute(action, fields) == WriteAbsolute(fields, action.bounds, action.shown, action.dirty)
AppliedRelative(action, fields) == WriteRelative(fields, action.bounds, action.shown, action.dirty)
AppliedFields(action, fields) ==
  IF action.type = "relative" THEN AppliedRelative(action, fields) ELSE AppliedAbsolute(action, fields)

AppliedWhen(vm, rule, when) ==
  IF vm.triggersPending /\ vm.triggers # rule.triggers THEN WriteTriggerFlags(when, vm.triggers) ELSE when

AppliedNode(vm, rule, node) ==
  [shape |-> node.shape, type |-> node.type, fields |-> AppliedFields(vm.action, node.fields),
   where |-> AppliedWhere(vm, node.where), when |-> AppliedWhen(vm, rule, node.when)]

\* What the rule keeps in memory: the values of the view models.
AppliedRule(vm, rule) ==
  LET values == PendingFilters(vm)
  IN  [filter   |-> [k \in FilterKeys |->
                       IF k \in DOMAIN values THEN values[k]
                       ELSE IF k \in vm.deleting THEN NoFilter ELSE rule.filter[k]],
       triggers |-> vm.triggers,
       type     |-> rule.type]

AppliedAction(action) ==
  [type |-> action.type, bounds |-> action.shown, shown |-> action.shown, dirty |-> {}, pending |-> FALSE]
AppliedView(vm) ==
  [action   |-> AppliedAction(vm.action),
   filters  |-> [j \in DOMAIN vm.filters |-> NewFilter(vm.filters[j].key, vm.filters[j].value, FALSE)],
   unused   |-> vm.unused,
   deleting |-> {},
   triggers |-> vm.triggers, triggersPending |-> FALSE]

SaveClick_KeepsFile ==
  /\ life = "run" /\ HasPendingChanges
  /\ doc' = [i \in DOMAIN doc |-> IF i \in DOMAIN page THEN AppliedNode(page[i], rules[i], doc[i]) ELSE doc[i]]
  /\ rules' = [i \in DOMAIN rules |-> AppliedRule(page[i], rules[i])]
  /\ page' = [i \in DOMAIN page |-> AppliedView(page[i])]
  /\ file' = doc /\ touched' = {} /\ unsaved' = {}
  /\ UNCHANGED <<engine, life, loaded, edits>>

SaveClick ==
  /\ life = "run" /\ HasPendingChanges
  /\ doc' = [i \in DOMAIN doc |-> IF i \in DOMAIN page THEN AppliedNode(page[i], rules[i], doc[i]) ELSE doc[i]]
  /\ rules' = [i \in DOMAIN rules |-> AppliedRule(page[i], rules[i])]
  /\ page' = [i \in DOMAIN page |-> AppliedView(page[i])]
  /\ \/ file' = doc' /\ touched' = {} /\ unsaved' = {}
     \/ /\ "save" \in EditorFaults
        /\ unsaved' = unsaved \cup {"failed"}
        /\ UNCHANGED <<file, touched>>
  /\ UNCHANGED <<engine, life, loaded, edits>>

Next == Start \/ End \/ OpenPage \/ ClosePage \/ UserEdits \/ SaveClick
Spec == Init /\ [][Next]_vars

-----------------------------------------------------------------------------
(* Properties                                                              *)

\* The page, the rules in memory and the nodes are there for the same rules,
\* and hold values the types of the code allow.
EditorTypeOK ==
  /\ life \in {"off", "run", "terminated", "crashed"}
  /\ DOMAIN doc = DOMAIN file /\ DOMAIN engine \subseteq DOMAIN rules
  /\ edits \in 0..MaxEdits /\ unsaved \subseteq {"type", "failed"}
  /\ life # "off" => DOMAIN rules = Readable(doc)
  /\ page # NoPage => DOMAIN page = DOMAIN rules
  /\ \A i \in DOMAIN page :
       /\ DOMAIN page[i].action.shown = FieldsOf(page[i].action.type)
       /\ page[i].action.dirty \subseteq FieldsOf(page[i].action.type)
       /\ page[i].triggers \subseteq TriggerFlags

\* What a rule keeps in memory is what a restart would read from its node, so
\* that a saved edit is in force after the next start.  A condition whose text
\* has a marker of its own reads back as another one.
MemoryIsDocument ==
  \A i \in DOMAIN rules :
    LET read == ReadRule(doc[i]) IN
      /\ read.type = rules[i].type /\ read.triggers = rules[i].triggers
      /\ \A k \in FilterKeys : read.filter[k] = rules[i].filter[k] \/ Ambiguous(rules[i].filter[k])

\* What the page shows without a pending change is what the document says; a
\* shown value that differs from it is pending, so that it is not lost on saving.
ViewIsDocument ==
  \A i \in IF life = "run" THEN DOMAIN page ELSE {} :
    LET vm == page[i]
        action == vm.action IN
      /\ action.type = rules[i].type
      /\ action.bounds = ReadAction(doc[i].type, doc[i].fields)
      /\ \A f \in DOMAIN action.shown \ action.dirty : action.shown[f] = action.bounds[f]
      /\ action.dirty # {} => action.pending
      /\ \A f \in Range(vm.filters) : f.pending \/ f.value = rules[i].filter[f.key]
      /\ \A k \in ToSet(vm.unused) \ vm.deleting : rules[i].filter[k] = NoFilter
      /\ vm.triggersPending \/ vm.triggers = rules[i].triggers

\* Every condition is either shown once or offered once, and those offered
\* are in the order of the enumeration, whatever was added and deleted.
KeysPartitioned ==
  \A i \in DOMAIN page :
    LET shown == [j \in DOMAIN page[i].filters |-> page[i].filters[j].key] IN
      /\ Len(shown) + Len(page[i].unused) = Cardinality(FilterKeys)
      /\ ToSet(shown) \cup ToSet(page[i].unused) = FilterKeys
      /\ page[i].unused = Selected(kAllFilterKey, FilterKeys \ ToSet(shown))

\* The document is ahead of the file only by pending changes, by a save that
\* failed and by a type that was chosen on a page left without saving; the
\* page does not show the last two as pending.
SavedUnlessKnown ==
  life = "run" /\ ~HasPendingChanges /\ unsaved = {} => file = doc

\* A start never fails on a file the program has loaded and saved: the editor
\* lets no number out of the limits it is read with into the document.
StartsAgain == life = "terminated" => loaded = <<>>

\* The three views of a rule agree on what they hold, and a file the program
\* itself has read and written never ends it at the next start.
EditorInv == EditorTypeOK /\ MemoryIsDocument /\ StartsAgain

\* Saving keeps what the user did not change and what the program does not
\* know: rules that do not parse, names that are no triggers, foreign keys.
KeptNode(i, old, new) ==
  /\ ParseError(old) # <<>> => new = old
  /\ <<i, "type">> \in touched \/
       /\ new.type = old.type
       /\ \A f \in DOMAIN old.fields \cup DOMAIN new.fields :
            <<i, f>> \in touched \/ (f \in DOMAIN old.fields \cap DOMAIN new.fields /\ old.fields[f] = new.fields[f])
  /\ \A f \in DOMAIN old.fields \ FieldsOf("relative") : f \in DOMAIN new.fields
  /\ \A k \in FilterKeys :
       \/ <<i, k>> \in touched
       \/ k \notin DOMAIN old.where \cup DOMAIN new.where
       \/ k \in DOMAIN old.where \cap DOMAIN new.where /\ old.where[k] = new.where[k]
  /\ LET Unknown(when) == Selected(when.names, ToSet(when.names) \ TriggerFlags)
     IN  Unknown(new.when) = Unknown(old.when)
  /\ \A t \in SymDiff(ReadTriggerFlags(old.when), ReadTriggerFlags(new.when)) : <<i, t>> \in touched
SavesOnlyChanges == [][\A i \in DOMAIN file : KeptNode(i, file[i], file'[i])]_file

\* The rules in force match the windows the documentation says: "^" and "$"
\* tie the text to the start and the end, every condition has to hold.
\* (An empty process path cannot be asked for: "^$" is no condition there.)
MatchesAsDocumented ==
  \A i \in DOMAIN engine, w \in Windows :
    LET where == loaded[i].where IN
      Matches(engine[i], w) <=>
        \A k \in DOMAIN where :
          PatternMatches(where[k], w[k]) \/ (k = "process" /\ where[k] = <<"^", "$">>)

\* Every rule with an action that can be performed is in force after a start
\* (the example of docs/configuration.md has all three conditions).
EveryRuleInForce ==
  life = "run" =>
    \A i \in Readable(loaded) : CompileAction(loaded[i]) # <<>> => i \in DOMAIN engine

=============================================================================
