---------------------------- MODULE MCRuleEditor ----------------------------
(* Settings files and windows for the runs of module RuleEditor.           *)
EXTENDS RuleEditor

Rule(type, fields, where, form, names) ==
  [shape |-> "map", type |-> type, fields |-> fields, where |-> where,
   when |-> [form |-> form, names |-> names]]

NoFields == <<>>

\* "note" is a key the program does not know; 100000 is no number it accepts.
AbsoluteRule ==
  Rule("absolute", [x |-> 2, id |-> 100000, note |-> 0], [process |-> <<"^", "a", "$">>], "scalar", <<"show">>)
RelativeRule ==
  Rule("relative", [x |-> 0, id |-> 2, name |-> 0, note |-> 0], [process |-> <<"a">>, title |-> <<"b", "$">>],
       "seq", <<"other", "focus", "focus">>)
InvalidRule == Rule("invalid", [x |-> 1], [class |-> <<"^", "$">>], "absent", <<>>)
BadNumber   == Rule("absolute", [x |-> 1], NoFields, "scalar", <<"init">>)
BadName     == Rule("relative", [id |-> 2, name |-> 1], NoFields, "scalar", <<"init">>)
BadTrigger  == Rule("absolute", [x |-> 2], NoFields, "map", <<"other">>)
Broken(s)   == [AbsoluteRule EXCEPT !.shape = s]
BrokenRules ==
  [i \in 1..8 |-> Broken(<<"scalar", "noWhere", "noThen", "nameMap", "whereScalar", "titleMap",
                           "thenScalar", "typeMap">>[i])]

MCFiles ==
  {<<r, Broken("noThen")>> : r \in {AbsoluteRule, RelativeRule, InvalidRule}}
    \cup {<<BadNumber>>, <<BadName>>, <<BadTrigger>> \o BrokenRules}
SmallFiles == {<<RelativeRule>>}

MCTexts == {<<>>, <<"a">>, <<"^", "b">>}

Strings == {<<>>, <<"a">>, <<"b">>, <<"a", "b">>, <<"b", "a">>}
MCWindows == [process : Strings \ {<<>>}, class : {<<>>, <<"a">>}, title : Strings]

=============================================================================
