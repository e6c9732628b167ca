--------------------------- MODULE MCWindowRules ---------------------------
(* Rule sets for the runs of WindowRules: a rule on the class alone, and one *)
(* on class and title that a second publication replaces.                   *)
EXTENDS WindowRules

CONSTANTS c1, c2, t1

Class(c) == [attribute |-> "class", accepts |-> {c}]
Title(t) == [attribute |-> "title", accepts |-> {t}]

ByClass(c)    == [trigger |-> {"foreground", "show"}, conditions |-> <<Class(c)>>]
ByTitle(t)    == [trigger |-> {"foreground"}, conditions |-> <<Title(t)>>]
ByBoth(c, t)  == [trigger |-> {"show"}, conditions |-> <<Class(c), Title(t)>>]

Sets == {<<ByTitle(t1), ByClass(c1)>>, <<ByBoth(c1, EmptyTitle), ByClass(c1)>>}

=============================================================================
