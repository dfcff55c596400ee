----------------------------- MODULE MCLoggers -----------------------------
(* Small families of loggers, each setup around one of the hazards.         *)
EXTENDS Loggers, TLC

CONSTANTS r, s, c1, c2, k1, k2, v1, v2, a1, t1, t2, missing

Family == {r, s}
TwoCallers == {c1, c2}
SomeOutputs == {[name |-> n, number |-> i] : n \in {"x", "y"}, i \in 1..2}
x1 == [name |-> "x", number |-> 1]
y1 == [name |-> "y", number |-> 1]
TheBadKey(i) == <<"!BADKEY", i>>
SomePairs == {<<k1, v1, k2>>, <<v1, k1, v2>>, <<k1, k1, k1, v2>>, <<k1, v1, v2, v1>>}
SomeFields == [k \in {k1} |-> v1]

Plain == [kind |-> "none", put |-> NoPut]
FromMap == [kind |-> "map", map |-> a1, put |-> NoPut]
IntoMap == [kind |-> "map", map |-> a1, put |-> Single(k2, v2)]
FromNil == [kind |-> "nil", put |-> NoPut]
FromPairs == {[kind |-> "pairs", pairs |-> p, put |-> NoPut] : p \in SomePairs}
FromContext == [kind |-> "context", put |-> NoPut]

Setup == [levelSet |-> FALSE, outputs |-> <<x1, y1>>, tags |-> <<>>, spare |-> 0,
          fields |-> Empty, map |-> Empty, ops |-> {}, sources |-> {Plain},
          names |-> {{}}, given |-> {{}}, marks |-> {}, changes |-> 2, prints |-> 1]

\* Parents and children reconfigured side by side.
Derived ==
    [Setup EXCEPT !.ops = {"New", "With", "SetFields", "SetTags", "AddOutputs", "SetOutputs",
                           "SetContextExtractor", "AppWrites"},
                  !.map = Single(k1, v1), !.changes = 4, !.prints = 0]

\* A message on its way while its logger is reconfigured.
Reconfigured ==
    [Setup EXCEPT !.ops = {"SetFields", "SetTags", "AddOutputs", "SetOutputs"},
                  !.fields = Single(k1, v1), !.map = Single(k2, v2), !.spare = 1,
                  !.sources = {Plain, FromMap}, !.names = {{}, {"y"}}, !.given = {{t1}}]

\* Two messages at once, and a map of the application they share.
Shared ==
    [Setup EXCEPT !.ops = {"SetFields", "PrintToOutput"},
                  !.map = Single(k1, v1), !.prints = 2, !.changes = 1,
                  !.sources = {Plain, IntoMap, FromNil}, !.names = {{}, {"y"}}]

\* A message printed again by another logger, and changed by its outputs.
Reused ==
    [Setup EXCEPT !.ops = {"With", "PrintAgain"}, !.marks = {Single(k1, v2)},
                  !.map = Single(k1, v1), !.fields = Single(k2, v2), !.given = {{t1}},
                  !.sources = {Plain, FromMap}, !.prints = 2, !.changes = 1]

Malformed ==
    [Setup EXCEPT !.ops = {"SetContextExtractor"}, !.fields = Single(k1, v2),
                  !.sources = FromPairs \cup {FromContext}, !.outputs = <<x1>>]

\* More component names than the cache has room for.
Levelled ==
    [Setup EXCEPT !.ops = {"New", "With"}, !.levelSet = TRUE, !.changes = 1, !.prints = 3]

SomeSetups == {Derived, Reconfigured, Shared, Reused, Malformed, Levelled}
NilSetups == {[Shared EXCEPT !.ops = {}, !.prints = 1, !.changes = 0, !.fields = Single(k1, v1)]}
=============================================================================
