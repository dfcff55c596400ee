------------------------------ MODULE MCBridge ------------------------------
(* Small trees of handlers, and a logger with two bridges.                  *)
EXTENDS Bridge, TLC

CONSTANTS c1, c2, v1, v2, nil

TwoCallers == {c1, c2}

a == <<"a">>
b == <<"b">>
ab == <<"a", "b">>     \* the string "a.b"

Leaf(k, v) == [key |-> k, value |-> v, group |-> FALSE, members |-> <<>>]
Group(k, as) == [key |-> k, value |-> nil, group |-> TRUE, members |-> as]

b1 == Leaf(b, v1)
b2 == Leaf(b, v2)
dotted == Leaf(ab, v2)
zero == Leaf(Blank, nil)
unnamed == Leaf(Blank, v1)
inline == Group(Blank, <<b2, zero>>)
nothing == Group(a, <<>>)
nested == Group(a, <<b1, Group(b, <<b2, nothing>>), inline>>)

SomeAttrs == {b1, b2, dotted, zero, unnamed, inline, nothing, nested, Group(b, <<b2, nothing>>)}

SomeLevels == {-8, -4, 0, 2, 4, 8, 12}

Plain == [lists |-> {}, names |-> {}, records |-> {}, messages |-> {},
          floors |-> {-8}, maxLevels |-> {6}, flags |-> {"None"}, handlers |-> 0,
          slogLevels |-> {0}, callers |-> {c1}, changes |-> 0,
          enabled |-> Outputs]

Record(l, as) == [level |-> l, attrs |-> as]

\* Siblings made at the same time.
Siblings == [Plain EXCEPT !.lists = {<<nested>>, <<dotted>>}, !.handlers = 2,
                          !.callers = TwoCallers]

\* A record that is handled while handlers are made of its handler.
Derived == [Plain EXCEPT !.lists = {<<nested>>}, !.names = {a}, !.handlers = 1,
                         !.records = {Record(0, <<b2>>)}, !.callers = TwoCallers,
                         !.enabled = {2}]

\* Groups opened before attributes, and after them.
Grouped == [Plain EXCEPT !.lists = {<<b1, nothing>>, <<dotted>>}, !.names = {a, ab},
                         !.records = {Record(0, <<b2, zero>>)}, !.handlers = 3]

\* All the attributes, in a record.
Recorded == [Plain EXCEPT !.names = {a}, !.handlers = 1,
                          !.records = {Record(2, <<x, y>>) : x, y \in SomeAttrs}]

Levelled == [Plain EXCEPT !.records = {Record(l, <<b1>>) : l \in SomeLevels},
                          !.floors = {-8, 4}, !.maxLevels = {2, 4},
                          !.slogLevels = {-8, 0, 8}, !.changes = 1]

Direct == [Plain EXCEPT !.messages = {[level |-> l, flag |-> f, fields |-> [k \in {a} |-> v1]] :
                                        l \in Levels, f \in Flags},
                          !.maxLevels = {4}, !.flags = {"None", "Force", "Mute"},
                           !.slogLevels = {0, 4}, !.changes = 1]

SomeSetups == {Siblings, Derived, Grouped, Recorded, Levelled, Direct}
=============================================================================
