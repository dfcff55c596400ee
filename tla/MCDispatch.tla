----------------------------- MODULE MCDispatch -----------------------------
(***************************************************************************)
(* Small instances of Dispatch for TLC: a handful of messages and of       *)
(* configurations that differ in what the gate, the levels, the names and  *)
(* the flags make of them.                                                 *)
(***************************************************************************)
EXTENDS Dispatch

CONSTANTS c1, c2, s1, s2

Message(l, f, n) == [level |-> l, flag |-> f, names |-> n]

Setup(n, s1On, levels, gate, h) ==
    [registered |-> n,
     status |-> [o \in Outputs |-> IF o = 1 /\ ~s1On THEN "Disabled" ELSE "Enabled"],
     maxLevel |-> levels, fastGate |-> gate, handler |-> h]

\* Fatal and Info (3) messages: plain, forced to one output, and muted.
SomeMessages ==
    {Message(1, "None", {}), Message(3, "None", {}),
     Message(3, "Force", {2}), Message(1, "SkipAndMute", {})}

\* The gate on, with the more verbose output disabled; the gate off, with one
\* output, a second one not yet added, and no error handler.
SomeSetups ==
    {Setup(2, FALSE, <<3, 1>>, "on", "set"),
     Setup(1, TRUE, <<3, 3>>, "off", "nil")}

Environment(f, set, levels) == [filter |-> f, levelSet |-> set, levels |-> levels]

NoLevels == [o \in Outputs |-> Unmatched]

Quiet == {Environment("unset", FALSE, NoLevels)}

\* Nothing is set; the logger is filtered out; SYPL_LEVEL holds down the first
\* output and raises the second.
SomeEnvironments ==
    Quiet \cup {Environment("excludes", FALSE, NoLevels),
                Environment("unset", TRUE, <<1, 3>>)}

FatalOnly == {Message(1, "None", {})}

OneOutput == {Setup(1, TRUE, <<3>>, "on", "set"), Setup(1, TRUE, <<1>>, "off", "nil")}
=============================================================================
