----------------------------- MODULE MCPipeline -----------------------------
(***************************************************************************)
(* Small instances of Pipeline for TLC: the outputs of NewDefault behind   *)
(* processors that force, tag and rewrite, the Recorder with one that      *)
(* logs, and messages that differ in what these make of them.              *)
(***************************************************************************)
EXTENDS Pipeline

Message(l, flg, names, txt) ==
    [level |-> l, flag |-> flg, names |-> names, text |-> txt]

SomeMessages ==
    {Message(2, "None", {}, <<"body", "cr", "lf">>),
     Message(2, "Skip", {}, <<"body", "lf", "body">>),
     Message(4, "None", {"Prefixer", "ForceBasedOnLevel", "MuteBasedOnLevel",
                         "PrintOnlyAtLevel", "Suffixer"}, <<"lf">>)}

Report == Message(3, "None", {}, <<"body", "lf">>)

Env(l, ol, col) == [set |-> TRUE, L |-> l, OL |-> ol, COL |-> col]

Matching == Env(2, 4, NoEntry)

Unmatched == Env(NoEntry, NoEntry, NoEntry)

SomeEnvironments == {Unset, Matching, Unmatched}

NoEnvironment == {Unset}

Setup(k, ps, l, fmt, e, ws) ==
    [kind |-> k, processors |-> ps, maxLevel |-> l, formatter |-> fmt,
     env |-> e, writers |-> ws]

One == {CHOOSE w \in Writers : TRUE}

PlainSetups ==
    {Setup("Console", <<Prefixer, Flagger("Force"), Router("Console")>>, 4, "text", Unset, One),
     Setup("StdErr", <<ForceBasedOnLevel({4}), Tagger, Router("StdErr")>>, 2, "nil", Unset, One),
     Setup("Buffer", <<Reporter, Suffixer, PrintOnlyIfTagged>>, 4, "text", Unset, One)}

CallingRecorders == {Setup("Recorder", <<Reporter>>, 4, "text", Unset, One)}

SharedRecorder ==
    Setup("Recorder", <<PrefixBasedOnMaskExceptForLevels({4})>>, 2, "nil", Matching, Writers)

SomeSetups ==
    PlainSetups \cup CallingRecorders \cup {SharedRecorder}
        \cup {[s EXCEPT !.env = e] : s \in PlainSetups, e \in SomeEnvironments}

SomeSpares == {PrintOnlyIfNotTaggedWith, Flagger("Skip"), ErrorSimulator}
=============================================================================
