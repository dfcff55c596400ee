------------------------------ MODULE Pipeline ------------------------------
(***************************************************************************)
(* One output at work (output/output.go), from the copy a logger hands it, *)
(* or a direct call, to the line its writer gets: names, line breaks,      *)
(* processors, the decision to write, the formatter, the writer.           *)
(*                                                                         *)
(* Several goroutines write at the same time, and others reconfigure the   *)
(* output: its lock is taken and released for every single setting that    *)
(* is read.  A processor may log through the same output, as the counters  *)
(* of Dedup and RateLimit are allowed to.  The output is a plain one, one  *)
(* of the pair NewDefault builds, or the Recorder, which holds a mutex     *)
(* while its inner output runs.                                            *)
(***************************************************************************)
EXTENDS Integers, Sequences, SequencesExt

CONSTANTS
    Writers,        \* goroutines; those of a setup log one message each
    Levels,         \* levels in use; 0 is None, 1 Fatal, 2 Error
    Messages,       \* what is logged
    Notice,         \* what a processor logs
    Setups,         \* the outputs to begin with
    Spares,         \* processors that may be added, or replace others
    Environments,   \* values of SYPL_LEVEL
    MaxChanges      \* bound: reconfigurations

Flags == {"None", "Force", "Mute", "Skip", "SkipAndForce", "SkipAndMute"}

Skipping == {"Skip", "SkipAndForce", "SkipAndMute"}

Forcing == {"Force", "SkipAndForce"}

Muting == {"Mute", "SkipAndMute"}

Errors == {1, 2} \cap Levels

(* Texts are sequences of the parts that are told apart.                   *)
Breaks == {"cr", "lf"}

Parts == Breaks \cup {"body", "pre", "post", "format"}

----------------------------------------------------------------------------
(* Processors: what they do to the flag, the tags and the text of messages *)
(* at some levels.                                                         *)

Flagging == {"flagAt", "flagElsewhere", "flagTagged", "flagUntagged"}

Ops == Flagging \cup {"tag", "prefix", "suffix", "fail", "log"}

Processor(op, name, levels, flag) ==
    [op |-> op, name |-> name, levels |-> levels, flag |-> flag]

AnyProcessor == [op : Ops, name : STRING, levels : SUBSET Levels, flag : Flags]

ForceBasedOnLevel(levels) == Processor("flagAt", "ForceBasedOnLevel", levels, "Force")

Flagger(flag) == Processor("flagAt", "Flagger", Levels, flag)

MuteBasedOnLevel(levels) == Processor("flagAt", "MuteBasedOnLevel", levels, "Mute")

PrintOnlyAtLevel(levels) == Processor("flagElsewhere", "PrintOnlyAtLevel", levels, "Mute")

PrintOnlyIfTagged == Processor("flagUntagged", "PrintOnlyIfTagged", Levels, "Mute")

PrintOnlyIfNotTaggedWith == Processor("flagTagged", "PrintOnlyIfNotTaggedWith", Levels, "Mute")

Tagger == Processor("tag", "Tagger", Levels, "None")

Prefixer == Processor("prefix", "Prefixer", Levels, "None")

PrefixBasedOnMaskExceptForLevels(levels) ==
    Processor("prefix", "PrefixBasedOnMaskExceptForLevels", Levels \ levels, "None")

Suffixer == Processor("suffix", "Suffixer", Levels, "None")

ErrorSimulator == Processor("fail", "ErrorSimulator", Levels, "None")

\* A processor that calls back, as Dedup and RateLimit do.
Reporter == Processor("log", "Reporter", Levels, "None")

\* The processor NewDefault puts last.
Router(k) ==
    IF k = "Console" THEN MuteBasedOnLevel(Errors) ELSE PrintOnlyAtLevel(Errors)

Applies(p, m) ==
    CASE p.op = "flagElsewhere" -> m.level \notin p.levels
      [] p.op = "flagTagged"    -> m.tagged
      [] p.op = "flagUntagged"  -> ~m.tagged
      [] OTHER                  -> m.level \in p.levels

\* Faulty variant: a flag that is set stays.
ApplyFirstFlag(p, m) ==
    CASE ~Applies(p, m)                  -> m
      [] Applies(p, m) /\ p.op = "tag"   -> [m EXCEPT !.tagged = TRUE]
      [] Applies(p, m) /\ p.op \in Flagging /\ m.flag = "None"
                                         -> [m EXCEPT !.flag = p.flag]
      [] OTHER                           -> m

\* RunFunc of the processor, what it does to flag and tags; its error is
\* logged, and the pipeline goes on.
Apply(p, m) ==
    CASE ~Applies(p, m)                  -> m
      [] Applies(p, m) /\ p.op = "tag"   -> [m EXCEPT !.tagged = TRUE]
      [] Applies(p, m) /\ p.op \in Flagging
                                         -> [m EXCEPT !.flag = p.flag]
      [] OTHER                           -> m

\* And to the text.
Rewrite(p, m, t) ==
    CASE Applies(p, m) /\ p.op = "prefix" -> <<"pre">> \o t
      [] Applies(p, m) /\ p.op = "suffix" -> t \o <<"post">>
      [] OTHER                            -> t

----------------------------------------------------------------------------
(* SYPL_LEVEL: the level it names for all outputs, for this output, and    *)
(* for this output of this component.                                      *)

NoEntry == -1

\* The message carries no matchers.
NoDebug == -2

Entries == Levels \cup {0, NoEntry}

Unset == [set |-> FALSE, L |-> NoEntry, OL |-> NoEntry, COL |-> NoEntry]

AnyEnvironment == [set : BOOLEAN, L : Entries, OL : Entries, COL : Entries]

\* Debug.Level: the last matcher that matches wins.
Override(e) ==
    IF e.COL # NoEntry THEN e.COL ELSE IF e.OL # NoEntry THEN e.OL ELSE e.L

----------------------------------------------------------------------------
Frames == Writers \X {1, 2}     \* the second one is called by a processor

Outer(f) == <<f[1], 1>>

Inner(f) == <<f[1], 2>>

\* What is logged: the message, and the text it begins with.
Given == [level : Levels \cup {0}, flag : Flags, names : SUBSET STRING,
          text : Seq(Parts)]

Header == [level : Levels \cup {0}, flag : Flags, tagged : BOOLEAN,
           names : SUBSET STRING, debug : Entries \cup {NoDebug}]

New(m) == [level |-> m.level, flag |-> m.flag, tagged |-> FALSE,
           names |-> m.names, debug |-> NoDebug]

Kinds == {"Buffer", "Console", "StdErr", "Recorder"}

\* The processors of an output have different names: the code does not check
\* it, and addresses them by name.
Distinct(ps) == \A i, j \in DOMAIN ps : ps[i].name = ps[j].name => i = j

ASSUME PipelineAssumption ==
    /\ Levels \subseteq Nat \ {0}
    /\ Messages \cup {Notice} \subseteq Given
    /\ Spares \subseteq AnyProcessor
    /\ \A s \in Setups :
          /\ s.kind \in Kinds /\ s.maxLevel \in Levels
          /\ s.formatter \in {"nil", "text"} /\ s.env \in Environments
          /\ s.writers \subseteq Writers
          /\ s.processors \in Seq(AnyProcessor) /\ Distinct(s.processors)
    /\ Unset \in Environments /\ Environments \subseteq AnyEnvironment
    /\ MaxChanges \in Nat

VARIABLES
    \* The output, its processors' status, and the environment.
    kind, processors, disabled, maxLevel, formatter, env,
    \* The Recorder.
    writeMu, pending, records,
    \* The goroutines.
    pc, msg, todo, limit,
    text, chars,    \* of the message; the line breaks taken off it
    life,           \* of the process: a panic is nobody's to recover
    \* History.
    given,          \* the message as it was handed over
    direct,         \* the frames that got it from the application, not from a logger
    list,           \* the processors at that time
    stable,         \* those of them nobody has touched since
    ran,            \* the processors that were run
    outcome, line,
    expected,       \* what was written since the records were discarded
    changes

outputVars == <<kind, processors, disabled, maxLevel, formatter, env>>
recorderVars == <<writeMu, pending, records>>
textVars == <<text, chars>>
frameVars == <<pc, msg, todo, limit, textVars>>
historyVars == <<given, direct, list, stable, ran, outcome, line, expected>>

vars == <<outputVars, recorderVars, frameVars, life, historyVars, changes>>

NoFrame == <<"none", 0>>

At(f, label) == life = "running" /\ pc[f] = label

Goto(f, label) == pc' = [pc EXCEPT ![f] = label]

----------------------------------------------------------------------------
(* A message arrives.                                                      *)

Begin(f, m) ==
    /\ msg' = [msg EXCEPT ![f] = New(m)]
    /\ text' = [text EXCEPT ![f] = m.text]
    /\ chars' = [chars EXCEPT ![f] = <<>>]
    /\ outcome' = [outcome EXCEPT ![f] = "none"]
    /\ given' = [given EXCEPT ![f] = m]
    /\ list' = [list EXCEPT ![f] = processors]
    /\ stable' = [stable EXCEPT ![f] = ToSet(processors)]

Receive(w, label) ==
    /\ At(<<w, 1>>, "idle")
    /\ \E m \in Messages : Begin(<<w, 1>>, m)
    /\ Goto(<<w, 1>>, label)
    /\ ran' = [ran EXCEPT ![<<w, 1>>] = <<>>]
    /\ direct' = IF label = "write" THEN direct \cup {<<w, 1>>} ELSE direct
    /\ UNCHANGED <<outputVars, recorderVars, todo, limit, life, line, expected,
                   changes>>

\* processOutputs hands over a copy of the message.
Log(w) == Receive(w, "dispatch")

\* Output.Write called by the application.
WriteDirectly(w) == Receive(w, "write")

\* Only while SYPL_LEVEL is set does the copy get its matchers.
LookForDebug(f) ==
    /\ At(f, "dispatch")
    /\ Goto(f, IF env.set THEN "matching" ELSE "write")
    /\ UNCHANGED <<outputVars, recorderVars, msg, textVars, todo, limit, life,
                   historyVars, changes>>

NewDebug(f) ==
    /\ At(f, "matching")
    /\ msg' = [msg EXCEPT ![f].debug = Override(env)]
    /\ Goto(f, "write")
    /\ UNCHANGED <<outputVars, recorderVars, textVars, todo, limit, life,
                   historyVars, changes>>

----------------------------------------------------------------------------
(* Write, up to the processors.                                            *)

\* Faulty variant: the Recorder takes no mutex.
EnterUnlocked(f) ==
    /\ At(f, "write")
    /\ writeMu' = IF kind = "Recorder" THEN f ELSE writeMu
    /\ pending' = IF kind = "Recorder" THEN f ELSE pending
    /\ Goto(f, "names")
    /\ UNCHANGED <<outputVars, records, msg, textVars, todo, limit, life,
                   historyVars, changes>>

\* RecorderOutput.Write takes its mutex first; other outputs start at once.
Enter(f) ==
    /\ At(f, "write")
    /\ kind = "Recorder" => writeMu = NoFrame
    /\ writeMu' = IF kind = "Recorder" THEN f ELSE writeMu
    /\ pending' = IF kind = "Recorder" THEN f ELSE pending
    /\ Goto(f, "names")
    /\ UNCHANGED <<outputVars, records, msg, textVars, todo, limit, life,
                   historyVars, changes>>

NamesOf(ps) == {ps[i].name : i \in DOMAIN ps}

\* The length of the text without the line breaks at its end.
Body(t) ==
    CHOOSE n \in 0..Len(t) :
        /\ n = 0 \/ t[n] \notin Breaks
        /\ \A i \in (n + 1)..Len(t) : t[i] \in Breaks

\* Message.Strip keeps what it strips in the order it strips it.
Strip(f) ==
    LET n == Body(text[f]) IN
    /\ text' = [text EXCEPT ![f] = SubSeq(@, 1, n)]
    /\ chars' = [chars EXCEPT ![f] = @ \o Reverse(SubSeq(text[f], n + 1, Len(text[f])))]

\* Faulty variant: in the order they were stripped, once a bug of the code.
RestoreUnreversed(f) == text[f] \o chars[f]

\* Message.Restore.
Restore(f) == text[f] \o Reverse(chars[f])

ReadNames(f) ==
    /\ At(f, "names")
    /\ msg' = [msg EXCEPT ![f].names = IF @ = {} THEN NamesOf(processors) ELSE @]
    /\ Strip(f)
    /\ Goto(f, "list")
    /\ UNCHANGED <<outputVars, recorderVars, todo, limit, life, historyVars,
                   changes>>

\* processProcessors: the flag is looked at once, before the first processor.
ReadProcessors(f) ==
    /\ At(f, "list")
    /\ todo' = [todo EXCEPT ![f] = IF msg[f].flag \in Skipping THEN <<>> ELSE processors]
    /\ Goto(f, "running")
    /\ UNCHANGED <<outputVars, recorderVars, msg, textVars, limit, life, historyVars,
                   changes>>

\* Named, and enabled by the time it is its turn.
Runs(f, p) == p.name \in msg[f].names /\ p \notin disabled

Next1(f) == Head(todo[f])

Calls(f) == f = Outer(f) /\ Runs(f, Next1(f)) /\ Next1(f).op = "log"

RunProcessor(f) ==
    /\ At(f, "running")
    /\ todo[f] # <<>>
    /\ ~Calls(f)
    /\ todo' = [todo EXCEPT ![f] = Tail(@)]
    /\ msg' = [msg EXCEPT ![f] = IF Runs(f, Next1(f)) THEN Apply(Next1(f), @) ELSE @]
    /\ text' = [text EXCEPT ![f] = IF Runs(f, Next1(f))
                                   THEN Rewrite(Next1(f), msg[f], @) ELSE @]
    /\ ran' = [ran EXCEPT ![f] = IF Runs(f, Next1(f)) THEN Append(@, Next1(f)) ELSE @]
    /\ UNCHANGED <<outputVars, recorderVars, pc, chars, limit, life, given, direct,
                   list, stable, outcome, line, expected, changes>>

\* The processor logs through the same output, in another goroutine of
\* process, and waits for it.
CallBack(f) ==
    /\ At(f, "running")
    /\ todo[f] # <<>>
    /\ Calls(f)
    /\ Begin(Inner(f), Notice)
    /\ pc' = [pc EXCEPT ![f] = "calling", ![Inner(f)] = "dispatch"]
    /\ todo' = [todo EXCEPT ![f] = Tail(@)]
    /\ ran' = [ran EXCEPT ![f] = Append(@, Next1(f)), ![Inner(f)] = <<>>]
    /\ UNCHANGED <<outputVars, recorderVars, limit, life, direct, line, expected,
                   changes>>

CalledBack(f) ==
    /\ At(f, "calling")
    /\ pc[Inner(f)] = "returned"
    /\ Goto(f, "running")
    /\ UNCHANGED <<outputVars, recorderVars, msg, textVars, todo, limit, life,
                   historyVars, changes>>

----------------------------------------------------------------------------
(* The decision to write.                                                  *)

ReadMaxLevel(f) ==
    /\ At(f, "running")
    /\ todo[f] = <<>>
    /\ \/ /\ msg[f].flag \in Forcing
          /\ Goto(f, "check")
          /\ UNCHANGED limit
       \/ /\ msg[f].flag \notin Forcing
          /\ limit' = [limit EXCEPT ![f] = maxLevel]
          /\ Goto(f, "env")
    /\ UNCHANGED <<outputVars, recorderVars, msg, textVars, todo, life, historyVars,
                   changes>>

Passes(m, max) == m.level # 0 /\ m.level <= max /\ m.flag \notin Muting

\* SYPL_LEVEL is looked at again; a message without matchers then brings the
\* process down.
Decide(f) ==
    LET max == IF env.set /\ msg[f].debug # NoEntry THEN msg[f].debug ELSE limit[f] IN
    /\ At(f, "env")
    /\ IF env.set /\ msg[f].debug = NoDebug
       THEN life' = "panicked" /\ Goto(f, "panicked") /\ UNCHANGED outcome
       ELSE IF Passes(msg[f], max)
       THEN Goto(f, "check") /\ UNCHANGED <<life, outcome>>
       ELSE /\ Goto(f, "leave")
            /\ outcome' = [outcome EXCEPT ![f] = "held"]
            /\ UNCHANGED life
    /\ UNCHANGED <<outputVars, recorderVars, msg, textVars, todo, limit, given,
                   direct, list, stable, ran, line, expected, changes>>

----------------------------------------------------------------------------
(* write: the formatter is read once to see whether there is one, and      *)
(* again to run it.                                                        *)

CheckFormatter(f) ==
    /\ At(f, "check")
    /\ Goto(f, IF formatter = "nil" \/ msg[f].flag \in Skipping THEN "emit" ELSE "format")
    /\ UNCHANGED <<outputVars, recorderVars, msg, textVars, todo, limit, life,
                   historyVars, changes>>

Format(f) ==
    /\ At(f, "format")
    /\ \/ /\ formatter = "nil"
          /\ life' = "panicked"
          /\ Goto(f, "panicked")
          /\ UNCHANGED text
       \/ /\ formatter # "nil"
          /\ text' = [text EXCEPT ![f] = <<"format">> \o @]
          /\ Goto(f, "emit")
          /\ UNCHANGED life
    /\ UNCHANGED <<outputVars, recorderVars, msg, chars, todo, limit, historyVars, changes>>

\* A broken pipe and a closed writer are no errors to the caller.
Outcomes == IF kind = "Recorder" THEN {"written"} ELSE {"written", "dropped", "error"}

\* One call of the writer, under the mutex of the built-in logger.  The
\* Recorder's writer takes down the message that is pending.
Emit(f) ==
    LET restored == Restore(f) IN
    /\ At(f, "emit")
    /\ \E result \in Outcomes : outcome' = [outcome EXCEPT ![f] = result]
    /\ line' = [line EXCEPT ![f] = restored]
    /\ records' = IF pending = NoFrame THEN records
                  ELSE records \cup {[of |-> pending, text |-> restored]}
    /\ expected' = IF kind # "Recorder" THEN expected
                   ELSE expected \cup {[of |-> f, text |-> restored]}
    /\ Goto(f, "leave")
    /\ UNCHANGED <<outputVars, writeMu, pending, msg, textVars, todo, limit, life,
                   given, direct, list, stable, ran, changes>>

\* Faulty variant: only a Write that writes nothing releases the mutex.
LeaveLocked(f) ==
    /\ At(f, "leave")
    /\ Goto(f, "returned")
    /\ writeMu' = IF outcome[f] = "held" THEN NoFrame ELSE writeMu
    /\ pending' = IF outcome[f] = "held" THEN NoFrame ELSE pending
    /\ UNCHANGED <<outputVars, records, msg, textVars, todo, limit, life,
                   historyVars, changes>>

\* Both are released and cleared on the way out.
Leave(f) ==
    /\ At(f, "leave")
    /\ Goto(f, "returned")
    /\ writeMu' = IF kind = "Recorder" THEN NoFrame ELSE writeMu
    /\ pending' = IF kind = "Recorder" THEN NoFrame ELSE pending
    /\ UNCHANGED <<outputVars, records, msg, textVars, todo, limit, life,
                   historyVars, changes>>

----------------------------------------------------------------------------
(* Reconfiguration; the Recorder's proxy passes it on.                     *)

Change == life = "running" /\ changes < MaxChanges /\ changes' = changes + 1

\* Processors in ps have been touched.
Touch(ps) == stable' = [f \in Frames |-> stable[f] \ ps]

SetMaxLevel ==
    /\ Change
    /\ \E l \in Levels : maxLevel' = l
    /\ UNCHANGED <<kind, processors, disabled, formatter, env, recorderVars,
                   frameVars, life, historyVars>>

SetFormatter ==
    /\ Change
    /\ formatter' \in {"nil", "text"}
    /\ UNCHANGED <<kind, processors, disabled, maxLevel, env, recorderVars,
                   frameVars, life, historyVars>>

AddProcessors ==
    /\ Change
    /\ \E p \in Spares :
          /\ p.name \notin NamesOf(processors)
          /\ processors' = Append(processors, p)
    /\ UNCHANGED <<kind, disabled, maxLevel, formatter, env, recorderVars,
                   frameVars, life, historyVars>>

\* Faulty variant: the replacement goes to the end.
ReplacedLast(p) ==
    Append(SelectSeq(processors, LAMBDA q : q.name # p.name), p)

\* In place of the one of the same name, on a copy of the list.
Replaced(p) ==
    [i \in DOMAIN processors |-> IF processors[i].name = p.name THEN p ELSE processors[i]]

SetProcessors ==
    /\ Change
    /\ \E p \in Spares :
          /\ p.name \in NamesOf(processors)
          /\ processors' = Replaced(p)
          /\ Touch({q \in ToSet(processors) : q.name = p.name /\ q # p})
    /\ UNCHANGED <<kind, disabled, maxLevel, formatter, env, recorderVars,
                   frameVars, life, given, direct, list, ran, outcome, line,
                   expected>>

SetStatus ==
    /\ Change
    /\ \E p \in ToSet(processors) :
          /\ disabled' = IF p \in disabled THEN disabled \ {p} ELSE disabled \cup {p}
          /\ Touch({p})
    /\ UNCHANGED <<kind, processors, maxLevel, formatter, env, recorderVars,
                   frameVars, life, given, direct, list, ran, outcome, line,
                   expected>>

Setenv ==
    /\ Change
    /\ env' \in Environments
    /\ UNCHANGED <<kind, processors, disabled, maxLevel, formatter,
                   recorderVars, frameVars, life, historyVars>>

\* RecorderOutput.Reset.
Reset ==
    /\ life = "running"
    /\ kind = "Recorder"
    /\ records # {}
    /\ records' = {}
    /\ expected' = {}
    /\ UNCHANGED <<outputVars, writeMu, pending, frameVars, life, given, direct,
                   list, stable, ran, outcome, line, changes>>

----------------------------------------------------------------------------
Init ==
    /\ \E s \in Setups :
          /\ kind = s.kind /\ processors = s.processors
          /\ maxLevel = s.maxLevel /\ formatter = s.formatter /\ env = s.env
          /\ pc = [f \in Frames |-> IF f[1] \in s.writers THEN "idle" ELSE "absent"]
    /\ disabled = {}
    /\ writeMu = NoFrame
    /\ pending = NoFrame
    /\ records = {}
    /\ msg = [f \in Frames |-> New(Notice)]
    /\ text = [f \in Frames |-> <<>>]
    /\ chars = [f \in Frames |-> <<>>]
    /\ todo = [f \in Frames |-> <<>>]
    /\ limit = [f \in Frames |-> 0]
    /\ life = "running"
    /\ given = [f \in Frames |-> Notice]
    /\ direct = {}
    /\ list = [f \in Frames |-> <<>>]
    /\ stable = [f \in Frames |-> {}]
    /\ ran = [f \in Frames |-> <<>>]
    /\ outcome = [f \in Frames |-> "none"]
    /\ line = [f \in Frames |-> <<>>]
    /\ expected = {}
    /\ changes = 0

FrameStep(f) ==
    \/ LookForDebug(f) \/ NewDebug(f) \/ Enter(f) \/ ReadNames(f)
    \/ ReadProcessors(f) \/ RunProcessor(f) \/ CallBack(f) \/ CalledBack(f)
    \/ ReadMaxLevel(f) \/ Decide(f) \/ CheckFormatter(f) \/ Format(f)
    \/ Emit(f) \/ Leave(f)

Reconfigure ==
    \/ SetMaxLevel \/ SetFormatter \/ AddProcessors \/ SetProcessors
    \/ SetStatus \/ Setenv \/ Reset

Next ==
    \/ \E w \in Writers : Log(w) \/ WriteDirectly(w)
    \/ \E f \in Frames : FrameStep(f)
    \/ Reconfigure

Spec == Init /\ [][Next]_vars

\* Every goroutine is scheduled.
Fairness == \A f \in Frames : WF_vars(FrameStep(f))

FairSpec == Spec /\ Fairness

----------------------------------------------------------------------------
(* Properties.                                                             *)

Labels == {"absent", "idle", "dispatch", "matching", "write", "names", "list",
           "running", "calling", "env", "check", "format", "emit", "leave",
           "returned", "panicked"}

Inside == {"names", "list", "running", "calling", "env", "check", "format",
           "emit", "leave", "panicked"}

\* Every variable keeps its type.  The Recorder's mutex is held by the one
\* goroutine that is inside Write, whose message is the pending one.
TypeOK ==
    /\ kind \in Kinds /\ processors \in Seq(AnyProcessor)
    /\ disabled \subseteq AnyProcessor /\ maxLevel \in Levels
    /\ formatter \in {"nil", "text"} /\ env \in Environments
    /\ pc \in [Frames -> Labels] /\ msg \in [Frames -> Header]
    /\ todo \in [Frames -> Seq(AnyProcessor)] /\ limit \in [Frames -> Levels \cup {0}]
    /\ life \in {"running", "panicked"}
    /\ given \in [Frames -> Given] /\ direct \subseteq Frames
    /\ stable \in [Frames -> SUBSET AnyProcessor]
    /\ ran \in [Frames -> Seq(AnyProcessor)]
    /\ changes \in 0..MaxChanges
    /\ writeMu \in Frames \cup {NoFrame} /\ pending = writeMu
    /\ kind = "Recorder" => \A f \in Frames : pc[f] \in Inside <=> writeMu = f

Processed(f) ==
    /\ pc[f] \in {"env", "check", "format", "emit", "leave", "returned"}
    /\ given[f].flag \notin Skipping

Before(p, q) ==
    \A a, b \in DOMAIN processors :
        processors[a].name = p.name /\ processors[b].name = q.name => a < b

\* The message names the processor, or none at all.
Names(m, p) == m.names = {} \/ p.name \in m.names

\* A message has been run, once each and in the order of the list, through
\* the processors that were registered and enabled all the while and that it
\* names, and through none of those that were disabled; whatever is added,
\* replaced and switched in the meantime.
RunsInOrder ==
    \A f \in Frames :
        /\ \A i, j \in DOMAIN ran[f] : i < j => Before(ran[f][i], ran[f][j])
        /\ Processed(f) => \A p \in stable[f] :
              p \in ToSet(ran[f]) <=> p \notin disabled /\ Names(given[f], p)

\* The processor NewDefault put last has had its say about the message.
Routed(f) ==
    /\ kind \in {"Console", "StdErr"}
    /\ list[f] # <<>> /\ Last(list[f]) = Router(kind)
    /\ Router(kind) \in stable[f] \ disabled
    /\ Names(given[f], Router(kind))
    /\ ToSet(ran[f]) \subseteq ToSet(list[f])
    /\ given[f].flag \notin Skipping

\* Errors appear on the error output only and everything else on the console
\* only, whatever other processors do to the flag before; except for messages
\* that skip the processors.
RoutedOnce ==
    \A f \in Frames : Routed(f) /\ outcome[f] \notin {"none", "held"} =>
        (kind = "StdErr" <=> given[f].level \in Errors)

Ending(t) == SubSeq(t, Body(t) + 1, Len(t))

\* In the line l the body of the text t is whole, and no other part of what
\* comes before the end breaks the line.
Surrounds(l, t) ==
    \E i \in 0..(Body(l) - Body(t)) :
        /\ \A k \in 1..Body(t) : l[i + k] = t[k]
        /\ \A k \in 1..Body(l) : k \in (i + 1)..(i + Body(t)) \/ l[k] \notin Breaks

\* A line ends with the line breaks the message came with, in their order,
\* and has no others than the text inside it, which stays in one piece,
\* whatever processors and formatter put around it.
LinesTrue ==
    \A f \in Frames : outcome[f] \notin {"none", "held"} =>
        /\ Ending(line[f]) = Ending(given[f].text)
        /\ Surrounds(line[f], given[f].text)

\* The Recorder has recorded every line written since it was reset, and no
\* other, each with the message it was made of, whoever writes meanwhile.
RecordsTrue == records = expected

\* A goroutine that holds the Recorder's mutex and waits for a message it
\* logs itself.
Stuck == \E f \in Frames : f = Outer(f) /\ writeMu = f /\ pc[Inner(f)] = "write"

\* A step of the frame is enabled: it is on its way, and waits neither for the
\* mutex nor for a message its processor has logged.
CanGo(f) ==
    /\ life = "running"
    /\ pc[f] \notin {"absent", "idle", "returned", "panicked"}
    /\ pc[f] = "write" /\ kind = "Recorder" => writeMu = NoFrame
    /\ pc[f] = "calling" => pc[Inner(f)] = "returned"

\* Whoever writes can go on, or waits for one that can: the goroutine that
\* holds the Recorder's mutex, or the message a processor of either has logged;
\* unless a processor logs to the Recorder it runs in.
NobodyInACircle ==
    life = "running" /\ ~Stuck => \A f \in Frames :
        pc[f] \notin {"absent", "idle", "returned"} =>
            \E g \in {f, Inner(f), writeMu, Inner(writeMu)} \cap Frames : CanGo(g)

\* The Recorder's mutex keeps the records apart, and locks nobody out.
RecorderWorks == RecordsTrue /\ NobodyInACircle

\* As long as nobody reconfigures it, an output brings the process down for
\* one reason only: the application hands it a message directly, without the
\* matchers a logger adds, while SYPL_LEVEL is set.
PanicsOnlyWithoutMatchers ==
    life = "panicked" /\ changes = 0 =>
        env.set /\ \E f \in direct : pc[f] = "panicked" /\ msg[f].debug = NoDebug

\* Every write returns, unless a processor logs to the Recorder it runs in or
\* the process panics, which takes more than a logger's message to happen.
WritesReturn ==
    /\ []PanicsOnlyWithoutMatchers
    /\ \A w \in Writers : pc[<<w, 1>>] = "write" ~>
           pc[<<w, 1>>] = "returned" \/ life = "panicked" \/ Stuck

\* The lock of the output is there to allow "the output to be safely
\* reconfigured while logging" (output/output.go:36-37).
ReconfiguredSafely == life = "running"
=============================================================================
