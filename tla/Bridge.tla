------------------------------- MODULE Bridge -------------------------------
(***************************************************************************)
(* The two ways between sypl and log/slog (package syplslog), back to      *)
(* back: slog handlers that print through a logger (handler.go), and       *)
(* outputs of that logger that forward to slog (output.go).                *)
(*                                                                         *)
(* Handlers are derived from handlers by several goroutines, WithAttrs and *)
(* WithGroup, while others log through them.  The memory of their slices   *)
(* is modelled, because siblings start from the same one.  A record, or a  *)
(* message of the application, is written to every output by a goroutine   *)
(* of its own; what the slog side gets is kept as history.                 *)
(***************************************************************************)
EXTENDS Integers, Slices, SequencesExt

CONSTANTS
    Callers,        \* goroutines that derive handlers, and log
    NumOutputs,     \* outputs of the logger, all of them bridges
    Parts,          \* strings without a dot
    Attrs,          \* attributes, with their values resolved
    Values, NoValue,
    Setups,         \* what the goroutines do, see BridgeAssumption
    SlogLevels      \* the slog levels in use

Outputs == 1..NumOutputs

Flags == {"None", "Force", "Mute", "Skip", "SkipAndForce", "SkipAndMute"}

Skipping == {"Skip", "SkipAndForce", "SkipAndMute"}

Forcing == {"Force", "SkipAndForce"}

Muting == {"Mute", "SkipAndMute"}

----------------------------------------------------------------------------
(* Levels of sypl: None, Fatal, Error, Warn, Info, Debug, Trace.           *)
Levels == 0..6

\* slog.LevelInfo, at which raw content is forwarded.
LevelInfo == 0

ToSyplLevel(l) ==
    CASE l < -4             -> 6
      [] -4 <= l /\ l < 0   -> 5
      [] 0 <= l /\ l < 4    -> 4
      [] 4 <= l /\ l < 8    -> 3
      [] OTHER              -> 2

ToSlogLevel(l) == IF l = 0 THEN LevelInfo ELSE 16 - 4 * l

\* What the round trip does to the level of a record, package documentation.
Standard(l) ==
    IF l < -4 THEN -8 ELSE CHOOSE s \in {-4, 0, 4, 8} :
                                s <= l /\ (s = 8 \/ l < s + 4)

----------------------------------------------------------------------------
(* Keys: a string is the sequence of what is between its dots.             *)
Texts == Seq(Parts)

Blank == <<"">>

joinKey(prefix, key) == IF prefix = Blank THEN key ELSE prefix \o key

\* strings.Join(groups, "."), none of which is blank.
Prefix(groups) == IF groups = <<>> THEN Blank ELSE FlattenSeq(groups)

Fields == [key : Texts, value : Values]

\* The last one of a key stays in the map.
AsMap(fs) ==
    [k \in {fs[i].key : i \in DOMAIN fs} |->
        fs[CHOOSE i \in DOMAIN fs : /\ fs[i].key = k
                                    /\ \A j \in DOMAIN fs : fs[j].key = k => j <= i].value]

Tasks == [prefix : Texts, attr : Attrs]

Under(prefix, as) == [i \in DOMAIN as |-> [prefix |-> prefix, attr |-> as[i]]]

\* The reference: all that an attribute says, by recursion over its groups.
Flatten[x \in Tasks] ==
    LET a == x.attr IN
    CASE a.members # <<>> ->
            FlattenSeq([i \in DOMAIN a.members |->
                Flatten[[prefix |-> IF a.key = Blank THEN x.prefix
                                    ELSE joinKey(x.prefix, a.key),
                         attr   |-> a.members[i]]]])
      [] a.group /\ a.members = <<>> -> <<>>
      [] OTHER -> IF a.key = Blank /\ a.value = NoValue THEN <<>>
                  ELSE <<[key |-> joinKey(x.prefix, a.key), value |-> a.value]>>

FlattenAll(prefix, as) == FlattenSeq([i \in DOMAIN as |-> Flatten[Under(prefix, as)[i]]])

----------------------------------------------------------------------------
Records == [level : SlogLevels, attrs : Seq(Attrs)]

IsMap(f) == /\ f = [k \in DOMAIN f |-> f[k]]
            /\ \A k \in DOMAIN f : k \in Texts /\ f[k] \in Values

IsMessage(m) == m.level \in Levels /\ m.flag \in Flags /\ IsMap(m.fields)

ASSUME BridgeAssumption ==
    /\ NumOutputs \in Nat \ {0}
    /\ SlogLevels \subseteq Int /\ LevelInfo \in SlogLevels
    /\ NoValue \in Values /\ "" \in Parts
    /\ \A a \in Attrs : /\ a.key \in Texts /\ a.value \in Values /\ a.group \in BOOLEAN
                        /\ a.members \in Seq(Attrs)
                        /\ a.members # <<>> => a.group
    \* Attributes are finite: of any of them, one is no group of the others.
    /\ \A S \in SUBSET Attrs : S # {} =>
          \E a \in S : \A i \in DOMAIN a.members : a.members[i] \notin S
    /\ \A s \in Setups :
          /\ s.lists \subseteq Seq(Attrs) \ {<<>>}      \* for WithAttrs
          /\ s.names \subseteq Texts \ {Blank}          \* for WithGroup
          /\ s.records \subseteq Records                \* for Handle
          /\ \A m \in s.messages : IsMessage(m)         \* of the application
          /\ s.floors \subseteq SlogLevels              \* HandlerWithLevel
          /\ s.maxLevels \subseteq Levels
          /\ s.flags \subseteq Flags                    \* set by processors
          /\ s.slogLevels \subseteq SlogLevels
          /\ s.callers \subseteq Callers
          /\ s.enabled \subseteq Outputs
          /\ s.handlers \in Nat                         \* bound: derived ones
          /\ s.changes \in Nat                          \* bound: reconfigurations

VARIABLES
    setup,
    \* The handlers: their slices, and the arrays below them.
    arrays, names, handlers, floor,
    \* The outputs, and their slog loggers.
    maxLevel, enabled, marks, slogLevel,
    \* The goroutines: the handler in use, the slices of the one being made,
    \* the record, its fields so far, the attributes left, the message.
    pc, of, mine, rec, flat, todo, at, msg,
    \* One write per output.
    wpc, flag, text,
    exited,
    \* History: what handlers were when they were returned, how they were
    \* derived, and what the slog side was asked to handle.
    meant, made, sunk,
    changes

handlerVars == <<arrays, names, handlers, meant, made>>
outputVars == <<maxLevel, enabled, slogLevel, changes>>
fixedVars == <<setup, floor, marks>>
callVars == <<pc, of, mine, rec, flat, todo, at, msg>>
writeVars == <<wpc, flag, text, sunk>>

vars == <<handlerVars, outputVars, fixedVars, callVars, writeVars, exited>>

At(c, label) == c \in setup.callers /\ ~exited /\ pc[c] = label

Goto(c, label) == pc' = [pc EXCEPT ![c] = label]

AttrsOf(h) == Elements(arrays, handlers[h].attrs)

GroupsOf(h) == Elements(names, handlers[h].groups)

NoMessage == [level |-> 0, flag |-> "None", fields |-> <<>>]

NoSlices == [attrs |-> NilSlice, groups |-> NilSlice]

NoRecord == [level |-> LevelInfo, attrs |-> <<>>]

\* What a call kept is gone when it returns.
Leave(c) ==
    /\ Goto(c, "idle")
    /\ of' = [of EXCEPT ![c] = 0]
    /\ mine' = [mine EXCEPT ![c] = NoSlices]
    /\ rec' = [rec EXCEPT ![c] = NoRecord]
    /\ at' = [at EXCEPT ![c] = 1]
    /\ msg' = [msg EXCEPT ![c] = NoMessage]
    /\ wpc' = [wpc EXCEPT ![c] = [o \in Outputs |-> "done"]]
    /\ flag' = [flag EXCEPT ![c] = [o \in Outputs |-> "None"]]
    /\ text' = [text EXCEPT ![c] = [o \in Outputs |-> "content"]]
    /\ sunk' = [sunk EXCEPT ![c] = [o \in Outputs |-> <<>>]]

----------------------------------------------------------------------------
(* Derivation.                                                             *)

\* Faulty variant: the new handler begins with the slices of the old one.
CloneShared(h, n, k) ==
    [attrs |-> handlers[h].attrs, groups |-> handlers[h].groups]

\* Copies, with room for n more attributes and k more groups.
Clone(h, n, k) ==
    [attrs |-> Fresh(arrays, AttrsOf(h), n), groups |-> Fresh(names, GroupsOf(h), k)]

Copied(h) == arrays' = Stored(arrays, AttrsOf(h))

CanDerive(c) == At(c, "idle") /\ Len(handlers) <= setup.handlers

\* An empty list returns the handler itself; others are taken in one by one.
WithAttrs(c) ==
    /\ CanDerive(c)
    /\ \E h \in DOMAIN handlers, list \in setup.lists :
          /\ of' = [of EXCEPT ![c] = h]
          /\ mine' = [mine EXCEPT ![c] = Clone(h, Len(list), 0)]
          /\ Copied(h)
          /\ names' = Stored(names, GroupsOf(h))
          /\ rec' = [rec EXCEPT ![c].attrs = list]
          /\ todo' = [todo EXCEPT ![c] = Under(Prefix(GroupsOf(h)), list)]
    /\ Goto(c, "deriving")
    /\ UNCHANGED <<handlers, meant, made, outputVars, fixedVars, flat, at, msg,
                   writeVars, exited>>

\* One step of appendAttr; its fields go to the new handler, or the record.
AppendAttr(c) ==
    /\ At(c, "deriving") \/ At(c, "recording")
    /\ todo[c] # <<>>
    /\ LET x == Head(todo[c])
           a == x.attr
           new == [key |-> joinKey(x.prefix, a.key), value |-> a.value]
           inner == IF a.key = Blank THEN x.prefix ELSE joinKey(x.prefix, a.key)
           ignored == a.group \/ (a.key = Blank /\ a.value = NoValue)
       IN
       /\ todo' = [todo EXCEPT ![c] = Under(inner, a.members) \o Tail(@)]
       /\ IF ignored
          THEN UNCHANGED <<arrays, mine, flat>>
          ELSE \/ /\ pc[c] = "deriving"
                  /\ arrays' = Appended(arrays, mine[c].attrs, new)
                  /\ mine' = [mine EXCEPT ![c].attrs = Extended(arrays, @)]
                  /\ UNCHANGED flat
               \/ /\ pc[c] = "recording"
                  /\ flat' = [flat EXCEPT ![c] = Append(@, new)]
                  /\ UNCHANGED <<arrays, mine>>
    /\ UNCHANGED <<names, handlers, meant, made, outputVars, fixedVars, pc, of,
                   rec, at, msg, writeVars, exited>>

Means(attrs, groups) == [attrs |-> attrs, groups |-> groups]

Returned(c) ==
    /\ At(c, "deriving") /\ todo[c] = <<>>
    /\ handlers' = Append(handlers, mine[c])
    /\ meant' = Append(meant, Means(Elements(arrays, mine[c].attrs),
                                    Elements(names, mine[c].groups)))
    /\ made' = Append(made, Append(made[of[c]], [op |-> "attrs", with |-> rec[c].attrs]))
    /\ Leave(c)
    /\ UNCHANGED <<arrays, names, outputVars, fixedVars, flat, todo, exited>>

\* A blank name returns the handler itself.
WithGroup(c) ==
    /\ CanDerive(c)
    /\ \E h \in DOMAIN handlers, name \in setup.names :
       LET copy == Clone(h, 0, 1)
           stored == Stored(names, GroupsOf(h))
           new == [copy EXCEPT !.groups = Extended(stored, @)]
       IN
       /\ Copied(h)
       /\ names' = Appended(stored, copy.groups, name)
       /\ handlers' = Append(handlers, new)
       /\ meant' = Append(meant, Means(Elements(arrays', new.attrs),
                                       Elements(names', new.groups)))
       /\ made' = Append(made, Append(made[h], [op |-> "group", with |-> name]))
    /\ UNCHANGED <<outputVars, fixedVars, callVars, writeVars, exited>>

----------------------------------------------------------------------------
(* A record.                                                               *)

\* slog asks for Enabled first: the floor, then the outputs one by one.
Log(c) ==
    /\ At(c, "idle")
    /\ \E h \in DOMAIN handlers, r \in setup.records :
          /\ r.level >= floor
          /\ of' = [of EXCEPT ![c] = h]
          /\ rec' = [rec EXCEPT ![c] = r]
    /\ at' = [at EXCEPT ![c] = 1]
    /\ Goto(c, "status")
    /\ UNCHANGED <<handlerVars, outputVars, fixedVars, mine, flat, todo, msg,
                   writeVars, exited>>

\* Faulty variant: one more output than there are.
NextOutputBeyond(c) ==
    \/ /\ at[c] <= NumOutputs
       /\ at' = [at EXCEPT ![c] = @ + 1]
       /\ Goto(c, "status")
       /\ UNCHANGED <<of, mine, rec, msg, writeVars>>
    \/ at[c] > NumOutputs /\ Leave(c)

\* The loop of Enabled goes on, or comes to its end: nothing accepts.
NextOutput(c) ==
    \/ /\ at[c] < NumOutputs
       /\ at' = [at EXCEPT ![c] = @ + 1]
       /\ Goto(c, "status")
       /\ UNCHANGED <<of, mine, rec, msg, writeVars>>
    \/ at[c] = NumOutputs /\ Leave(c)

\* GetStatus and GetMaxLevel take the lock of the output each.
Accepted(c, label) ==
    Goto(c, label) /\ UNCHANGED <<of, mine, rec, at, msg, writeVars>>

LookAtStatus(c) ==
    /\ At(c, "status")
    /\ IF enabled[at[c]] THEN Accepted(c, "level") ELSE NextOutput(c)
    /\ UNCHANGED <<handlerVars, outputVars, fixedVars, flat, todo, exited>>

LookAtLevel(c) ==
    /\ At(c, "level")
    /\ IF ToSyplLevel(rec[c].level) <= maxLevel[at[c]]
       THEN Accepted(c, "handle")
       ELSE NextOutput(c)
    /\ UNCHANGED <<handlerVars, outputVars, fixedVars, flat, todo, exited>>

\* Handle starts from the attributes of the handler.
Handle(c) ==
    /\ At(c, "handle")
    /\ flat' = [flat EXCEPT ![c] = AttrsOf(of[c])]
    /\ todo' = [todo EXCEPT ![c] = Under(Prefix(GroupsOf(of[c])), rec[c].attrs)]
    /\ Goto(c, "recording")
    /\ UNCHANGED <<handlerVars, outputVars, fixedVars, of, mine, rec, at, msg,
                   writeVars, exited>>

\* process copies the message for every enabled output; SkipAndMute ends it.
\* One step for what the modules Dispatch and Loggers take apart: the reads of
\* each status, SYPL_FILTER, and the merge of the global fields and tags.
Dispatch(c, m) ==
    /\ msg' = [msg EXCEPT ![c] = m]
    /\ wpc' = [wpc EXCEPT ![c] = [o \in Outputs |->
                  IF enabled[o] /\ m.flag # "SkipAndMute" THEN "write" ELSE "out"]]
    /\ flag' = [flag EXCEPT ![c] = [o \in Outputs |-> m.flag]]
    /\ text' = [text EXCEPT ![c] = [o \in Outputs |-> "content"]]
    /\ sunk' = [sunk EXCEPT ![c] = [o \in Outputs |-> <<>>]]
    /\ Goto(c, "printing")

\* The record as a message of sypl.
PrintMessage(c) ==
    /\ At(c, "recording") /\ todo[c] = <<>>
    /\ Dispatch(c, [level |-> ToSyplLevel(rec[c].level), flag |-> "None",
                    fields |-> AsMap(flat[c])])
    /\ flat' = [flat EXCEPT ![c] = <<>>]
    /\ UNCHANGED <<handlerVars, outputVars, fixedVars, of, mine, rec, todo, at,
                   exited>>

\* A message the application prints.
PrintDirectly(c) ==
    /\ At(c, "idle")
    /\ \E m \in setup.messages : Dispatch(c, m)
    /\ of' = [of EXCEPT ![c] = 0]
    /\ UNCHANGED <<handlerVars, outputVars, fixedVars, mine, rec, flat, todo, at,
                   exited>>

Fatal(c) == msg[c].level = 1 /\ msg[c].flag # "SkipAndMute"

\* Only Fatal ends the process.
Printed(c) ==
    /\ At(c, "printing")
    /\ \A o \in Outputs : wpc[c][o] \in {"out", "done"}
    /\ exited' = Fatal(c)
    /\ Leave(c)
    /\ UNCHANGED <<handlerVars, outputVars, fixedVars, flat, todo>>

----------------------------------------------------------------------------
(* The write of one output.                                                *)

Writing(c, o, label) == At(c, "printing") /\ wpc[c][o] = label

Step(c, o, label) == wpc' = [wpc EXCEPT ![c][o] = label]

\* Processors set flags, unless the message skips them; then the gate, with
\* SYPL_LEVEL unset: the modules Dispatch and Pipeline have it.
Passes(level, f, max) ==
    \/ f \in Forcing
    \/ level # 0 /\ level <= max /\ f \notin Muting

FlagOf(f, o) == IF f \in Skipping \/ marks[o] = "None" THEN f ELSE marks[o]

Write(c, o) ==
    /\ Writing(c, o, "write")
    /\ flag' = [flag EXCEPT ![c][o] = FlagOf(@, o)]
    /\ Step(c, o, IF ~Passes(msg[c].level, FlagOf(flag[c][o], o), maxLevel[o]) THEN "done"
                  ELSE IF FlagOf(flag[c][o], o) \in Skipping THEN "emit" ELSE "format")
    /\ UNCHANGED <<handlerVars, outputVars, fixedVars, callVars, text, sunk, exited>>

\* What is asked of the slog side, which may refuse it with an error.
Told(c, o, level, fields, content) ==
    \E ok \in BOOLEAN :
        sunk' = [sunk EXCEPT ![c][o] = Append(@, [level |-> level, fields |-> fields,
                                                  content |-> content, ok |-> ok])]

\* Faulty variant: what the slog side does not want keeps its content.
ForwardUnmarked(c, o) ==
    /\ Writing(c, o, "format")
    /\ LET l == ToSlogLevel(msg[c].level) IN
       IF slogLevel[o] <= l
       THEN /\ Told(c, o, l, msg[c].fields, "processed")
            /\ text' = [text EXCEPT ![c][o] = "mark"]
       ELSE UNCHANGED <<sunk, text>>
    /\ Step(c, o, "emit")
    /\ UNCHANGED <<handlerVars, outputVars, fixedVars, callVars, flag, exited>>

\* The formatter marks the content, then forwards the message if the slog
\* side wants it; its error is logged by the output.
Forward(c, o) ==
    /\ Writing(c, o, "format")
    /\ text' = [text EXCEPT ![c][o] = "mark"]
    /\ LET l == ToSlogLevel(msg[c].level) IN
       IF slogLevel[o] <= l THEN Told(c, o, l, msg[c].fields, "processed") ELSE UNCHANGED sunk
    /\ Step(c, o, "emit")
    /\ UNCHANGED <<handlerVars, outputVars, fixedVars, callVars, flag, exited>>

\* slogWriter.Write drops marked content, and logs what was never formatted.
Emit(c, o) ==
    /\ Writing(c, o, "emit")
    /\ IF text[c][o] # "mark" /\ slogLevel[o] <= LevelInfo
       THEN Told(c, o, LevelInfo, <<>>, "raw")
       ELSE UNCHANGED sunk
    /\ Step(c, o, "done")
    /\ UNCHANGED <<handlerVars, outputVars, fixedVars, callVars, flag, text, exited>>

----------------------------------------------------------------------------
(* Reconfiguration, between any two steps.                                 *)

Changing(o) ==
    /\ ~exited /\ changes < setup.changes
    /\ changes' = changes + 1
    /\ UNCHANGED <<handlerVars, fixedVars, callVars, writeVars, exited>>

SetMaxLevel(o) ==
    /\ Changing(o)
    /\ \E l \in setup.maxLevels : maxLevel' = [maxLevel EXCEPT ![o] = l]
    /\ UNCHANGED <<enabled, slogLevel>>

SetStatus(o) ==
    /\ Changing(o)
    /\ \E b \in BOOLEAN : enabled' = [enabled EXCEPT ![o] = b]
    /\ UNCHANGED <<maxLevel, slogLevel>>

\* The level of the slog handler, of which nothing else is known.
SetSlogLevel(o) ==
    /\ Changing(o)
    /\ \E l \in setup.slogLevels : slogLevel' = [slogLevel EXCEPT ![o] = l]
    /\ UNCHANGED <<maxLevel, enabled>>

----------------------------------------------------------------------------
\* NewHandler: no attributes, no groups.
Init ==
    /\ setup \in Setups
    /\ arrays = <<>> /\ names = <<>>
    /\ handlers = <<NoSlices>>
    /\ floor \in setup.floors
    /\ maxLevel \in [Outputs -> setup.maxLevels]
    /\ marks \in [Outputs -> setup.flags]
    /\ slogLevel \in [Outputs -> setup.slogLevels]
    /\ enabled = [o \in Outputs |-> o \in setup.enabled]
    /\ pc = [c \in Callers |-> "idle"]
    /\ of = [c \in Callers |-> 0]
    /\ mine = [c \in Callers |-> NoSlices]
    /\ rec = [c \in Callers |-> NoRecord]
    /\ flat = [c \in Callers |-> <<>>]
    /\ todo = [c \in Callers |-> <<>>]
    /\ at = [c \in Callers |-> 1]
    /\ msg = [c \in Callers |-> NoMessage]
    /\ wpc = [c \in Callers |-> [o \in Outputs |-> "done"]]
    /\ flag = [c \in Callers |-> [o \in Outputs |-> "None"]]
    /\ text = [c \in Callers |-> [o \in Outputs |-> "content"]]
    /\ sunk = [c \in Callers |-> [o \in Outputs |-> <<>>]]
    /\ exited = FALSE
    /\ meant = <<Means(<<>>, <<>>)>>
    /\ made = <<<<>>>>
    /\ changes = 0

Derives(c) == WithAttrs(c) \/ WithGroup(c) \/ AppendAttr(c) \/ Returned(c)

Logs(c) ==
    \/ Log(c) \/ LookAtStatus(c) \/ LookAtLevel(c) \/ Handle(c)
    \/ PrintMessage(c) \/ PrintDirectly(c) \/ Printed(c)

Writes(c, o) == Write(c, o) \/ Forward(c, o) \/ Emit(c, o)

Reconfigures(o) == SetMaxLevel(o) \/ SetStatus(o) \/ SetSlogLevel(o)

Next ==
    \/ \E c \in Callers : Derives(c) \/ Logs(c)
    \/ \E c \in Callers, o \in Outputs : Writes(c, o)
    \/ \E o \in Outputs : Reconfigures(o)

Spec == Init /\ [][Next]_vars

----------------------------------------------------------------------------
\* Every variable has its type.
TypeOK ==
    /\ setup \in Setups
    /\ arrays \in Seq(Seq(Fields)) /\ names \in Seq(Seq(Texts))
    /\ \A h \in DOMAIN handlers : /\ IsSlice(arrays, handlers[h].attrs)
                                  /\ IsSlice(names, handlers[h].groups)
    /\ floor \in SlogLevels
    /\ maxLevel \in [Outputs -> Levels] /\ slogLevel \in [Outputs -> SlogLevels]
    /\ enabled \in [Outputs -> BOOLEAN] /\ marks \in [Outputs -> Flags]
    /\ pc \in [Callers -> {"idle", "deriving", "status", "level", "handle",
                           "recording", "printing"}]
    /\ of \in [Callers -> 0..Len(handlers)]
    /\ \A c \in Callers : /\ IsSlice(arrays, mine[c].attrs)
                          /\ IsSlice(names, mine[c].groups)
                          /\ IsMessage(msg[c])
    /\ rec \in [Callers -> Records]
    /\ flat \in [Callers -> Seq(Fields)] /\ todo \in [Callers -> Seq(Tasks)]
    /\ at \in [Callers -> Outputs]
    /\ wpc \in [Callers -> [Outputs -> {"out", "write", "format", "emit", "done"}]]
    /\ flag \in [Callers -> [Outputs -> Flags]]
    /\ text \in [Callers -> [Outputs -> {"content", "mark"}]]
    /\ exited \in BOOLEAN /\ changes \in 0..setup.changes
    /\ Len(meant) = Len(handlers) /\ Len(made) = Len(handlers)

\* A handler is never changed by what is derived from it, or from a sibling
\* of it, at the same time or later: "siblings never clobber each other".
Apart == \A h \in DOMAIN handlers :
            AttrsOf(h) = meant[h].attrs /\ GroupsOf(h) = meant[h].groups

\* The names of the groups that were opened by the first n derivations.
Opened(steps, n) ==
    FlattenSeq([j \in 1..n |-> IF steps[j].op = "group" THEN <<steps[j].with>> ELSE <<>>])

\* What the i-th derivation adds: its attributes, in the groups opened before.
Added(steps, i) ==
    IF steps[i].op = "attrs" THEN FlattenAll(Prefix(Opened(steps, i - 1)), steps[i].with)
    ELSE <<>>

\* What a list of derivations means, by the reference.
Meaning(steps) ==
    Means(FlattenSeq([i \in DOMAIN steps |-> Added(steps, i)]), Opened(steps, Len(steps)))

\* What a record of a handler means: its own attributes come last.
Due(h, r) ==
    LET m == Meaning(made[h]) IN
    AsMap(m.attrs \o FlattenAll(Prefix(m.groups), r.attrs))

\* Handlers stay what their derivation says, in which groups count for the
\* attributes that come after them only, and the fields of a record are those
\* of its handler and its own, whatever is derived while it is handled.
HandlersHold ==
    /\ Apart
    /\ \A h \in DOMAIN handlers : meant[h] = Meaning(made[h])
    /\ \A c \in Callers : pc[c] = "printing" /\ of[c] # 0 =>
          msg[c].fields = Due(of[c], rec[c])

\* The level at which a message arrives at the slog side.
Arrives(c) == IF of[c] = 0 THEN ToSlogLevel(msg[c].level) ELSE Standard(rec[c].level)

\* The slog side gets a message once at most, also when it has refused it
\* with an error or for its level: with its fields and its level, or raw when
\* it skips the formatter; never when it is muted, and always when nobody
\* reconfigures and both sides accept its level, while SYPL_LEVEL is unset (set,
\* it takes the place of the output's maximum level).  No record of slog ends the
\* process, whatever its level.
ForwardedTruly ==
    /\ \A c \in Callers : pc[c] = "printing" /\ of[c] # 0 => ~ Fatal(c)
    /\ \A c \in Callers, o \in Outputs : pc[c] = "printing" =>
          LET raw == flag[c][o] \in Skipping
              l == IF raw THEN LevelInfo ELSE Arrives(c)
          IN
          /\ Len(sunk[c][o]) <= 1
          /\ sunk[c][o] # <<>> =>
                /\ sunk[c][o][1].level = l
                /\ sunk[c][o][1].fields = IF raw THEN <<>> ELSE msg[c].fields
                /\ sunk[c][o][1].content = IF raw THEN "raw" ELSE "processed"
                /\ flag[c][o] \notin Muting
          /\ wpc[c][o] = "done" /\ sunk[c][o] = <<>> /\ changes = 0 =>
                ~ (Passes(msg[c].level, flag[c][o], maxLevel[o]) /\ slogLevel[o] <= l)
=============================================================================
