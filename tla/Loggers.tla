------------------------------ MODULE Loggers ------------------------------
(***************************************************************************)
(* A family of loggers and the messages printed through them: how a logger *)
(* is derived from another (New, With), how its global fields, tags and    *)
(* outputs are set while messages are on their way, what a call makes of   *)
(* its options, and how process and processOutputs build the copy of the   *)
(* message that each output gets - with the matchers of SYPL_LEVEL and     *)
(* their bounded cache.                                                    *)
(*                                                                         *)
(* The containers are modelled as Go has them: maps are shared by          *)
(* reference (heap), slices are windows on arrays that append may write in *)
(* place (Slices).  Status, level and the write itself belong to Dispatch  *)
(* and Pipeline; one value is appended per call.                           *)
(***************************************************************************)
EXTENDS Integers, Sequences, FiniteSets, Slices

CONSTANTS
    Loggers, Root,      \* the loggers that may exist, the first of them
    Callers,            \* goroutines that print
    Outputs,            \* records with a name and an instance
    Tags, Keys, Values,
    AppMaps,            \* maps of fields the application keeps
    PairLists,          \* arguments of Logw
    Extracted,          \* what a context extractor returns
    BadKey(_), Missing, \* what Logw makes of a malformed list
    Nil,                \* the nil map
    Setups,
    MaxCached,          \* maxCachedMatchers
    MaxCopies           \* bound: the outputs of a logger

ASSUME LoggersAssumption ==
    /\ Root \in Loggers
    /\ IsFiniteSet(Callers) /\ Callers # {}
    /\ MaxCached \in Nat \ {0}
    /\ MaxCopies \in Nat

VARIABLES
    setup,      \* of the run: the first logger, SYPL_LEVEL, the bounds
    exists,     \* the loggers derived so far
    component,  \* their Name
    fieldsOf, tagsOf, outputsOf, extracts,
    heap,       \* the maps, by their location
    arrays,     \* the arrays of the slices
    cache, cacheSize,   \* matchersCache and matchersCacheSize
    call,       \* the call of each caller, and its message
    asked, seen,        \* history: what a call was asked, and the states of
                        \* its logger since it began
    changes, prints     \* steps counted against the bounds

containers == <<heap, arrays>>
family == <<exists, component, fieldsOf, tagsOf, outputsOf, extracts>>
matchers == <<cache, cacheSize>>
vars == <<setup, family, containers, matchers, call, asked, seen, changes, prints>>

-----------------------------------------------------------------------------
(* Fields.                                                                  *)

AppMap(a) == <<"app", a>>
LoggerMap(l) == <<"logger", l>>
MessageMap(c) == <<"message", c>>
CopyMap(c, n) == <<"copy", c, n>>

CopyMaps == {CopyMap(c, n) : c \in Callers, n \in 1..MaxCopies}

Locations ==
    {AppMap(a) : a \in AppMaps} \cup {LoggerMap(l) : l \in Loggers}
      \cup {MessageMap(c) : c \in Callers} \cup CopyMaps

\* What the application may give to With or SetFields.
MapsGiven == {AppMap(a) : a \in AppMaps} \cup {Nil}

Contents == UNION {[D -> Values] : D \in SUBSET Keys}

\* What the fields of a message may be, after Logw too.
FieldNames == Keys \cup {BadKey(i) : i \in UNION {DOMAIN p : p \in PairLists}}
FieldValues == Values \cup {Missing} \cup UNION {{p[i] : i \in DOMAIN p} : p \in PairLists}
Maps == UNION {[D -> FieldValues] : D \in SUBSET FieldNames}

Empty == [k \in {} |-> k]

Over(below, above) ==
    [k \in DOMAIN below \cup DOMAIN above |->
        IF k \in DOMAIN above THEN above[k] ELSE below[k]]

Single(k, v) == [x \in {k} |-> v]

At(p) == IF p = Nil THEN Nil ELSE heap[p]

\* fields.Copy, as it is: a nil source makes the result nil.
Copy(src, dst) ==
    IF src = Nil THEN Nil ELSE Over(IF dst = Nil THEN Empty ELSE dst, src)

\* kvToFields: the loop over the alternating keys and values.
KvToFields(list) ==
    LET from[i \in 1..(Len(list) + 2)] ==
          IF i > Len(list) THEN Empty
          ELSE IF list[i] \notin Keys
               THEN Over(Single(BadKey(i), list[i]), from[i + 1])
          ELSE IF i = Len(list) THEN Single(list[i], Missing)
          ELSE Over(Single(list[i], list[i + 1]), from[i + 2])
    IN from[1]

GlobalFields(l) == IF fieldsOf[l] = Nil THEN Empty ELSE heap[fieldsOf[l]]
GlobalTags(l) == Elements(arrays, tagsOf[l])
ItsOutputs(l) == Elements(arrays, outputsOf[l])
Names(outs) == {outs[i].name : i \in DOMAIN outs}
Members(s) == {s[i] : i \in DOMAIN s}

-----------------------------------------------------------------------------
(* Deriving and configuring loggers.                                        *)

Resting == {"idle", "done"}
Running(c) == call[c].pc \notin Resting

\* A history of each call: what its logger was at every moment of it.
LoggerOf(c) ==
    LET l == call[c].logger
    IN [fields |-> GlobalFields(l), tags |-> GlobalTags(l), outputs |-> ItsOutputs(l)]

Watch ==
    seen' = [c \in Callers |->
               IF call'[c].pc \in Resting THEN seen[c]
               ELSE (IF Running(c) THEN seen[c] ELSE {}) \cup {LoggerOf(c)'}]

Change ==
    /\ changes < setup.changes
    /\ changes' = changes + 1
    /\ UNCHANGED <<setup, matchers, call, asked, prints>>
    /\ Watch

\* The child shares the arrays of its parent.
CloneNothing(p, l) ==
    /\ outputsOf' = [outputsOf EXCEPT ![l] = outputsOf[p]]
    /\ tagsOf' = [tagsOf EXCEPT ![l] = tagsOf[p]]
    /\ UNCHANGED arrays

\* The factory clones the slice of outputs; both derivations clone the tags.
CloneSlices(p, l) ==
    LET outs == ItsOutputs(p)
        m == Stored(arrays, outs)
    IN /\ outputsOf' = [outputsOf EXCEPT ![l] = Fresh(arrays, outs, 0)]
       /\ tagsOf' = [tagsOf EXCEPT ![l] = Fresh(m, GlobalTags(p), 0)]
       /\ arrays' = Stored(m, GlobalTags(p))

\* New: a child with a name of its own, without the extractor of its parent.
New(p, l) ==
    /\ "New" \in setup.ops
    /\ p \in exists /\ l \notin exists
    /\ exists' = exists \cup {l}
    /\ component' = [component EXCEPT ![l] = l]
    /\ fieldsOf' = [fieldsOf EXCEPT
                      ![l] = IF fieldsOf[p] = Nil THEN Nil ELSE LoggerMap(l)]
    /\ heap' = [heap EXCEPT ![LoggerMap(l)] = GlobalFields(p)]
    /\ CloneSlices(p, l)
    /\ UNCHANGED extracts
    /\ Change

\* With: a child of the same name, with more fields; f may be nil.
With(p, l, f) ==
    /\ "With" \in setup.ops
    /\ p \in exists /\ l \notin exists
    /\ exists' = exists \cup {l}
    /\ component' = [component EXCEPT ![l] = component[p]]
    /\ fieldsOf' = [fieldsOf EXCEPT ![l] = LoggerMap(l)]
    /\ heap' = [heap EXCEPT ![LoggerMap(l)] =
                  Over(GlobalFields(p), IF f = Nil THEN Empty ELSE heap[f])]
    /\ CloneSlices(p, l)
    /\ extracts' = [extracts EXCEPT ![l] = extracts[p]]
    /\ Change

\* SetFields keeps the map it is given, and so follows it.
SetFields(l, p) ==
    /\ "SetFields" \in setup.ops
    /\ l \in exists
    /\ fieldsOf' = [fieldsOf EXCEPT ![l] = p]
    /\ UNCHANGED <<exists, component, tagsOf, outputsOf, extracts, containers>>
    /\ Change

SetTags(l, t) ==
    /\ "SetTags" \in setup.ops
    /\ l \in exists
    /\ arrays' = Appended(arrays, tagsOf[l], t)
    /\ tagsOf' = [tagsOf EXCEPT ![l] = Extended(arrays, tagsOf[l])]
    /\ UNCHANGED <<exists, component, fieldsOf, outputsOf, extracts, heap>>
    /\ Change

AddOutputs(l, o) ==
    /\ "AddOutputs" \in setup.ops
    /\ l \in exists /\ outputsOf[l].len < MaxCopies
    /\ arrays' = Appended(arrays, outputsOf[l], o)
    /\ outputsOf' = [outputsOf EXCEPT ![l] = Extended(arrays, outputsOf[l])]
    /\ UNCHANGED <<exists, component, fieldsOf, tagsOf, extracts, heap>>
    /\ Change

Replaced(outs, o) ==
    [i \in DOMAIN outs |-> IF outs[i].name = o.name THEN o ELSE outs[i]]

\* The output is put in place, in the array that calls iterate over.
SetOutputsInPlace(l, o) ==
    /\ "SetOutputs" \in setup.ops
    /\ l \in exists /\ outputsOf[l].len > 0
    /\ arrays' = [arrays EXCEPT ![outputsOf[l].at] = Replaced(@, o)]
    /\ UNCHANGED <<family, heap>>
    /\ Change

\* SetOutputs works on a copy of the slice.
SetOutputs(l, o) ==
    /\ "SetOutputs" \in setup.ops
    /\ l \in exists
    /\ outputsOf' = [outputsOf EXCEPT ![l] = Fresh(arrays, ItsOutputs(l), 0)]
    /\ arrays' = Stored(arrays, Replaced(ItsOutputs(l), o))
    /\ UNCHANGED <<exists, component, fieldsOf, tagsOf, extracts, heap>>
    /\ Change

SetContextExtractor(l) ==
    /\ "SetContextExtractor" \in setup.ops
    /\ l \in exists
    /\ extracts' = [extracts EXCEPT ![l] = ~@]
    /\ UNCHANGED <<exists, component, fieldsOf, tagsOf, outputsOf, containers>>
    /\ Change

\* The application writes to a map of its own while no call can read it.
AppWrites(a, k, v) ==
    /\ "AppWrites" \in setup.ops
    /\ \A c \in Callers : ~Running(c)
    /\ heap' = [heap EXCEPT ![AppMap(a)] = Over(@, Single(k, v))]
    /\ UNCHANGED <<family, arrays>>
    /\ Change

-----------------------------------------------------------------------------
(* The printers: what a call makes of its options.                          *)

NoPut == [x \in {} |-> x]

Sources ==
    LET puts == {NoPut} \cup {Single(k, v) : k \in Keys, v \in Values}
    IN [kind : {"none", "nil"}, put : puts] \cup [kind : {"context"}, put : {NoPut}]
         \cup [kind : {"map"}, map : AppMaps, put : puts]
         \cup [kind : {"pairs"}, pairs : PairLists, put : {NoPut}]

\* The map a message starts with: its own, the one given by WithFields, or
\* none; WithField makes one when there is none.
StartMap(c, s) ==
    CASE s.kind = "map" -> AppMap(s.map)
      [] s.kind = "nil" /\ s.put = NoPut -> Nil
      [] OTHER -> MessageMap(c)

StartFields(l, s) ==
    CASE s.kind = "map" -> heap[AppMap(s.map)]
      [] s.kind = "pairs" -> KvToFields(s.pairs)
      [] s.kind = "context" /\ extracts[l] -> Extracted
      [] OTHER -> Empty

\* What the caller of Logw means: an element is a key when it is a string
\* and its predecessor is not a key; a key goes with its successor, and an
\* element that is neither is kept under a key of its own.  Of the entries
\* with one name the last counts.
PairsMean(list) ==
    LET n == Len(list)
        P == CHOOSE P \in SUBSET (1..n) :
               \A i \in 1..n : i \in P <=> list[i] \in Keys /\ i - 1 \notin P
        entries == {i \in 1..n : i - 1 \notin P}
        name(i) == IF i \in P THEN list[i] ELSE BadKey(i)
        value(i) == IF i \notin P THEN list[i] ELSE IF i = n THEN Missing ELSE list[i + 1]
        last(k) == CHOOSE i \in entries : name(i) = k /\ \A j \in entries : name(j) = k => j <= i
    IN [k \in {name(i) : i \in entries} |-> value(last(k))]

Asks(l, s) ==
    Over(IF s.kind = "pairs" THEN PairsMean(s.pairs) ELSE StartFields(l, s), s.put)

\* Somebody else's call may be reading the map.
InUse(a, c) ==
    \E d \in Callers \ {c} : Running(d) /\ AppMap(a) \in {call[d].fields, fieldsOf[call[d].logger]}

Begin(c, l, p, names, tags, fields) ==
    /\ call[c].pc \in Resting /\ l \in exists
    /\ prints < setup.prints
    /\ prints' = prints + 1
    /\ call' = [call EXCEPT ![c] =
                  [pc |-> "begun", logger |-> l, fields |-> p, names |-> names,
                   tags |-> tags, listed |-> NilSlice, next |-> 1, copies |-> <<>>]]
    /\ asked' = [asked EXCEPT ![c] = [fields |-> fields, names |-> names, tags |-> tags]]
    /\ UNCHANGED <<setup, family, arrays, matchers, changes>>
    /\ Watch

\* PrintWithOptions, Logw, PrintWithContext: a fresh message and its options.
PrintWithOptions(c, l, s, names, tags) ==
    LET p == StartMap(c, s)
    IN /\ s \in setup.sources
       /\ s.kind = "map" /\ s.put # NoPut => ~InUse(s.map, c)
       /\ heap' = IF p = Nil THEN heap
                  ELSE [heap EXCEPT ![p] = Over(StartFields(l, s), s.put)]
       /\ Begin(c, l, p, names, tags, IF p = Nil THEN Nil ELSE Asks(l, s))

\* PrintMessagesToOutputsWithOptions: mergeOptions ignores nil fields, and
\* the names of the options take the place of the output's.
PrintToOutput(c, l, o, f, names, tags) ==
    /\ "PrintToOutput" \in setup.ops
    /\ heap' = IF f = Nil THEN [heap EXCEPT ![MessageMap(c)] = Empty] ELSE heap
    /\ Begin(c, l, IF f = Nil THEN MessageMap(c) ELSE f,
             IF names = {} THEN {o.name} ELSE names, tags,
             IF f = Nil THEN Empty ELSE heap[f])

\* PrintMessage with the message of the last call: it keeps what process
\* made of it - the names, the fields, the tags.
PrintAgain(c, l) ==
    /\ "PrintAgain" \in setup.ops
    /\ call[c].pc = "done"
    /\ UNCHANGED heap
    /\ Begin(c, l, call[c].fields, call[c].names, call[c].tags, At(call[c].fields))

-----------------------------------------------------------------------------
(* process.  Each read of the logger takes and releases its lock.           *)

Goes(c, pc) == call' = [call EXCEPT ![c].pc = pc]

Processing(c) ==
    /\ Running(c)
    /\ UNCHANGED <<setup, family, arrays, asked, changes, prints>>
    /\ Watch

ReadNames(c) ==
    /\ call[c].pc = "begun"
    /\ call' = [call EXCEPT ![c].pc = "named",
                  ![c].names = IF @ = {} THEN Names(ItsOutputs(call[c].logger)) ELSE @]
    /\ UNCHANGED <<heap, matchers>>
    /\ Processing(c)

CheckFields(c) ==
    /\ call[c].pc = "named"
    /\ Goes(c, IF fieldsOf[call[c].logger] = Nil THEN "merged" ELSE "checked")
    /\ UNCHANGED <<heap, matchers>>
    /\ Processing(c)

\* The global fields are read again; those of the message win over them.
FinalFields(c) ==
    Copy(At(call[c].fields), Copy(At(fieldsOf[call[c].logger]), Empty))

MergeFields(c) ==
    LET final == FinalFields(c)
    IN /\ call[c].pc = "checked"
       /\ heap' = IF final = Nil THEN heap ELSE [heap EXCEPT ![MessageMap(c)] = final]
       /\ call' = [call EXCEPT ![c].pc = "merged",
                     ![c].fields = IF final = Nil THEN Nil ELSE MessageMap(c)]
       /\ UNCHANGED matchers
       /\ Processing(c)

MergeTags(c) ==
    /\ call[c].pc = "merged"
    /\ call' = [call EXCEPT ![c].pc = "tagged",
                  ![c].tags = @ \cup Members(GlobalTags(call[c].logger))]
    /\ UNCHANGED <<heap, matchers>>
    /\ Processing(c)

\* processOutputs: the slice is read once, its elements one by one.
ReadOutputs(c) ==
    /\ call[c].pc = "tagged"
    /\ call' = [call EXCEPT ![c].pc = "gathering",
                  ![c].listed = outputsOf[call[c].logger]]
    /\ UNCHANGED <<heap, matchers>>
    /\ Processing(c)

Listed(c) == arrays[call[c].listed.at][call[c].next]

Skip(c) ==
    /\ call[c].pc = "gathering" /\ call[c].next <= call[c].listed.len
    /\ Listed(c).name \notin call[c].names
    /\ call' = [call EXCEPT ![c].next = @ + 1]
    /\ UNCHANGED <<heap, matchers>>
    /\ Processing(c)

\* message.Copy, with a map of its own for the output to process.
CopyMessage(c) ==
    LET n == Len(call[c].copies) + 1
        mine == Copy(At(call[c].fields), Empty)
    IN /\ call[c].pc = "gathering" /\ call[c].next <= call[c].listed.len
       /\ Listed(c).name \in call[c].names
       /\ heap' = IF mine = Nil THEN heap ELSE [heap EXCEPT ![CopyMap(c, n)] = mine]
       /\ call' = [call EXCEPT
                     ![c].pc = IF setup.levelSet THEN "loading" ELSE "gathering",
                     ![c].next = @ + 1,
                     ![c].copies = Append(@, [output |-> Listed(c), from |-> call[c].next,
                         fields |-> IF mine = Nil THEN Nil ELSE CopyMap(c, n),
                         tags |-> call[c].tags, added |-> Empty])]
       /\ UNCHANGED matchers
       /\ Processing(c)

Gathered(c) ==
    /\ call[c].pc = "gathering" /\ call[c].next > call[c].listed.len
    /\ Goes(c, "writing")
    /\ UNCHANGED <<heap, matchers>>
    /\ Processing(c)

-----------------------------------------------------------------------------
(* debug.New: the matchers of a component and an output, cached.            *)

MatcherKey(c) ==
    <<component[call[c].logger], call[c].copies[Len(call[c].copies)].output.name>>

LoadMatchers(c) ==
    /\ call[c].pc = "loading"
    /\ Goes(c, IF MatcherKey(c) \in cache THEN "gathering" ELSE "sizing")
    /\ UNCHANGED <<heap, matchers>>
    /\ Processing(c)

\* One more than the bound is let in.
RoomInCacheLate == cacheSize <= MaxCached

RoomInCache == cacheSize < MaxCached

CheckSize(c) ==
    /\ call[c].pc = "sizing"
    /\ Goes(c, IF RoomInCache THEN "storing" ELSE "gathering")
    /\ UNCHANGED <<heap, matchers>>
    /\ Processing(c)

\* Counted also when another call has stored the same key.
StoreMatchersCounting(c) ==
    /\ call[c].pc = "storing"
    /\ cache' = cache \cup {MatcherKey(c)}
    /\ Goes(c, "counting")
    /\ UNCHANGED <<heap, cacheSize>>
    /\ Processing(c)

StoreMatchers(c) ==
    /\ call[c].pc = "storing"
    /\ cache' = cache \cup {MatcherKey(c)}
    /\ Goes(c, IF MatcherKey(c) \in cache THEN "gathering" ELSE "counting")
    /\ UNCHANGED <<heap, cacheSize>>
    /\ Processing(c)

CountMatchers(c) ==
    /\ call[c].pc = "counting"
    /\ cacheSize' = cacheSize + 1
    /\ Goes(c, "gathering")
    /\ UNCHANGED <<heap, cache>>
    /\ Processing(c)

-----------------------------------------------------------------------------
(* The outputs write their copies; a processor may add a field to one.      *)

Decorate(c, n, f) ==
    /\ call[c].pc = "writing" /\ n \in DOMAIN call[c].copies
    /\ call[c].copies[n].fields # Nil /\ call[c].copies[n].added = Empty
    /\ heap' = [heap EXCEPT ![call[c].copies[n].fields] = Over(@, f)]
    /\ call' = [call EXCEPT ![c].copies[n].added = f]
    /\ UNCHANGED matchers
    /\ Processing(c)

Finish(c) ==
    /\ call[c].pc = "writing"
    /\ Goes(c, "done")
    /\ UNCHANGED <<heap, matchers>>
    /\ Processing(c)

-----------------------------------------------------------------------------
NoCall ==
    [pc |-> "idle", logger |-> Root, fields |-> Nil, names |-> {}, tags |-> {},
     listed |-> NilSlice, next |-> 1, copies |-> <<>>]

\* The factory clones the outputs it is given; the tags were set since, and
\* either slice may have spare slots by then.
Init ==
    /\ setup \in Setups
    /\ exists = {Root}
    /\ component = [l \in Loggers |-> Root]
    /\ fieldsOf = [l \in Loggers |-> IF l = Root THEN LoggerMap(Root) ELSE Nil]
    /\ arrays = <<setup.outputs, setup.tags>>
    /\ outputsOf = [l \in Loggers |->
                      IF l = Root THEN Fresh(<<>>, setup.outputs, setup.spare) ELSE NilSlice]
    /\ tagsOf = [l \in Loggers |->
                   IF l = Root THEN Fresh(<<setup.outputs>>, setup.tags, setup.spare) ELSE NilSlice]
    /\ extracts = [l \in Loggers |-> FALSE]
    /\ heap = [p \in Locations |->
                 IF p = LoggerMap(Root) THEN setup.fields
                 ELSE IF p \in MapsGiven THEN setup.map ELSE Empty]
    /\ cache = {} /\ cacheSize = 0
    /\ call = [c \in Callers |-> NoCall]
    /\ asked = [c \in Callers |-> [fields |-> Nil, names |-> {}, tags |-> {}]]
    /\ seen = [c \in Callers |-> {}]
    /\ changes = 0 /\ prints = 0

Configures ==
    \/ \E p, l \in Loggers : New(p, l)
    \/ \E p, l \in Loggers, f \in MapsGiven : With(p, l, f)
    \/ \E l \in Loggers, f \in MapsGiven : SetFields(l, f)
    \/ \E l \in Loggers, t \in Tags : SetTags(l, t)
    \/ \E l \in Loggers, o \in Outputs : AddOutputs(l, o)
    \/ \E l \in Loggers, o \in Outputs : SetOutputs(l, o)
    \/ \E l \in Loggers : SetContextExtractor(l)
    \/ \E a \in AppMaps, k \in Keys, v \in Values : AppWrites(a, k, v)

Calls(c) ==
    \/ \E l \in Loggers, s \in setup.sources, n \in setup.names, t \in setup.given :
         PrintWithOptions(c, l, s, n, t)
    \/ \E l \in Loggers, o \in Outputs, f \in MapsGiven, n \in setup.names, t \in setup.given :
         PrintToOutput(c, l, o, f, n, t)
    \/ \E l \in Loggers : PrintAgain(c, l)

Processes(c) ==
    \/ ReadNames(c) \/ CheckFields(c) \/ MergeFields(c) \/ MergeTags(c)
    \/ ReadOutputs(c) \/ Skip(c) \/ CopyMessage(c) \/ Gathered(c)
    \/ LoadMatchers(c) \/ CheckSize(c) \/ StoreMatchers(c) \/ CountMatchers(c)
    \/ \E n \in 1..MaxCopies, f \in setup.marks : Decorate(c, n, f)
    \/ Finish(c)

Next == Configures \/ \E c \in Callers : Calls(c) \/ Processes(c)

Spec == Init /\ [][Next]_vars

-----------------------------------------------------------------------------
(* Types.                                                                   *)

OutputNames == {o.name : o \in Outputs}

IsSetup(u) ==
    /\ u.outputs \in Seq(Outputs) /\ Len(u.outputs) <= MaxCopies
    /\ u.tags \in Seq(Tags) /\ u.spare \in Nat
    /\ u.fields \in Contents /\ u.map \in Contents
    /\ u.names \subseteq SUBSET OutputNames /\ u.given \subseteq SUBSET Tags
    /\ u.sources \subseteq Sources /\ u.marks \subseteq Contents

ASSUME SetupsAssumption == \A u \in Setups : IsSetup(u)

ASSUME NilAssumption == Nil \notin Locations \cup AppMaps \cup Maps

ASSUME FieldsAssumption == PairLists \subseteq Seq(FieldValues) /\ Extracted \in Maps

FamilyType ==
    /\ exists \subseteq Loggers /\ Root \in exists
    /\ component \in [Loggers -> Loggers]
    /\ extracts \in [Loggers -> BOOLEAN]
    /\ fieldsOf \in [Loggers -> Locations \cup {Nil}]
    /\ \A l \in Loggers : fieldsOf[l] \in MapsGiven \cup {LoggerMap(l)}

\* The maps of messages may hold what Logw makes of a malformed list.
MapsType ==
    /\ heap = [p \in Locations |-> heap[p]]
    /\ \A a \in AppMaps : heap[AppMap(a)] \in Contents
    /\ \A l \in Loggers : heap[LoggerMap(l)] \in Contents

\* Every slice is a window on an array, and no two loggers share one.
SlicesType ==
    /\ arrays \in Seq(Seq(Tags \cup Outputs))
    /\ tagsOf \in [Loggers -> Windows] /\ outputsOf \in [Loggers -> Windows]
    /\ \A l \in Loggers : IsSlice(arrays, tagsOf[l])
    /\ \A l \in Loggers : IsSlice(arrays, outputsOf[l]) /\ outputsOf[l].len <= MaxCopies
    /\ \A k, l \in Loggers :
         /\ k # l /\ tagsOf[k].at > 0 => tagsOf[k].at # tagsOf[l].at
         /\ k # l /\ outputsOf[k].at > 0 => outputsOf[k].at # outputsOf[l].at
         /\ tagsOf[k].at > 0 => tagsOf[k].at # outputsOf[l].at

Marks == {Empty} \cup UNION {u.marks : u \in Setups}

CopyType ==
    [output : Outputs, from : 1..MaxCopies,
     fields : CopyMaps \cup {Nil}, tags : SUBSET Tags, added : Marks]

CallRecord ==
    [pc : {"idle", "begun", "named", "checked", "merged", "tagged", "gathering",
           "loading", "sizing", "storing", "counting", "writing", "done"},
     logger : Loggers, fields : Locations \cup {Nil},
     names : SUBSET OutputNames, tags : SUBSET Tags,
     listed : Windows, next : 1..(MaxCopies + 1), copies : Seq(CopyType)]

CallType ==
    /\ call \in [Callers -> CallRecord]
    /\ \A c \in Callers :
         /\ call[c].logger \in exists
         /\ IsSlice(arrays, call[c].listed)
         /\ call[c].next <= call[c].listed.len + 1
         /\ Len(call[c].copies) < call[c].next
         /\ call[c].listed.len <= MaxCopies
         /\ call[c].pc \in {"loading", "sizing", "storing", "counting"} => call[c].copies # <<>>

CacheType ==
    /\ cache \subseteq Loggers \X OutputNames
    /\ cacheSize <= Cardinality(cache)

\* TypeOK: every variable has its type, the slices of different loggers look
\* at different arrays, and the size of the cache counts no entry twice.
TypeOK == setup \in Setups /\ FamilyType /\ MapsType /\ SlicesType /\ CallType /\ CacheType

-----------------------------------------------------------------------------
(* Properties.                                                              *)

Carried(m) == IF m.fields = Nil THEN Empty ELSE heap[m.fields]

Gone(c) == call[c].pc \in {"writing", "done"}

\* The message went, once and in their order, to the outputs its logger had
\* at one moment of the call that were named: by the caller or, for a caller
\* that named none, by the logger at one moment of the call.
RightOutputs(c) ==
    LET copies == call[c].copies IN
    \E n, s \in seen[c] :
      LET names == IF asked[c].names = {} THEN Names(n.outputs) ELSE asked[c].names
      IN /\ \A i \in DOMAIN copies :
              /\ copies[i].from \in DOMAIN s.outputs
              /\ copies[i].output = s.outputs[copies[i].from]
              /\ copies[i].output.name \in names
         /\ \A i, j \in DOMAIN copies : i < j => copies[i].from < copies[j].from
         /\ \A k \in DOMAIN s.outputs : s.outputs[k].name \in names =>
              \E i \in DOMAIN copies : copies[i].from = k

\* Every copy carries the fields the caller meant over the global ones of one
\* moment of the call, whatever the outputs did to their own copies; only a
\* message whose fields are nil may go without any.
RightFields(c) ==
    LET copies == call[c].copies
        own == IF asked[c].fields = Nil THEN Empty ELSE asked[c].fields
    IN \/ \E g \in seen[c] : \A i \in DOMAIN copies :
            Carried(copies[i]) = Over(Over(g.fields, own), copies[i].added)
       \/ asked[c].fields = Nil /\ \A i \in DOMAIN copies : copies[i].fields = Nil

\* Every copy carries the tags the caller gave and the global ones of one
\* moment of the call.
RightTags(c) ==
    \E t \in seen[c] : \A i \in DOMAIN call[c].copies :
      call[c].copies[i].tags = asked[c].tags \cup Members(t.tags)

\* Routed: whatever is reconfigured while process and processOutputs run, a
\* message reaches the outputs, with the tags, that its logger had while it
\* was on its way (sypl.go 700-760 and 850-880).
Routed == \A c \in Callers : Gone(c) => RightOutputs(c) /\ RightTags(c)

\* Delivered: it has the fields too.
Delivered == Routed /\ \A c \in Callers : Gone(c) => RightFields(c)

\* MatchersBounded: the cache of matchers exceeds its bound by less than the
\* number of goroutines that print (debug.go 168-211).
MatchersBounded == Cardinality(cache) <= MaxCached + Cardinality(Callers) - 1

\* GlobalsKept: a message has every global field that its logger had at one
\* moment of the call, under its own value or the message's (sypl.go 735).
GlobalsKept ==
    \A c \in Callers : Gone(c) =>
      \E g \in seen[c] : \A i \in DOMAIN call[c].copies :
        DOMAIN g.fields \subseteq DOMAIN Carried(call[c].copies[i])

-----------------------------------------------------------------------------
(* The loggers as values.                                                   *)

Follows(l) == fieldsOf[l] \in {AppMap(a) : a \in AppMaps}

ownFields == [l \in Loggers |-> IF Follows(l) THEN Empty ELSE GlobalFields(l)]
followed == [l \in Loggers |-> IF Follows(l) THEN fieldsOf[l][2] ELSE Nil]
tagsHeld == [l \in Loggers |-> GlobalTags(l)]
outputsHeld == [l \in Loggers |-> ItsOutputs(l)]
mapsHeld == [a \in AppMaps |-> heap[AppMap(a)]]

Value == INSTANCE LoggerValues WITH
    NoMap <- Nil, own <- ownFields, follows <- followed,
    tags <- tagsHeld, outputs <- outputsHeld, maps <- mapsHeld

\* Isolated: the loggers, with their shared maps and arrays, behave as values
\* of their own: nothing done to one shows in another (sypl.go 674-694,
\* with.go 14-22).
Isolated == Value!Spec
=============================================================================
