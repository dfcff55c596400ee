------------------------------ MODULE Dispatch ------------------------------
(***************************************************************************)
(* One logger at work: calls of the Print family go through the fast gate  *)
(* (fastgate.go) to process (sypl.go), which runs one goroutine per        *)
(* message; each selects the outputs, writes to them concurrently and      *)
(* reports their errors; a Fatal message then flushes, for a bounded time, *)
(* and ends the process.                                                   *)
(*                                                                         *)
(* Meanwhile other goroutines reconfigure the logger and its outputs:      *)
(* every read of a setting is a step of its own, because each takes and    *)
(* releases its own lock.  Sinks fail, and may never return.               *)
(***************************************************************************)
EXTENDS Integers, FiniteSets

CONSTANTS
    Callers,        \* goroutines that log
    Slots,          \* a call carries one message for each of some slots
    NumOutputs,     \* outputs, numbered in registration order
    Levels,         \* levels of outputs; 0 is None, 1 Fatal
    Messages,       \* messages that are logged
    Setups,         \* how the logger may be set up at first
    Environments,   \* what SYPL_FILTER and SYPL_LEVEL may be
    WritesMayHang,  \* may a sink never return from a write?
    MaxChanges      \* bound: reconfigurations and changes of the sinks

Outputs == 1..NumOutputs

Fatal == 1

Flags == {"None", "Force", "Mute", "Skip", "SkipAndForce", "SkipAndMute"}

\* The goroutines of process, each with its message.
Routines == Callers \X Slots

\* What a message is to this module; names = {} when it names no output.
AnyMessage == [level : Nat, flag : Flags, names : SUBSET Outputs]

NoMessage == [level |-> 0, flag |-> "None", names |-> {}]

\* Outputs 1..registered have been added; the others have been built.
AnySetup == [registered : 0..NumOutputs,
             status : [Outputs -> {"Enabled", "Disabled"}],
             maxLevel : [Outputs -> Levels],
             fastGate : {"on", "off"},
             handler : {"set", "nil"}]

\* SYPL_LEVEL does not match the output.
Unmatched == -1

\* SYPL_FILTER as this logger sees it; whether SYPL_LEVEL is set and, if it is,
\* the level it has for each output, whatever it is that they match by.
AnyEnvironment == [filter : {"unset", "matches", "excludes"},
                   levelSet : BOOLEAN,
                   levels : [Outputs -> Nat \cup {Unmatched}]]

ASSUME DispatchAssumption ==
    /\ NumOutputs \in Nat
    /\ Levels \subseteq Nat
    /\ Messages \subseteq AnyMessage
    /\ Setups \subseteq AnySetup
    /\ Environments \subseteq AnyEnvironment
    /\ WritesMayHang \in BOOLEAN
    /\ MaxChanges \in Nat

VARIABLES
    \* The logger and its outputs.
    registered, status, maxLevel, fastGate, handler,
    env,            \* the two environment variables; nobody changes them here
    \* The sinks.
    sink,           \* what a write to the output's writer does
    stuck,          \* outputs whose Flush does not return
    \* The calls.
    callPc, gateLevel, gateCursor, upto, flushCursor,
    flushFailed,    \* outputs whose Flush failed: the errors that Flush joins
    \* The goroutines of process.
    pc, msg, names, cursor, last, pending, inSink, failing,
    life,           \* of the operating system's process
    \* History.
    landed, failed, dropped, reported,
    flushReported,  \* outputs whose Flush error the handler was given
    touched,        \* outputs reconfigured since the call began; 0: the handler
    known,          \* outputs that were registered when the call began
    changes

loggerVars == <<registered, status, maxLevel, fastGate, handler, env>>
sinkVars == <<sink, stuck>>
flushVars == <<flushCursor, flushFailed, flushReported>>
callVars == <<callPc, gateLevel, gateCursor, upto, flushVars>>
routineVars == <<pc, msg, names, cursor, last, pending, inSink, failing>>
fateVars == <<landed, failed, dropped, reported>>
watchVars == <<touched, known, changes>>

vars == <<loggerVars, sinkVars, callVars, routineVars, life, fateVars, watchVars>>

Mine(c) == {g \in Routines : g[1] = c}

----------------------------------------------------------------------------
(* A call begins.                                                          *)

\* A message without options; only such a call may be gated.
Plain(m) == m.flag = "None" /\ m.names = {}

\* Messages m for the given slots; gate tells whether the call asks the gate.
Call(c, m, gate) ==
    /\ callPc[c] \in {"idle", "returned"}
    /\ callPc' = [callPc EXCEPT ![c] = IF gate THEN "gate" ELSE "waiting"]
    /\ msg' = [g \in Routines |->
                  IF g \notin Mine(c) THEN msg[g]
                  ELSE IF g[2] \in DOMAIN m THEN m[g[2]] ELSE NoMessage]
    /\ pc' = [g \in Routines |->
                  IF g \notin Mine(c) THEN pc[g]
                  ELSE IF g[2] \notin DOMAIN m THEN "none"
                  ELSE IF gate THEN "gated" ELSE "started"]
    /\ landed' = [g \in Routines |-> IF g \in Mine(c) THEN {} ELSE landed[g]]
    /\ failed' = [g \in Routines |-> IF g \in Mine(c) THEN {} ELSE failed[g]]
    /\ dropped' = [g \in Routines |-> IF g \in Mine(c) THEN {} ELSE dropped[g]]
    /\ reported' = [g \in Routines |-> IF g \in Mine(c) THEN {} ELSE reported[g]]
    /\ touched' = [touched EXCEPT ![c] = {}]
    /\ known' = [known EXCEPT ![c] = registered]
    /\ UNCHANGED <<loggerVars, sinkVars, gateLevel, gateCursor, upto,
                   flushVars, names, cursor, last, pending, inSink, failing,
                   life, changes>>

\* Print, PrintWithOptions and their kin: one message.
PrintOne(c) ==
    \E s \in Slots, m \in Messages : Call(c, [x \in {s} |-> m], Plain(m))

\* PrintMessage and PrintMessagesToOutputs: messages that bypass the gate.
PrintMessages(c) ==
    \E some \in SUBSET Slots \ {{}} :
        \E m \in [some -> Messages] : Call(c, m, FALSE)

----------------------------------------------------------------------------
(* fastGated.                                                              *)

\* The message enters process.
Enter(c) ==
    /\ callPc' = [callPc EXCEPT ![c] = "waiting"]
    /\ pc' = [g \in Routines |->
                IF g \in Mine(c) /\ pc[g] = "gated" THEN "started" ELSE pc[g]]

Asking(c) == {g \in Mine(c) : pc[g] = "gated"}

\* Faulty variant: the gate forgets SYPL_LEVEL, which may raise levels.
FilterSet == env.filter # "unset"

EnvironmentSet == env.levelSet \/ env.filter # "unset"

\* The gate is off, or never applies to this call.
GateDefers(c) ==
    /\ callPc[c] = "gate"
    /\ fastGate = "off" \/ EnvironmentSet \/ \E g \in Asking(c) : msg[g].level = Fatal
    /\ Enter(c)
    /\ UNCHANGED <<loggerVars, sinkVars, gateLevel, gateCursor, upto,
                   flushVars, msg, names, cursor, last, pending, inSink,
                   failing, life, fateVars, watchVars>>

GateStart(c) ==
    /\ callPc[c] = "gate"
    /\ fastGate = "on"
    /\ ~EnvironmentSet
    /\ \A g \in Asking(c) : msg[g].level # Fatal
    /\ callPc' = [callPc EXCEPT ![c] = "scan"]
    /\ gateLevel' = [gateLevel EXCEPT ![c] = 0]
    /\ gateCursor' = [gateCursor EXCEPT ![c] = 1]
    /\ upto' = [upto EXCEPT ![c] = registered]
    /\ UNCHANGED <<loggerVars, sinkVars, flushVars, routineVars, life,
                   fateVars, watchVars>>

GateScan(c) ==
    /\ callPc[c] = "scan"
    /\ gateCursor[c] <= upto[c]
    /\ gateCursor' = [gateCursor EXCEPT ![c] = @ + 1]
    /\ gateLevel' = [gateLevel EXCEPT ![c] =
            IF /\ status[gateCursor[c]] = "Enabled"
               /\ maxLevel[gateCursor[c]] > @
            THEN maxLevel[gateCursor[c]] ELSE @]
    /\ UNCHANGED <<loggerVars, sinkVars, callPc, upto, flushVars,
                   routineVars, life, fateVars, watchVars>>

Above(c) == \E g \in Asking(c) : msg[g].level > gateLevel[c]

GateDecides(c) ==
    /\ callPc[c] = "scan"
    /\ gateCursor[c] > upto[c]
    /\ \/ /\ Above(c)
          /\ callPc' = [callPc EXCEPT ![c] = "returned"]
          /\ pc' = [g \in Routines |-> IF g \in Asking(c) THEN "done" ELSE pc[g]]
       \/ ~Above(c) /\ Enter(c)
    /\ gateLevel' = [gateLevel EXCEPT ![c] = 0]
    /\ gateCursor' = [gateCursor EXCEPT ![c] = 1]
    /\ upto' = [upto EXCEPT ![c] = 0]
    /\ UNCHANGED <<loggerVars, sinkVars, flushVars, msg, names, cursor, last,
                   pending, inSink, failing, life, fateVars, watchVars>>

----------------------------------------------------------------------------
(* process and processOutputs.                                             *)

\* The early returns.
Suppressed(m) == m.flag = "SkipAndMute" \/ env.filter = "excludes"

\* A routine that ends early sets no exit flag: its level does not count.
ProcessSkips(g) ==
    /\ pc[g] = "started"
    /\ Suppressed(msg[g])
    /\ pc' = [pc EXCEPT ![g] = "skipped"]
    /\ UNCHANGED <<loggerVars, sinkVars, callVars, msg, names, cursor, last,
                   pending, inSink, failing, life, fateVars, watchVars>>

\* The names of the outputs the message is for.
ProcessNames(g) ==
    /\ pc[g] = "started"
    /\ ~Suppressed(msg[g])
    /\ names' = [names EXCEPT ![g] =
                    IF msg[g].names = {} THEN 1..registered ELSE msg[g].names]
    /\ pc' = [pc EXCEPT ![g] = "named"]
    /\ UNCHANGED <<loggerVars, sinkVars, callVars, msg, cursor, last, pending,
                   inSink, failing, life, fateVars, watchVars>>

GatherStart(g) ==
    /\ pc[g] = "named"
    /\ last' = [last EXCEPT ![g] = registered]
    /\ cursor' = [cursor EXCEPT ![g] = 1]
    /\ pending' = [pending EXCEPT ![g] = {}]
    /\ pc' = [pc EXCEPT ![g] = "gathering"]
    /\ UNCHANGED <<loggerVars, sinkVars, callVars, msg, names, inSink,
                   failing, life, fateVars, watchVars>>

Eligible(g, o) == status[o] = "Enabled" /\ o \in names[g]

Gather(g) ==
    /\ pc[g] = "gathering"
    /\ cursor[g] <= last[g]
    /\ cursor' = [cursor EXCEPT ![g] = @ + 1]
    /\ pending' = [pending EXCEPT ![g] =
                    @ \cup {o \in {cursor[g]} : Eligible(g, o)}]
    /\ UNCHANGED <<loggerVars, sinkVars, callVars, pc, msg, names, last,
                   inSink, failing, life, fateVars, watchVars>>

FanOut(g) ==
    /\ pc[g] = "gathering"
    /\ cursor[g] > last[g]
    /\ pc' = [pc EXCEPT ![g] = "writing"]
    /\ names' = [names EXCEPT ![g] = {}]
    /\ cursor' = [cursor EXCEPT ![g] = 1]
    /\ last' = [last EXCEPT ![g] = 0]
    /\ UNCHANGED <<loggerVars, sinkVars, callVars, msg, pending, inSink,
                   failing, life, fateVars, watchVars>>

----------------------------------------------------------------------------
(* writeToOutput, and the decision of Output.Write; processors leave the   *)
(* message as it is.                                                       *)

\* SYPL_LEVEL takes the place of the maximum level where it matches the output;
\* the copy has its matchers, since the variable was set when it was made.
FinalMaxLevel(o) ==
    IF env.levelSet /\ env.levels[o] # Unmatched THEN env.levels[o] ELSE maxLevel[o]

Passes(m, max) ==
    \/ m.flag \in {"Force", "SkipAndForce"}
    \/ /\ m.level # 0
       /\ m.level <= max
       /\ m.flag \notin {"Mute", "SkipAndMute"}

OutputDecides(g, o) ==
    /\ pc[g] = "writing"
    /\ o \in pending[g]
    /\ pending' = [pending EXCEPT ![g] = @ \ {o}]
    /\ inSink' = [inSink EXCEPT ![g] =
                    @ \cup {x \in {o} : Passes(msg[g], FinalMaxLevel(o))}]
    /\ UNCHANGED <<loggerVars, sinkVars, callVars, pc, msg, names, cursor,
                   last, failing, life, fateVars, watchVars>>

\* Output.write: the errors of a broken pipe and of a closed writer are
\* swallowed.
SinkReturns(g, o) ==
    /\ o \in inSink[g]
    /\ inSink' = [inSink EXCEPT ![g] = @ \ {o}]
    /\ \/ /\ sink[o] = "works"
          /\ landed' = [landed EXCEPT ![g] = @ \cup {o}]
          /\ UNCHANGED <<failing, failed, dropped>>
       \/ /\ sink[o] = "gone"
          /\ dropped' = [dropped EXCEPT ![g] = @ \cup {o}]
          /\ UNCHANGED <<failing, landed, failed>>
       \/ /\ sink[o] = "fails"
          /\ failing' = [failing EXCEPT ![g] = @ \cup {o}]
          /\ failed' = [failed EXCEPT ![g] = @ \cup {o}]
          /\ UNCHANGED <<landed, dropped>>
    /\ UNCHANGED <<loggerVars, sinkVars, callVars, pc, msg, names, cursor,
                   last, pending, life, reported, watchVars>>

\* The error goes to the handler that is set by now, if any.
ReportError(g, o) ==
    /\ o \in failing[g]
    /\ failing' = [failing EXCEPT ![g] = @ \ {o}]
    /\ reported' = [reported EXCEPT ![g] = @ \cup {x \in {o} : handler = "set"}]
    /\ UNCHANGED <<loggerVars, sinkVars, callVars, pc, msg, names, cursor,
                   last, pending, inSink, life, landed, failed, dropped,
                   watchVars>>

\* Faulty variant: the writes are started and not waited for.
WritesStarted(g) == pending[g] = {}

WritesDone(g) == pending[g] = {} /\ inSink[g] = {} /\ failing[g] = {}

RoutineEnds(g) ==
    /\ pc[g] = "writing"
    /\ WritesDone(g)
    /\ pc' = [pc EXCEPT ![g] = "done"]
    /\ UNCHANGED <<loggerVars, sinkVars, callVars, msg, names, cursor, last,
                   pending, inSink, failing, life, fateVars, watchVars>>

----------------------------------------------------------------------------
(* The end of process: wait for the goroutines, then exit after a Fatal.   *)

\* Faulty variant: a Fatal message that was skipped ends the process, too.
ShouldExitAnyway(c) == \E g \in Mine(c) : msg[g].level = Fatal

ShouldExit(c) == \E g \in Mine(c) : pc[g] = "done" /\ msg[g].level = Fatal

AllEnded(c) == \A g \in Mine(c) : pc[g] \in {"none", "skipped", "done"}

CallReturns(c) ==
    /\ callPc[c] = "waiting"
    /\ AllEnded(c)
    /\ ~ShouldExit(c)
    /\ callPc' = [callPc EXCEPT ![c] = "returned"]
    /\ UNCHANGED <<loggerVars, sinkVars, gateLevel, gateCursor, upto,
                   flushVars, routineVars, life, fateVars, watchVars>>

\* flushBeforeExit: a goroutine flushes the outputs in registration order.
FlushStart(c) ==
    /\ callPc[c] = "waiting"
    /\ AllEnded(c)
    /\ ShouldExit(c)
    /\ callPc' = [callPc EXCEPT ![c] = "flushing"]
    /\ flushCursor' = [flushCursor EXCEPT ![c] = 1]
    /\ upto' = [upto EXCEPT ![c] = registered]
    /\ UNCHANGED <<loggerVars, sinkVars, gateLevel, gateCursor, flushFailed,
                   flushReported, routineVars, life, fateVars, watchVars>>

\* One Flush, unless the output has none; an error does not end the loop.
FlushNext(c) ==
    /\ callPc[c] = "flushing"
    /\ flushCursor[c] <= upto[c]
    /\ flushCursor[c] \notin stuck
    /\ flushCursor' = [flushCursor EXCEPT ![c] = @ + 1]
    /\ \/ flushFailed' = [flushFailed EXCEPT ![c] = @ \cup {flushCursor[c]}]
       \/ UNCHANGED flushFailed
    /\ UNCHANGED <<loggerVars, sinkVars, callPc, gateLevel, gateCursor, upto,
                   flushReported, routineVars, life, fateVars, watchVars>>

\* The flush is through before the timer: there is no way back to it.
FlushEnds(c) ==
    /\ callPc[c] = "flushing"
    /\ flushCursor[c] > upto[c]
    /\ callPc' = [callPc EXCEPT ![c] = "flushed"]
    /\ UNCHANGED <<loggerVars, sinkVars, gateLevel, gateCursor, upto,
                   flushCursor, flushFailed, routineVars, life, fateVars, watchVars>>

\* Faulty variant: the error of the flush is dropped.
FlushIsSilent(c) == FlushEnds(c) /\ UNCHANGED flushReported

\* Its errors, joined, go to the handler that is set by now, if any.
FlushReports(c) ==
    /\ FlushEnds(c)
    /\ flushReported' = [flushReported EXCEPT ![c] =
                            {o \in flushFailed[c] : handler = "set"}]

Exit(c) ==
    /\ life' = "exited"
    /\ callPc' = [callPc EXCEPT ![c] = "exited"]
    /\ UNCHANGED <<loggerVars, sinkVars, gateLevel, gateCursor, upto,
                   flushVars, routineVars, fateVars, watchVars>>

FlushedExit(c) == callPc[c] = "flushed" /\ Exit(c)

\* Faulty variant: no timer.
NoTimeout(c) == FALSE /\ Exit(c)

\* fatalFlushTimeout.
TimedOutExit(c) == callPc[c] = "flushing" /\ Exit(c)

----------------------------------------------------------------------------
(* Reconfiguration, and the sinks.                                         *)

Change(settings) ==
    /\ changes < MaxChanges
    /\ changes' = changes + 1
    /\ touched' = [c \in Callers |-> touched[c] \cup settings]
    /\ UNCHANGED <<callVars, routineVars, life, fateVars, known, env>>

SetStatus(o) ==
    /\ \E s \in {"Enabled", "Disabled"} : status' = [status EXCEPT ![o] = s]
    /\ Change({o})
    /\ UNCHANGED <<registered, maxLevel, fastGate, handler, sinkVars>>

SetMaxLevel(o) ==
    /\ \E l \in Levels : maxLevel' = [maxLevel EXCEPT ![o] = l]
    /\ Change({o})
    /\ UNCHANGED <<registered, status, fastGate, handler, sinkVars>>

AddOutput ==
    /\ registered < NumOutputs
    /\ registered' = registered + 1
    /\ Change({})
    /\ UNCHANGED <<status, maxLevel, fastGate, handler, sinkVars>>

SetFastGate ==
    /\ \E switch \in {"on", "off"} : fastGate' = switch
    /\ Change({})
    /\ UNCHANGED <<registered, status, maxLevel, handler, sinkVars>>

SetErrorHandler ==
    /\ \E h \in {"set", "nil"} : handler' = h
    /\ Change({0})
    /\ UNCHANGED <<registered, status, maxLevel, fastGate, sinkVars>>

\* A writer fails with some error, is closed or its pipe broken ("gone"), or
\* never returns; and may recover.
SinkBehaviours ==
    {"works", "fails", "gone"} \cup (IF WritesMayHang THEN {"hangs"} ELSE {})

SinkChanges(o) ==
    /\ \/ /\ \E s \in SinkBehaviours : sink' = [sink EXCEPT ![o] = s]
          /\ UNCHANGED stuck
       \/ /\ stuck' = stuck \cup {o}
          /\ UNCHANGED sink
    /\ Change({})
    /\ UNCHANGED <<registered, status, maxLevel, fastGate, handler>>

----------------------------------------------------------------------------
Init ==
    /\ \E setup \in Setups :
          /\ registered = setup.registered
          /\ status = setup.status
          /\ maxLevel = setup.maxLevel
          /\ fastGate = setup.fastGate
          /\ handler = setup.handler
    /\ env \in Environments
    /\ sink = [o \in Outputs |-> "works"]
    /\ stuck = {}
    /\ callPc = [c \in Callers |-> "idle"]
    /\ gateLevel = [c \in Callers |-> 0]
    /\ gateCursor = [c \in Callers |-> 1]
    /\ upto = [c \in Callers |-> 0]
    /\ flushCursor = [c \in Callers |-> 1]
    /\ flushFailed = [c \in Callers |-> {}]
    /\ flushReported = [c \in Callers |-> {}]
    /\ pc = [g \in Routines |-> "none"]
    /\ msg = [g \in Routines |-> NoMessage]
    /\ names = [g \in Routines |-> {}]
    /\ cursor = [g \in Routines |-> 1]
    /\ last = [g \in Routines |-> 0]
    /\ pending = [g \in Routines |-> {}]
    /\ inSink = [g \in Routines |-> {}]
    /\ failing = [g \in Routines |-> {}]
    /\ life = "running"
    /\ landed = [g \in Routines |-> {}]
    /\ failed = [g \in Routines |-> {}]
    /\ dropped = [g \in Routines |-> {}]
    /\ reported = [g \in Routines |-> {}]
    /\ touched = [c \in Callers |-> {}]
    /\ known = [c \in Callers |-> 0]
    /\ changes = 0

GateStep(c) == GateDefers(c) \/ GateStart(c) \/ GateScan(c) \/ GateDecides(c)

RoutineStep(g) ==
    \/ ProcessSkips(g) \/ ProcessNames(g) \/ GatherStart(g) \/ Gather(g)
    \/ FanOut(g) \/ RoutineEnds(g)

WriteStep(g, o) == OutputDecides(g, o) \/ SinkReturns(g, o) \/ ReportError(g, o)

EndStep(c) ==
    \/ CallReturns(c) \/ FlushStart(c) \/ FlushNext(c) \/ FlushReports(c)
    \/ FlushedExit(c)

Reconfigure ==
    \/ AddOutput \/ SetFastGate \/ SetErrorHandler
    \/ \E o \in Outputs : SetStatus(o) \/ SetMaxLevel(o) \/ SinkChanges(o)

\* Nothing happens after os.Exit.
Next ==
    /\ life = "running"
    /\ \/ \E c \in Callers :
             \/ PrintOne(c) \/ PrintMessages(c) \/ GateStep(c) \/ EndStep(c)
             \/ TimedOutExit(c)
       \/ \E g \in Routines :
             RoutineStep(g) \/ \E o \in Outputs : WriteStep(g, o)
       \/ Reconfigure

Spec == Init /\ [][Next]_vars

(* Every goroutine is scheduled, the timer fires; sinks that do not hang   *)
(* return, and so does the error handler.  The calls and the changes are   *)
(* the environment's.                                                      *)
Fairness ==
    /\ \A c \in Callers :
          /\ WF_vars(life = "running" /\ GateStep(c))
          /\ WF_vars(life = "running" /\ EndStep(c))
          /\ WF_vars(life = "running" /\ TimedOutExit(c))
    /\ \A g \in Routines :
          /\ WF_vars(life = "running" /\ RoutineStep(g))
          /\ \A o \in Outputs : WF_vars(life = "running" /\ WriteStep(g, o))

FairSpec == Spec /\ Fairness

----------------------------------------------------------------------------
(* Properties.                                                             *)

CallType ==
    /\ callPc \in [Callers -> {"idle", "gate", "scan", "waiting", "returned",
                               "flushing", "flushed", "exited"}]
    /\ gateLevel \in [Callers -> Levels \cup {0}]
    /\ gateCursor \in [Callers -> 1..(NumOutputs + 1)]
    /\ upto \in [Callers -> 0..NumOutputs]
    /\ flushCursor \in [Callers -> 1..(NumOutputs + 1)]
    /\ flushFailed \in [Callers -> SUBSET Outputs]
    /\ flushReported \in [Callers -> SUBSET Outputs]
    /\ touched \in [Callers -> SUBSET (Outputs \cup {0})]
    /\ known \in [Callers -> 0..NumOutputs]

RoutineType ==
    /\ pc \in [Routines -> {"none", "gated", "started", "skipped", "named",
                            "gathering", "writing", "done"}]
    /\ msg \in [Routines -> Messages \cup {NoMessage}]
    /\ names \in [Routines -> SUBSET Outputs]
    /\ cursor \in [Routines -> 1..(NumOutputs + 1)]
    /\ last \in [Routines -> 0..NumOutputs]

WriteType ==
    /\ pending \in [Routines -> SUBSET Outputs]
    /\ inSink \in [Routines -> SUBSET Outputs]
    /\ failing \in [Routines -> SUBSET Outputs]
    /\ landed \in [Routines -> SUBSET Outputs]
    /\ failed \in [Routines -> SUBSET Outputs]
    /\ dropped \in [Routines -> SUBSET Outputs]
    /\ reported \in [Routines -> SUBSET Outputs]

LoggerType ==
    /\ registered \in 0..NumOutputs
    /\ status \in [Outputs -> {"Enabled", "Disabled"}]
    /\ maxLevel \in [Outputs -> Levels]
    /\ sink \in [Outputs -> SinkBehaviours]
    /\ stuck \subseteq Outputs
    /\ env \in Environments
    /\ changes \in Nat

\* Every variable keeps its type; no write is under way in a goroutine that
\* is not writing, and a process that was ended by nobody runs.
TypeOK ==
    /\ CallType /\ RoutineType /\ WriteType /\ LoggerType
    /\ \A g \in Routines :
          pc[g] \notin {"gathering", "writing"} =>
              pending[g] \cup inSink[g] \cup failing[g] = {}
    /\ life \in {"running", "exited"}
    /\ life = "exited" <=> \E c \in Callers : callPc[c] = "exited"

\* What the configuration asks for: output o gets the message of g.
Wanted(g, o) ==
    /\ ~Suppressed(msg[g])
    /\ status[o] = "Enabled"
    /\ msg[g].names = {} \/ o \in msg[g].names
    /\ Passes(msg[g], FinalMaxLevel(o))

\* The call of g is over: it returned, or is about to end the process.
Over(g) ==
    pc[g] # "none" /\ callPc[g[1]] \in {"returned", "flushing", "flushed", "exited"}

\* When a call is over, each of its messages has been handed exactly to the
\* writers of the outputs that want it, as far as nobody reconfigured them in
\* the meantime.  The gate, taken or not, makes no difference, whatever
\* SYPL_LEVEL and SYPL_FILTER are (fastgate.go:30-31), and a Fatal does not cut
\* off the other messages of its call.
HandedExactly ==
    \A g \in Routines : Over(g) =>
        \A o \in (1..known[g[1]]) \ touched[g[1]] :
            o \in landed[g] \cup failed[g] \cup dropped[g] <=> Wanted(g, o)

\* No goroutine outlives the call that started it.
NothingOutlives ==
    \A g \in Routines : Over(g) =>
        /\ pc[g] \in {"skipped", "done"}
        /\ pending[g] \cup inSink[g] \cup failing[g] = {}

HeldUp(g) == inSink[g] # {} /\ \A o \in inSink[g] : sink[o] = "hangs"

\* A step of the call, or of one of its goroutines, is enabled.
CanGo(c) ==
    \/ callPc[c] \in {"gate", "scan", "flushing", "flushed"}
    \/ AllEnded(c)
    \/ \E g \in Mine(c) :
          \/ pc[g] \in {"started", "named", "gathering"}
          \/ pc[g] = "writing" /\ (pending[g] \cup failing[g] # {} \/ ~HeldUp(g))

\* A call that is under way waits for nothing but writers that hang: not for
\* another call, nor for a goroutine of its own that nobody started.
OnlyWritersHoldUp ==
    life = "running" => \A c \in Callers :
        callPc[c] \in {"gate", "scan", "waiting", "flushing", "flushed"} =>
            CanGo(c) \/ \E g \in Mine(c) : HeldUp(g)

\* Each output gets what it wants, and the call waits for that and for no more.
ServedFaithfully == HandedExactly /\ NothingOutlives /\ OnlyWritersHoldUp

\* The errors of writes: when a call is over, those of its failed writes have
\* been reported, if the handler was set all the time, and no success ever is.
WriteErrorsReported ==
    \A g \in Routines :
        /\ reported[g] \subseteq failed[g]
        /\ Over(g) /\ handler = "set" /\ 0 \notin touched[g[1]] =>
              reported[g] = failed[g]

\* The errors of the flush before a Fatal exit: the handler is given those of
\* all outputs whose Flush failed, at once, or, when the time is up, none of
\* them.  Unless the time is up, each output has been flushed that was there
\* when the call began, the failures of others notwithstanding.
FlushErrorsReported ==
    \A c \in Callers :
        /\ flushReported[c] \in {{}, flushFailed[c]}
        /\ callPc[c] = "flushed" =>
              /\ known[c] < flushCursor[c]
              /\ handler = "set" /\ 0 \notin touched[c] =>
                    flushReported[c] = flushFailed[c]

\* The error handler is given the errors of failed writes and of the flush
\* before an exit, and nothing else (writeToOutput, flushBeforeExit).
ErrorsReported == WriteErrorsReported /\ FlushErrorsReported

\* The process ends only after a Fatal message that went through the whole
\* pipeline.
OnlyFatalExits ==
    life = "exited" => \E g \in Routines :
                /\ msg[g].level = Fatal
                /\ ~Suppressed(msg[g])
                /\ Over(g)

\* A Fatal call ends the process - "Fatal's contract - the process terminates"
\* (sypl.go:782) - unless it is muted, or SYPL_FILTER leaves the logger out.
FatalExits ==
    \A c \in Callers :
        (\E g \in Mine(c) : /\ pc[g] \in {"gated", "started"}
                            /\ msg[g].level = Fatal
                            /\ ~Suppressed(msg[g])) ~> life = "exited"

\* Every call comes back, or the process ends.
CallsComeBack ==
    \A c \in Callers :
        callPc[c] \in {"gate", "waiting"} ~> callPc[c] = "returned" \/ life = "exited"

\* CallsEnd: no call goes on for ever, and only a call without a Fatal message
\* comes back.
CallsEnd == CallsComeBack /\ FatalExits
=============================================================================
