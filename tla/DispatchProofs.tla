--------------------------- MODULE DispatchProofs ---------------------------
(***************************************************************************)
(* Proofs about Dispatch, for every number of callers, of messages per     *)
(* call and of outputs, and for every reconfiguration while calls run.     *)
(***************************************************************************)
EXTENDS Dispatch, TLAPS

USE DispatchAssumption
USE DEF loggerVars, sinkVars, flushVars, callVars, routineVars, fateVars, watchVars

----------------------------------------------------------------------------
(* Types.                                                                  *)

\* The goroutines of different calls are different; each belongs to a call.
LEMMA RoutineFacts ==
    ASSUME NEW g \in Routines
    PROVE  /\ g[1] \in Callers
           /\ g[2] \in Slots
           /\ g \in Mine(g[1])
           /\ \A c \in Callers : g \in Mine(c) <=> c = g[1]
BY DEF Routines, Mine

LEMMA MessageTypes == Messages \subseteq AnyMessage /\ NoMessage \in AnyMessage
BY DEF AnyMessage, NoMessage, Flags

LEMMA InitTypes == Init => CallType /\ RoutineType /\ WriteType /\ LoggerType
<1> SUFFICES ASSUME Init PROVE CallType /\ RoutineType /\ WriteType /\ LoggerType
  OBVIOUS
<1>1. CallType  BY DEF Init, CallType
<1>2. RoutineType  BY DEF Init, RoutineType
<1>3. WriteType  BY DEF Init, WriteType
<1>4. LoggerType
  <2>1. PICK setup \in Setups :
          /\ registered = setup.registered
          /\ status = setup.status
          /\ maxLevel = setup.maxLevel
    BY DEF Init
  <2>2. setup \in AnySetup  OBVIOUS
  <2>3. sink \in [Outputs -> SinkBehaviours]  BY DEF Init, SinkBehaviours
  <2> QED  BY <2>1, <2>2, <2>3 DEF Init, LoggerType, AnySetup
<1> QED  BY <1>1, <1>2, <1>3, <1>4

\* A call that begins.
LEMMA CallTypes ==
    ASSUME CallType, RoutineType, WriteType, LoggerType,
           NEW c \in Callers, NEW some \in SUBSET Slots,
           NEW m \in [some -> Messages], NEW gate \in BOOLEAN, Call(c, m, gate)
    PROVE  CallType' /\ RoutineType' /\ WriteType' /\ LoggerType'
<1>1. CallType'  BY Zenon DEF Call, CallType, LoggerType
<1>2. RoutineType'
  <2>1. msg' \in [Routines -> Messages \cup {NoMessage}]
    BY DEF Call, RoutineType, Routines
  <2>2. pc' \in [Routines -> {"none", "gated", "started", "skipped", "named",
                              "gathering", "writing", "done"}]
    BY DEF Call, RoutineType
  <2> QED  BY <2>1, <2>2 DEF Call, RoutineType
<1>3. WriteType'  BY DEF Call, WriteType
<1>4. LoggerType'  BY DEF Call, LoggerType
<1> QED  BY <1>1, <1>2, <1>3, <1>4

LEMMA CallsAreTyped ==
    ASSUME CallType, RoutineType, WriteType, LoggerType, NEW c \in Callers,
           PrintOne(c) \/ PrintMessages(c)
    PROVE  CallType' /\ RoutineType' /\ WriteType' /\ LoggerType'
<1>1. CASE PrintOne(c)
  <2>1. PICK s \in Slots, m \in Messages : Call(c, [x \in {s} |-> m], Plain(m))
    BY <1>1 DEF PrintOne
  <2>2. Plain(m) \in BOOLEAN  BY DEF Plain
  <2>3. [x \in {s} |-> m] \in [{s} -> Messages]  OBVIOUS
  <2> QED  BY <2>1, <2>2, <2>3, CallTypes
<1>2. CASE PrintMessages(c)
  BY <1>2, CallTypes DEF PrintMessages
<1> QED  BY <1>1, <1>2

LEMMA GateTypes ==
    ASSUME CallType, RoutineType, WriteType, LoggerType, NEW c \in Callers,
           GateStep(c)
    PROVE  CallType' /\ RoutineType' /\ WriteType' /\ LoggerType'
<1>1. WriteType' /\ LoggerType'
  <2>1. UNCHANGED <<pending, inSink, failing, fateVars, loggerVars, sinkVars, changes>>
    BY DEF GateStep, GateDefers, GateStart, GateScan, GateDecides
  <2> QED  BY <2>1 DEF WriteType, LoggerType
<1>2. RoutineType'
  <2>1. UNCHANGED <<msg, names, cursor, last>>
    BY DEF GateStep, GateDefers, GateStart, GateScan, GateDecides
  <2>2. pc' \in [Routines -> {"none", "gated", "started", "skipped", "named",
                              "gathering", "writing", "done"}]
    BY DEF GateStep, GateDefers, GateStart, GateScan, GateDecides, Enter, RoutineType
  <2> QED  BY <2>1, <2>2 DEF RoutineType
<1>3. CallType'
  <2>1. CASE GateDefers(c)  BY <2>1 DEF GateDefers, Enter, CallType
  <2>2. CASE GateStart(c)  BY <2>2 DEF GateStart, CallType, LoggerType
  <2>3. CASE GateScan(c)
    <3>1. gateCursor[c] \in Outputs
      BY <2>3 DEF GateScan, CallType, Outputs
    <3>2. maxLevel[gateCursor[c]] \in Levels
      BY <3>1 DEF LoggerType
    <3> QED  BY <2>3, <3>1, <3>2 DEF GateScan, CallType
  <2>4. CASE GateDecides(c)  BY <2>4 DEF GateDecides, Enter, CallType
  <2> QED  BY <2>1, <2>2, <2>3, <2>4 DEF GateStep
<1> QED  BY <1>1, <1>2, <1>3

LEMMA RoutineTypes ==
    ASSUME CallType, RoutineType, WriteType, LoggerType, NEW g \in Routines,
           RoutineStep(g)
    PROVE  CallType' /\ RoutineType' /\ WriteType' /\ LoggerType'
<1>1. CallType' /\ LoggerType'
  <2>1. UNCHANGED <<callVars, loggerVars, sinkVars, watchVars>>
    BY DEF RoutineStep, ProcessSkips, ProcessNames, GatherStart, Gather, FanOut,
           RoutineEnds
  <2> QED  BY <2>1 DEF CallType, LoggerType
<1>2. WriteType'
  <2>1. CASE GatherStart(g)  BY <2>1 DEF GatherStart, WriteType
  <2>2. CASE Gather(g)
    <3>1. cursor[g] \in Outputs
      BY <2>2 DEF Gather, RoutineType, Outputs
    <3> QED  BY <2>2, <3>1 DEF Gather, WriteType
  <2>3. CASE ~GatherStart(g) /\ ~Gather(g)
    <3>1. UNCHANGED <<pending, inSink, failing, fateVars>>
      BY <2>3 DEF RoutineStep, ProcessSkips, ProcessNames, FanOut, RoutineEnds
    <3> QED  BY <3>1 DEF WriteType
  <2> QED  BY <2>1, <2>2, <2>3
<1>3. RoutineType'
  <2>1. CASE ProcessSkips(g)  BY <2>1 DEF ProcessSkips, RoutineType
  <2>2. CASE ProcessNames(g)
    <3>1. 1..registered \subseteq Outputs  BY DEF LoggerType, Outputs
    <3>2. msg[g].names \subseteq Outputs
      BY MessageTypes DEF RoutineType, AnyMessage
    <3> QED  BY <2>2, <3>1, <3>2 DEF ProcessNames, RoutineType
  <2>3. CASE GatherStart(g)  BY <2>3 DEF GatherStart, RoutineType, LoggerType
  <2>4. CASE Gather(g)  BY <2>4 DEF Gather, RoutineType
  <2>5. CASE FanOut(g)  BY <2>5 DEF FanOut, RoutineType
  <2>6. CASE RoutineEnds(g)  BY <2>6 DEF RoutineEnds, RoutineType
  <2> QED  BY <2>1, <2>2, <2>3, <2>4, <2>5, <2>6 DEF RoutineStep
<1> QED  BY <1>1, <1>2, <1>3

LEMMA WriteTypes ==
    ASSUME CallType, RoutineType, WriteType, LoggerType, NEW g \in Routines,
           NEW o \in Outputs, WriteStep(g, o)
    PROVE  CallType' /\ RoutineType' /\ WriteType' /\ LoggerType'
<1>1. CallType' /\ LoggerType' /\ RoutineType'
  <2>1. UNCHANGED <<callVars, loggerVars, sinkVars, watchVars, pc, msg, names,
                    cursor, last>>
    BY DEF WriteStep, OutputDecides, SinkReturns, ReportError
  <2> QED  BY <2>1 DEF CallType, LoggerType, RoutineType
<1>2. WriteType'
  BY DEF WriteStep, OutputDecides, SinkReturns, ReportError, WriteType
<1> QED  BY <1>1, <1>2

LEMMA EndTypes ==
    ASSUME CallType, RoutineType, WriteType, LoggerType, NEW c \in Callers,
           EndStep(c) \/ TimedOutExit(c)
    PROVE  CallType' /\ RoutineType' /\ WriteType' /\ LoggerType'
<1>1. RoutineType' /\ WriteType' /\ LoggerType'
  <2>1. UNCHANGED <<routineVars, fateVars, loggerVars, sinkVars, changes>>
    BY DEF EndStep, CallReturns, FlushStart, FlushNext, FlushEnds, FlushReports, FlushedExit,
           TimedOutExit, Exit
  <2> QED  BY <2>1 DEF RoutineType, WriteType, LoggerType
<1>2. CallType'
  <2>1. CASE CallReturns(c)  BY <2>1 DEF CallReturns, CallType
  <2>2. CASE FlushStart(c)  BY <2>2 DEF FlushStart, CallType, LoggerType
  <2>3. CASE FlushNext(c)
    <3>1. flushCursor[c] \in Outputs
      BY <2>3 DEF FlushNext, CallType, Outputs
    <3>2. flushFailed' \in [Callers -> SUBSET Outputs]
      BY <2>3, <3>1 DEF FlushNext, CallType
    <3>3. flushCursor' \in [Callers -> 1..(NumOutputs + 1)]
      BY <2>3, <3>1 DEF FlushNext, CallType, Outputs
    <3> QED  BY <2>3, <3>2, <3>3 DEF FlushNext, CallType
  <2>4. CASE FlushReports(c)
    <3>1. {o \in flushFailed[c] : handler = "set"} \in SUBSET Outputs
      BY DEF CallType
    <3> QED  BY <2>4, <3>1 DEF FlushReports, FlushEnds, CallType
  <2>5. CASE FlushedExit(c) \/ TimedOutExit(c)
    BY <2>5 DEF FlushedExit, TimedOutExit, Exit, CallType
  <2> QED  BY <2>1, <2>2, <2>3, <2>4, <2>5 DEF EndStep
<1> QED  BY <1>1, <1>2

LEMMA ReconfigureTypes ==
    ASSUME CallType, RoutineType, WriteType, LoggerType, Reconfigure
    PROVE  CallType' /\ RoutineType' /\ WriteType' /\ LoggerType'
<1>1. RoutineType' /\ WriteType'
  <2>1. UNCHANGED <<routineVars, fateVars>>
    BY DEF Reconfigure, AddOutput, SetFastGate, SetErrorHandler, SetStatus,
           SetMaxLevel, SinkChanges, Change
  <2> QED  BY <2>1 DEF RoutineType, WriteType
<1>2. CallType'
  <2>1. PICK settings \in SUBSET (Outputs \cup {0}) : Change(settings)
    BY DEF Reconfigure, AddOutput, SetFastGate, SetErrorHandler, SetStatus,
           SetMaxLevel, SinkChanges
  <2> QED  BY <2>1 DEF Change, CallType
<1>3. LoggerType'
  BY DEF Reconfigure, AddOutput, SetFastGate, SetErrorHandler, SetStatus,
         SetMaxLevel, SinkChanges, Change, LoggerType, SinkBehaviours
<1> QED  BY <1>1, <1>2, <1>3

\* Every step of the system is one of these.
LEMMA StepKinds ==
    ASSUME [Next]_vars
    PROVE  \/ \E c \in Callers : PrintOne(c) \/ PrintMessages(c)
           \/ \E c \in Callers : GateStep(c)
           \/ \E c \in Callers : EndStep(c) \/ TimedOutExit(c)
           \/ \E g \in Routines : RoutineStep(g)
           \/ \E g \in Routines, o \in Outputs : WriteStep(g, o)
           \/ Reconfigure
           \/ UNCHANGED vars
BY DEF Next

LEMMA StepTypes ==
    CallType /\ RoutineType /\ WriteType /\ LoggerType /\ [Next]_vars
        => CallType' /\ RoutineType' /\ WriteType' /\ LoggerType'
<1> SUFFICES ASSUME CallType, RoutineType, WriteType, LoggerType, [Next]_vars
             PROVE  CallType' /\ RoutineType' /\ WriteType' /\ LoggerType'
  OBVIOUS
<1>1. CASE UNCHANGED vars
  <2>1. UNCHANGED <<loggerVars, sinkVars, callVars, routineVars, fateVars, watchVars>>
    BY <1>1 DEF vars
  <2> QED  BY <2>1 DEF CallType, RoutineType, WriteType, LoggerType
<1> QED
  BY <1>1, StepKinds, CallsAreTyped, GateTypes, RoutineTypes, WriteTypes,
     EndTypes, ReconfigureTypes

----------------------------------------------------------------------------
(* The inductive invariant.                                                *)

Handed(g) == landed[g] \cup failed[g] \cup dropped[g]

Named(g, o) == msg[g].names = {} \/ o \in msg[g].names

Selected(g, o) == status[o] = "Enabled" /\ Named(g, o)

\* The outputs whose treatment the call of g promises.
Due(g) == (1..known[g[1]]) \ touched[g[1]]

\* A message that is still in the gate.
InGate(g) ==
    pc[g] = "gated" => callPc[g[1]] \in {"gate", "scan"} /\ Plain(msg[g])

\* Nothing is written before the writing begins or after it has ended, and
\* the early return is taken for the right reasons.
Phases(g) ==
    /\ pc[g] \notin {"gathering", "writing"} => pending[g] = {}
    /\ pc[g] # "writing" => inSink[g] = {} /\ failing[g] = {}
    /\ pc[g] \notin {"writing", "done"} => Handed(g) = {}
    /\ pc[g] = "skipped" => Suppressed(msg[g])
    /\ pc[g] \in {"named", "gathering", "writing", "done"} =>
          ~Suppressed(msg[g])

\* The loop over the outputs has picked the right ones so far.
Gathered(g) ==
    /\ pc[g] \in {"named", "gathering"} =>
          \A o \in Due(g) : o \in names[g] <=> Named(g, o)
    /\ pc[g] = "gathering" =>
          /\ known[g[1]] <= last[g]
          /\ \A o \in Due(g) :
                o \in pending[g] <=> o < cursor[g] /\ Selected(g, o)

\* Every output that wants the message has it, is being given it or is yet
\* to decide; and no other output gets it.
Delivered(g) ==
    pc[g] \in {"writing", "done"} =>
        \A o \in Due(g) :
            /\ Wanted(g, o) => o \in pending[g] \cup inSink[g] \cup Handed(g)
            /\ o \in inSink[g] \cup Handed(g) => Wanted(g, o)
            /\ o \in pending[g] => Selected(g, o)

RoutineInv(g) == InGate(g) /\ Phases(g) /\ Gathered(g) /\ Delivered(g)

\* The level found so far is not below any output that was scanned.
Scanned(c) ==
    callPc[c] = "scan" =>
        /\ ~EnvironmentSet
        /\ known[c] <= upto[c]
        /\ \A o \in (1..known[c]) \ touched[c] :
              o < gateCursor[c] /\ status[o] = "Enabled" =>
                  maxLevel[o] <= gateLevel[c]

CallInv(c) ==
    /\ known[c] <= registered
    /\ callPc[c] \in {"idle", "returned", "flushing", "flushed", "exited"} => AllEnded(c)
    /\ callPc[c] \in {"gate", "scan"} =>
          \A g \in Mine(c) : pc[g] \in {"none", "gated"}
    /\ \A g, h \in Mine(c) : pc[g] = "gated" /\ pc[h] = "gated" => g = h
    /\ Scanned(c)

TypeInv == CallType /\ RoutineType /\ WriteType /\ LoggerType

ServeInv ==
    /\ TypeInv
    /\ \A g \in Routines : RoutineInv(g)
    /\ \A c \in Callers : CallInv(c)

\* Levels can be compared.
LEMMA LevelTypes ==
    ASSUME TypeInv
    PROVE  /\ \A o \in Outputs : maxLevel[o] \in Nat
           /\ \A c \in Callers : gateLevel[c] \in Nat
           /\ \A g \in Routines : msg[g].level \in Nat
<1>1. Levels \subseteq Nat /\ Levels \cup {0} \subseteq Nat  OBVIOUS
<1>2. \A o \in Outputs : maxLevel[o] \in Levels  BY DEF TypeInv, LoggerType
<1>3. \A c \in Callers : gateLevel[c] \in Levels \cup {0}
  BY DEF TypeInv, CallType
<1>4. \A g \in Routines : msg[g] \in AnyMessage
  BY MessageTypes DEF TypeInv, RoutineType
<1>5. \A g \in Routines : msg[g].level \in Nat  BY <1>4 DEF AnyMessage
<1> QED  BY <1>1, <1>2, <1>3, <1>5

\* A step that leaves a goroutine alone and reconfigures only outputs that
\* count as touched keeps what is known of it.
LEMMA RoutineFrame ==
    ASSUME NEW h \in Routines, RoutineInv(h),
           pc'[h] = pc[h], msg'[h] = msg[h], names'[h] = names[h],
           cursor'[h] = cursor[h], last'[h] = last[h],
           pending'[h] = pending[h], inSink'[h] = inSink[h],
           failing'[h] = failing[h], landed'[h] = landed[h],
           failed'[h] = failed[h], dropped'[h] = dropped[h],
           known'[h[1]] = known[h[1]], env' = env,
           touched[h[1]] \subseteq touched'[h[1]],
           \A o \in Due(h)' : status'[o] = status[o] /\ maxLevel'[o] = maxLevel[o],
           pc[h] = "gated" => callPc'[h[1]] \in {"gate", "scan"}
    PROVE  RoutineInv(h)'
<1>1. Due(h)' \subseteq Due(h)  BY DEF Due
<1>2. Suppressed(msg[h])' <=> Suppressed(msg[h])  BY DEF Suppressed
<1>3. Handed(h)' = Handed(h)  BY DEF Handed
<1>4. \A o \in Due(h)' : /\ Named(h, o)' <=> Named(h, o)
                         /\ Selected(h, o)' <=> Selected(h, o)
                         /\ Wanted(h, o)' <=> Wanted(h, o)
  BY <1>2 DEF Named, Selected, Wanted, FinalMaxLevel, Passes
<1>5. InGate(h)'  BY DEF RoutineInv, InGate, Plain
<1>6. Phases(h)'  BY <1>2, <1>3 DEF RoutineInv, Phases
<1>7. Gathered(h)'  BY <1>1, <1>4 DEF RoutineInv, Gathered
<1>8. Delivered(h)'  BY <1>1, <1>3, <1>4 DEF RoutineInv, Delivered
<1> QED  BY <1>5, <1>6, <1>7, <1>8 DEF RoutineInv

LEMMA CallFrame ==
    ASSUME NEW c \in Callers, CallInv(c), LoggerType, LoggerType', CallType,
           callPc'[c] = callPc[c], gateLevel'[c] = gateLevel[c],
           gateCursor'[c] = gateCursor[c], upto'[c] = upto[c],
           known'[c] = known[c], registered <= registered', env' = env,
           touched[c] \subseteq touched'[c],
           \A o \in (1..known[c]) \ touched'[c] :
                status'[o] = status[o] /\ maxLevel'[o] = maxLevel[o],
           \A g \in Mine(c) : \/ pc'[g] = pc[g]
                              \/ /\ pc[g] \notin {"none", "gated", "skipped", "done"}
                                 /\ pc'[g] # "gated"
    PROVE  CallInv(c)'
<1>1. known'[c] <= registered'  BY DEF CallInv, CallType, LoggerType
<1>2. callPc'[c] \in {"idle", "returned", "flushing", "flushed", "exited"} => AllEnded(c)'
  BY DEF CallInv, AllEnded, Mine
<1>3. \A g, h \in Mine(c) : pc'[g] = "gated" /\ pc'[h] = "gated" => g = h
  BY DEF CallInv
<1>4. Scanned(c)'  BY DEF CallInv, Scanned, EnvironmentSet
<1>5. callPc'[c] \in {"gate", "scan"} =>
          \A g \in Mine(c) : pc'[g] \in {"none", "gated"}
  BY DEF CallInv
<1> QED  BY <1>1, <1>2, <1>3, <1>4, <1>5 DEF CallInv, Mine

LEMMA InitServes == Init => ServeInv
<1> SUFFICES ASSUME Init PROVE ServeInv
  OBVIOUS
<1>1. TypeInv  BY InitTypes DEF TypeInv
<1>2. ASSUME NEW g \in Routines PROVE RoutineInv(g)
  BY <1>2 DEF Init, RoutineInv, InGate, Phases, Gathered, Delivered, Handed
<1>3. ASSUME NEW c \in Callers PROVE CallInv(c)
  BY <1>1, <1>3 DEF Init, CallInv, AllEnded, Mine, Scanned, TypeInv, LoggerType
<1> QED  BY <1>1, <1>2, <1>3 DEF ServeInv

\* A new call finds the goroutines of the old one ended.
LEMMA CallServes ==
    ASSUME ServeInv, NEW c \in Callers, NEW some \in SUBSET Slots,
           NEW m \in [some -> Messages], NEW gate \in BOOLEAN, Call(c, m, gate),
           gate => \E s \in Slots : some = {s} /\ Plain(m[s])
    PROVE  ServeInv'
<1>1. TypeInv'  BY CallTypes DEF ServeInv, TypeInv
<1>2. ASSUME NEW g \in Routines PROVE RoutineInv(g)'
  <2>1. CASE g \in Mine(c)
    <3>1. pc[g] \in {"none", "skipped", "done"}
      BY <2>1 DEF Call, ServeInv, CallInv, AllEnded
    <3>2. pending'[g] = {} /\ inSink'[g] = {} /\ failing'[g] = {}
      BY <1>2, <3>1 DEF Call, ServeInv, RoutineInv, Phases
    <3>3. pc'[g] \in {"none", "gated", "started"}
      BY <1>2, <2>1 DEF Call
    <3>4. Handed(g)' = {}  BY <1>2, <2>1 DEF Call, Handed
    <3>5. pc'[g] = "gated" => callPc'[g[1]] = "gate" /\ Plain(msg'[g])
      BY <1>2, <2>1, RoutineFacts DEF Call, ServeInv, TypeInv, CallType
    <3>6. InGate(g)'  BY <3>5 DEF InGate, Plain
    <3> QED
      BY <3>2, <3>3, <3>4, <3>6 DEF RoutineInv, Phases, Gathered, Delivered
  <2>2. CASE g \notin Mine(c)
    <3>1. g[1] \in Callers /\ g[1] # c  BY <1>2, <2>2, RoutineFacts
    <3>2. RoutineInv(g)  BY <1>2 DEF ServeInv
    <3>3. callPc'[g[1]] = callPc[g[1]] /\ touched'[g[1]] = touched[g[1]]
          /\ known'[g[1]] = known[g[1]]
      BY <3>1 DEF Call, ServeInv, TypeInv, CallType
    <3>4. pc'[g] = pc[g] /\ msg'[g] = msg[g] /\ landed'[g] = landed[g]
          /\ failed'[g] = failed[g] /\ dropped'[g] = dropped[g]
      BY <1>2, <2>2 DEF Call
    <3>5. UNCHANGED <<names, cursor, last, pending, inSink, failing, loggerVars>>
      BY DEF Call
    <3> QED
      BY <1>2, <3>2, <3>3, <3>4, <3>5, RoutineFrame DEF RoutineInv, InGate
  <2> QED  BY <2>1, <2>2
<1>3. ASSUME NEW d \in Callers PROVE CallInv(d)'
  <2>1. CASE d = c
    <3>1. callPc'[c] \in {"gate", "waiting"}
      BY DEF Call, ServeInv, TypeInv, CallType
    <3>2. known'[c] <= registered'
      BY DEF Call, ServeInv, TypeInv, CallType, LoggerType
    <3>3. \A g, h \in Mine(c) : pc'[g] = "gated" /\ pc'[h] = "gated" => g = h
      <4> SUFFICES ASSUME NEW g \in Mine(c), NEW h \in Mine(c),
                          pc'[g] = "gated", pc'[h] = "gated"
                   PROVE  g = h
        OBVIOUS
      <4>1. g \in Routines /\ h \in Routines /\ g[1] = c /\ h[1] = c
        BY DEF Mine
      <4>2. gate /\ g[2] \in some /\ h[2] \in some
        BY <4>1 DEF Call
      <4>3. g[2] = h[2]  BY <4>2
      <4>4. g = <<g[1], g[2]>> /\ h = <<h[1], h[2]>>  BY <4>1 DEF Routines
      <4> QED  BY <4>1, <4>3, <4>4
    <3>4. callPc'[c] = "gate" => \A g \in Mine(c) : pc'[g] \in {"none", "gated"}
      BY DEF Call, Mine, ServeInv, TypeInv, CallType
    <3> QED
      BY <2>1, <3>1, <3>2, <3>3, <3>4 DEF CallInv, Scanned, Mine
  <2>2. CASE d # c
    <3>1. CallInv(d)  BY <1>3 DEF ServeInv
    <3>2. callPc'[d] = callPc[d] /\ touched'[d] = touched[d] /\ known'[d] = known[d]
      BY <1>3, <2>2 DEF Call, ServeInv, TypeInv, CallType
    <3>3. UNCHANGED <<loggerVars, gateLevel, gateCursor, upto>>  BY DEF Call
    <3>4. \A g \in Mine(d) : pc'[g] = pc[g]
      BY <2>2 DEF Call, Mine
    <3>5. LoggerType /\ LoggerType' /\ CallType /\ registered <= registered'
      BY <1>1, <3>3 DEF ServeInv, TypeInv, LoggerType
    <3> QED  BY <1>3, <3>1, <3>2, <3>3, <3>4, <3>5, CallFrame
  <2> QED  BY <2>1, <2>2
<1> QED  BY <1>1, <1>2, <1>3 DEF ServeInv

LEMMA CallsServe ==
    ASSUME ServeInv, NEW c \in Callers, PrintOne(c) \/ PrintMessages(c)
    PROVE  ServeInv'
<1>1. CASE PrintOne(c)
  <2>1. PICK s \in Slots, m \in Messages : Call(c, [x \in {s} |-> m], Plain(m))
    BY <1>1 DEF PrintOne
  <2>2. Plain(m) \in BOOLEAN  BY DEF Plain
  <2>3. [x \in {s} |-> m] \in [{s} -> Messages]  OBVIOUS
  <2>4. Plain(m) => Plain([x \in {s} |-> m][s])  OBVIOUS
  <2> QED  BY <2>1, <2>2, <2>3, <2>4, CallServes
<1>2. CASE PrintMessages(c)
  BY <1>2, CallServes DEF PrintMessages
<1> QED  BY <1>1, <1>2

\* The gate's decision: dropped or not, the message gets what it is due.
LEMMA GateServes ==
    ASSUME ServeInv, NEW c \in Callers, GateStep(c)
    PROVE  ServeInv'
<1>1. TypeInv'  BY GateTypes DEF ServeInv, TypeInv
<1>2. UNCHANGED <<loggerVars, msg, names, cursor, last, pending, inSink,
                  failing, fateVars, watchVars>>
  BY DEF GateStep, GateDefers, GateStart, GateScan, GateDecides
<1>3. callPc[c] \in {"gate", "scan"}
  BY DEF GateStep, GateDefers, GateStart, GateScan, GateDecides
<1>4. \A d \in Callers : d # c =>
          /\ callPc'[d] = callPc[d] /\ gateLevel'[d] = gateLevel[d]
          /\ gateCursor'[d] = gateCursor[d] /\ upto'[d] = upto[d]
  BY DEF GateStep, GateDefers, GateStart, GateScan, GateDecides, Enter,
         ServeInv, TypeInv, CallType
<1>5. \A g \in Routines : pc'[g] # pc[g] => g \in Asking(c)
  BY DEF GateStep, GateDefers, GateStart, GateScan, GateDecides, Enter,
         Asking, ServeInv, TypeInv, RoutineType
<1>6. \A g \in Mine(c) : pc'[g] = "gated" => callPc'[c] \in {"gate", "scan"}
  BY <1>3
  DEF GateStep, GateDefers, GateStart, GateScan, GateDecides, Enter, Asking,
      Mine, ServeInv, TypeInv, CallType
<1>7. ASSUME NEW g \in Routines PROVE RoutineInv(g)'
  <2>1. RoutineInv(g)  BY <1>7 DEF ServeInv
  <2>2. CASE pc'[g] = pc[g]
    <3>1. pc[g] = "gated" => callPc'[g[1]] \in {"gate", "scan"}
      BY <1>4, <1>6, <1>7, <2>1, <2>2, RoutineFacts DEF RoutineInv, InGate
    <3> QED  BY <1>2, <1>7, <2>1, <2>2, <3>1, RoutineFrame
  <2>3. CASE pc'[g] = "started" /\ pc[g] = "gated"
    BY <1>2, <2>1, <2>3
    DEF RoutineInv, InGate, Phases, Gathered, Delivered, Handed
  <2>4. CASE pc'[g] = "done" /\ pc[g] = "gated" /\ GateDecides(c) /\ Above(c)
    <3>1. g \in Asking(c)  BY <1>5, <1>7, <2>4
    <3>2. g[1] = c  BY <3>1 DEF Asking, Mine
    <3>3. \A h \in Asking(c) : h = g
      BY <3>1, <3>2 DEF Asking, ServeInv, CallInv
    <3>4. msg[g].level > gateLevel[c]
      BY <2>4, <3>3 DEF Above
    <3>0. callPc[c] = "scan" /\ upto[c] < gateCursor[c]
      BY <2>4 DEF GateDecides, ServeInv, TypeInv, CallType
    <3>5. ~EnvironmentSet /\ known[c] <= upto[c]
          /\ \A o \in Due(g) : o < gateCursor[c] /\ status[o] = "Enabled" =>
                maxLevel[o] <= gateLevel[c]
      BY <3>0, <3>2 DEF ServeInv, CallInv, Scanned, Due
    <3>6. \A o \in Due(g) :
             o < gateCursor[c] /\ maxLevel[o] \in Nat
      <4>1. known[c] \in 0..NumOutputs /\ upto[c] \in Nat /\ gateCursor[c] \in Nat
        BY DEF ServeInv, TypeInv, CallType
      <4>2. known[c] < gateCursor[c]  BY <3>0, <3>5, <4>1
      <4> QED
        BY <3>2, <4>1, <4>2, LevelTypes DEF Due, ServeInv, Outputs
    <3>7. gateLevel[c] \in Nat /\ msg[g].level \in Nat
      BY <1>7, LevelTypes DEF ServeInv
    <3>8. Plain(msg[g])  BY <2>1, <2>4 DEF RoutineInv, InGate
    <3>9. \A o \in Due(g) : ~Wanted(g, o)
      BY <3>4, <3>5, <3>6, <3>7, <3>8 DEF Wanted, FinalMaxLevel, EnvironmentSet, Passes, Plain
    <3>10. ~Suppressed(msg[g])
      BY <3>5, <3>8 DEF Suppressed, EnvironmentSet, Plain
    <3>11. Handed(g) = {} /\ pending[g] = {} /\ inSink[g] = {} /\ failing[g] = {}
      BY <2>1, <2>4 DEF RoutineInv, Phases
    <3>12. Handed(g)' = Handed(g) /\ Due(g)' = Due(g)
           /\ Suppressed(msg[g])' = Suppressed(msg[g])
      BY <1>2 DEF Handed, Due, Suppressed
    <3>13. \A o \in Due(g) : Wanted(g, o)' = Wanted(g, o)
      BY <1>2 DEF Wanted, Suppressed, FinalMaxLevel, Passes
    <3>14. InGate(g)' /\ Gathered(g)'  BY <2>4 DEF InGate, Gathered
    <3>15. Phases(g)'  BY <1>2, <2>4, <3>10, <3>11, <3>12 DEF Phases
    <3>16. Delivered(g)'
      BY <1>2, <3>9, <3>11, <3>12, <3>13 DEF Delivered
    <3> QED  BY <3>14, <3>15, <3>16 DEF RoutineInv
  <2> QED
    BY <1>5, <1>7, <2>2, <2>3, <2>4
    DEF GateStep, GateDefers, GateStart, GateScan, GateDecides, Enter, Asking,
        ServeInv, TypeInv, RoutineType
<1>8. ASSUME NEW d \in Callers PROVE CallInv(d)'
  <2>1. CallInv(d)  BY <1>8 DEF ServeInv
  <2>2. LoggerType /\ LoggerType' /\ CallType /\ registered <= registered'
    BY <1>1, <1>2 DEF ServeInv, TypeInv, LoggerType
  <2>3. CASE d # c
    <3>1. \A g \in Mine(d) : pc'[g] = pc[g]
      BY <1>5, <2>3 DEF Asking, Mine
    <3> QED  BY <1>2, <1>4, <1>8, <2>1, <2>2, <2>3, <3>1, CallFrame
  <2>4. CASE d = c
    <3>1. known'[c] <= registered'  BY <1>2, <2>1, <2>4 DEF CallInv
    <3>2. \A g, h \in Mine(c) : pc'[g] = "gated" /\ pc'[h] = "gated" => g = h
      <4>1. \A g \in Mine(c) : pc'[g] = "gated" => pc[g] = "gated"
        BY DEF GateStep, GateDefers, GateStart, GateScan, GateDecides, Enter,
               Asking, Mine, ServeInv, TypeInv, RoutineType
      <4> QED  BY <2>1, <2>4, <4>1 DEF CallInv
    <3>3. callPc'[c] = "returned" => AllEnded(c)'
      <4> SUFFICES ASSUME callPc'[c] = "returned" PROVE AllEnded(c)'
        OBVIOUS
      <4>1. GateDecides(c) /\ Above(c)
        BY <1>3
        DEF GateStep, GateDefers, GateStart, GateScan, GateDecides, Enter,
            ServeInv, TypeInv, CallType
      <4>2. \A g \in Mine(c) : pc[g] \in {"none", "gated"}
        BY <1>3 DEF ServeInv, CallInv
      <4> QED  BY <4>1, <4>2 DEF GateDecides, Asking, AllEnded, Mine
    <3>4. callPc'[c] \in {"scan", "waiting", "returned"}
      BY <1>3
      DEF GateStep, GateDefers, GateStart, GateScan, GateDecides, Enter,
          ServeInv, TypeInv, CallType
    <3>5. Scanned(c)'
      <4>1. CASE GateStart(c)
        <5>1. gateCursor'[c] = 1 /\ upto'[c] = registered /\ ~EnvironmentSet
          BY <4>1 DEF GateStart, ServeInv, TypeInv, CallType
        <5>2. known[c] <= registered  BY <2>1, <2>4 DEF CallInv
        <5>3. \A o \in 1..known[c] : ~(o < 1)
          BY DEF ServeInv, TypeInv, CallType
        <5>4. UNCHANGED <<env, known, touched>>  BY <1>2
        <5> QED  BY <5>1, <5>2, <5>3, <5>4 DEF Scanned, EnvironmentSet
      <4>2. CASE GateScan(c)
        <5>1. gateCursor'[c] = gateCursor[c] + 1 /\ UNCHANGED <<callPc, upto>>
          BY <4>2 DEF GateScan, ServeInv, TypeInv, CallType
        <5>2. gateCursor[c] \in Outputs
          BY <4>2 DEF GateScan, ServeInv, TypeInv, CallType, Outputs
        <5>3. gateLevel[c] \in Nat /\ maxLevel[gateCursor[c]] \in Nat
          BY <5>2, LevelTypes DEF ServeInv
        <5>4. /\ gateLevel[c] <= gateLevel'[c]
              /\ status[gateCursor[c]] = "Enabled" =>
                    maxLevel[gateCursor[c]] <= gateLevel'[c]
              /\ gateLevel'[c] \in Nat
          BY <4>2, <5>3 DEF GateScan, ServeInv, TypeInv, CallType
        <5>5. \A o \in 1..known[c] :
                 /\ maxLevel[o] \in Nat /\ gateCursor[c] \in Nat /\ o \in Nat
                 /\ o < gateCursor[c] + 1 => o < gateCursor[c] \/ o = gateCursor[c]
          <6>1. known[c] \in 0..NumOutputs  BY DEF ServeInv, TypeInv, CallType
          <6> QED  BY <5>2, <6>1, LevelTypes DEF ServeInv, Outputs
        <5> QED
          BY <1>2, <2>1, <2>4, <5>1, <5>3, <5>4, <5>5
          DEF CallInv, Scanned, EnvironmentSet
      <4>3. CASE GateDefers(c) \/ GateDecides(c)
        <5>1. callPc'[c] # "scan"
          BY <4>3 DEF GateDefers, GateDecides, Enter, ServeInv, TypeInv, CallType
        <5> QED  BY <5>1 DEF Scanned
      <4> QED  BY <4>1, <4>2, <4>3 DEF GateStep
    <3>6. callPc'[c] = "scan" => \A g \in Mine(c) : pc'[g] \in {"none", "gated"}
      <4> SUFFICES ASSUME callPc'[c] = "scan", NEW g \in Mine(c)
                   PROVE  pc'[g] \in {"none", "gated"}
        OBVIOUS
      <4>1. UNCHANGED pc
        BY DEF GateStep, GateDefers, GateStart, GateScan, GateDecides, Enter,
               ServeInv, TypeInv, CallType
      <4> QED  BY <1>3, <2>1, <2>4, <4>1 DEF CallInv
    <3> QED  BY <2>4, <3>1, <3>2, <3>3, <3>4, <3>5, <3>6 DEF CallInv, Mine
  <2> QED  BY <2>3, <2>4
<1> QED  BY <1>1, <1>7, <1>8 DEF ServeInv

\* A step of one goroutine, in process or in a write, as its call and the
\* other goroutines see it.
LEMMA OthersServed ==
    ASSUME ServeInv, NEW g \in Routines, RoutineInv(g)', TypeInv',
           UNCHANGED <<loggerVars, callVars, msg, watchVars>>,
           pc[g] \in {"started", "named", "gathering", "writing"},
           pc'[g] # "gated",
           \A h \in Routines : h # g =>
               /\ pc'[h] = pc[h] /\ names'[h] = names[h]
               /\ cursor'[h] = cursor[h] /\ last'[h] = last[h]
               /\ pending'[h] = pending[h] /\ inSink'[h] = inSink[h]
               /\ failing'[h] = failing[h] /\ landed'[h] = landed[h]
               /\ failed'[h] = failed[h] /\ dropped'[h] = dropped[h]
    PROVE  ServeInv'
<1>1. ASSUME NEW h \in Routines PROVE RoutineInv(h)'
  <2>1. CASE h # g
    <3>1. RoutineInv(h)  BY <1>1 DEF ServeInv
    <3> QED  BY <1>1, <2>1, <3>1, RoutineFrame DEF RoutineInv, InGate
  <2> QED  BY <2>1
<1>2. ASSUME NEW c \in Callers PROVE CallInv(c)'
  <2>1. CallInv(c)  BY <1>2 DEF ServeInv
  <2>2. LoggerType /\ LoggerType' /\ CallType /\ registered <= registered'
    BY DEF ServeInv, TypeInv, LoggerType
  <2>3. \A h \in Mine(c) : \/ pc'[h] = pc[h]
                           \/ /\ pc[h] \notin {"none", "gated", "skipped", "done"}
                              /\ pc'[h] # "gated"
    BY DEF Mine
  <2> QED  BY <1>2, <2>1, <2>2, <2>3, CallFrame
<1> QED  BY <1>1, <1>2 DEF ServeInv

LEMMA RoutinesServe ==
    ASSUME ServeInv, NEW g \in Routines, RoutineStep(g)
    PROVE  ServeInv'
<1>1. TypeInv'  BY RoutineTypes DEF ServeInv, TypeInv
<1>2. UNCHANGED <<loggerVars, callVars, msg, watchVars, inSink, failing, fateVars>>
  BY DEF RoutineStep, ProcessSkips, ProcessNames, GatherStart, Gather, FanOut,
         RoutineEnds
<1>3. /\ pc[g] \in {"started", "named", "gathering", "writing"}
      /\ pc'[g] # "gated"
      /\ \A h \in Routines : h # g =>
            /\ pc'[h] = pc[h] /\ names'[h] = names[h]
            /\ cursor'[h] = cursor[h] /\ last'[h] = last[h]
            /\ pending'[h] = pending[h]
  BY DEF RoutineStep, ProcessSkips, ProcessNames, GatherStart, Gather, FanOut,
         RoutineEnds, ServeInv, TypeInv, RoutineType, WriteType
<1>4. RoutineInv(g)  BY DEF ServeInv
<1>5. Handed(g)' = Handed(g) /\ Due(g)' = Due(g)
      /\ Suppressed(msg[g])' = Suppressed(msg[g])
  BY <1>2 DEF Handed, Due, Suppressed
<1>6. \A o \in Due(g) : /\ Named(g, o)' = Named(g, o)
                        /\ Selected(g, o)' = Selected(g, o)
                        /\ Wanted(g, o)' = Wanted(g, o)
  BY <1>2 DEF Named, Selected, Wanted, Suppressed, FinalMaxLevel, Passes
<1>7. InGate(g)'  BY <1>3 DEF InGate
<1>8. g[1] \in Callers  BY RoutineFacts
<1>9. known[g[1]] <= registered /\ known[g[1]] \in Nat /\ registered \in Nat
  BY <1>8 DEF ServeInv, CallInv, TypeInv, CallType, LoggerType
<1>10. RoutineInv(g)'
  <2>1. CASE ProcessSkips(g)
    <3>1. pc[g] = "started" /\ pc'[g] = "skipped" /\ Suppressed(msg[g])
          /\ pending' = pending
      BY <2>1 DEF ProcessSkips, ServeInv, TypeInv, RoutineType
    <3> QED
      BY <1>2, <1>4, <1>5, <1>7, <3>1 DEF RoutineInv, Phases, Gathered, Delivered
  <2>2. CASE ProcessNames(g)
    <3>1. pc[g] = "started" /\ pc'[g] = "named" /\ ~Suppressed(msg[g])
          /\ pending' = pending
          /\ names'[g] = IF msg[g].names = {} THEN 1..registered ELSE msg[g].names
      BY <2>2 DEF ProcessNames, ServeInv, TypeInv, RoutineType
    <3>2. \A o \in Due(g) : o \in 1..registered  BY <1>9 DEF Due
    <3>3. \A o \in Due(g) : o \in names'[g] <=> Named(g, o)
      BY <3>1, <3>2 DEF Named
    <3> QED
      BY <1>2, <1>4, <1>5, <1>6, <1>7, <3>1, <3>3
      DEF RoutineInv, Phases, Gathered, Delivered
  <2>3. CASE GatherStart(g)
    <3>1. pc[g] = "named" /\ pc'[g] = "gathering" /\ names' = names
          /\ pending'[g] = {} /\ cursor'[g] = 1 /\ last'[g] = registered
      BY <2>3 DEF GatherStart, ServeInv, TypeInv, RoutineType, WriteType
    <3>2. \A o \in Due(g) : ~(o < 1)  BY <1>9 DEF Due
    <3>3. Gathered(g)'
      BY <1>2, <1>4, <1>5, <1>6, <1>9, <3>1, <3>2 DEF RoutineInv, Gathered
    <3> QED
      BY <1>2, <1>4, <1>5, <1>7, <3>1, <3>3 DEF RoutineInv, Phases, Delivered
  <2>4. CASE Gather(g)
    <3>1. pc[g] = "gathering" /\ UNCHANGED <<pc, names, last>>
          /\ cursor'[g] = cursor[g] + 1
          /\ pending'[g] = pending[g] \cup {o \in {cursor[g]} : Eligible(g, o)}
      BY <2>4 DEF Gather, ServeInv, TypeInv, RoutineType, WriteType
    <3>2. cursor[g] \in Nat  BY DEF ServeInv, TypeInv, RoutineType
    <3>3. \A o \in Due(g) : Eligible(g, o) <=> Selected(g, o)
      BY <1>4, <3>1 DEF RoutineInv, Gathered, Eligible, Selected
    <3>4. \A o \in Due(g) : /\ o \in Nat
                            /\ o < cursor[g] + 1 <=> o < cursor[g] \/ o = cursor[g]
      BY <1>9, <3>2 DEF Due
    <3>5. \A o \in Due(g) :
             o \in pending'[g] <=> o < cursor[g] + 1 /\ Selected(g, o)
      BY <1>4, <3>1, <3>3, <3>4 DEF RoutineInv, Gathered
    <3>6. Gathered(g)'
      BY <1>2, <1>4, <1>5, <1>6, <3>1, <3>5 DEF RoutineInv, Gathered
    <3> QED
      BY <1>2, <1>4, <1>5, <1>7, <3>1, <3>6 DEF RoutineInv, Phases, Delivered
  <2>5. CASE FanOut(g)
    <3>1. pc[g] = "gathering" /\ pc'[g] = "writing" /\ UNCHANGED pending
          /\ last[g] < cursor[g]
      BY <2>5 DEF FanOut, ServeInv, TypeInv, RoutineType
    <3>2. \A o \in Due(g) : o < cursor[g]
      <4>1. known[g[1]] <= last[g]  BY <1>4, <3>1 DEF RoutineInv, Gathered
      <4>2. last[g] \in Nat /\ cursor[g] \in Nat
        BY DEF ServeInv, TypeInv, RoutineType
      <4> QED  BY <1>9, <3>1, <4>1, <4>2 DEF Due
    <3>3. \A o \in Due(g) : o \in pending[g] <=> Selected(g, o)
      BY <1>4, <3>1, <3>2 DEF RoutineInv, Gathered
    <3>4. \A o \in Due(g) : Wanted(g, o) => Selected(g, o)
      BY DEF Wanted, Selected, Named
    <3>5. Handed(g) = {} /\ inSink[g] = {}  BY <1>4, <3>1 DEF RoutineInv, Phases
    <3>6. Delivered(g)'
      BY <1>2, <1>5, <1>6, <3>1, <3>3, <3>4, <3>5 DEF Delivered
    <3> QED
      BY <1>2, <1>4, <1>5, <1>7, <3>1, <3>6 DEF RoutineInv, Phases, Gathered
  <2>6. CASE RoutineEnds(g)
    <3>1. pc[g] = "writing" /\ pc'[g] = "done" /\ UNCHANGED pending /\ WritesDone(g)
      BY <2>6 DEF RoutineEnds, ServeInv, TypeInv, RoutineType
    <3>2. Phases(g)'
      BY <1>2, <1>4, <1>5, <3>1 DEF RoutineInv, Phases, WritesDone
    <3>3. Delivered(g)'
      BY <1>2, <1>4, <1>5, <1>6, <3>1 DEF RoutineInv, Delivered
    <3> QED  BY <1>7, <3>1, <3>2, <3>3 DEF RoutineInv, Gathered
  <2> QED  BY <2>1, <2>2, <2>3, <2>4, <2>5, <2>6 DEF RoutineStep
<1> QED  BY <1>1, <1>2, <1>3, <1>10, OthersServed

LEMMA WritesServe ==
    ASSUME ServeInv, NEW g \in Routines, NEW o \in Outputs, WriteStep(g, o)
    PROVE  ServeInv'
<1>1. TypeInv'  BY WriteTypes DEF ServeInv, TypeInv
<1>2. UNCHANGED <<loggerVars, callVars, pc, msg, names, cursor, last, watchVars>>
  BY DEF WriteStep, OutputDecides, SinkReturns, ReportError
<1>3. \A h \in Routines : h # g =>
         /\ pending'[h] = pending[h] /\ inSink'[h] = inSink[h]
         /\ failing'[h] = failing[h] /\ landed'[h] = landed[h]
         /\ failed'[h] = failed[h] /\ dropped'[h] = dropped[h]
  BY DEF WriteStep, OutputDecides, SinkReturns, ReportError, ServeInv, TypeInv,
         WriteType
<1>4. RoutineInv(g)  BY DEF ServeInv
<1>5. pc[g] = "writing"
  BY <1>4 DEF WriteStep, OutputDecides, SinkReturns, ReportError, RoutineInv, Phases
<1>6. Due(g)' = Due(g) /\ Suppressed(msg[g])' = Suppressed(msg[g])
  BY <1>2 DEF Due, Suppressed
<1>7. \A x \in Due(g) : /\ Selected(g, x)' = Selected(g, x)
                        /\ Wanted(g, x)' = Wanted(g, x)
  BY <1>2 DEF Named, Selected, Wanted, Suppressed, FinalMaxLevel, Passes
<1>8. InGate(g)' /\ Gathered(g)'  BY <1>2, <1>5 DEF InGate, Gathered
<1>9. Phases(g)'  BY <1>2, <1>4, <1>5, <1>6 DEF RoutineInv, Phases
<1>10. Delivered(g)'
  <2>1. CASE OutputDecides(g, o)
    <3>1. /\ o \in pending[g]
          /\ pending'[g] = pending[g] \ {o}
          /\ inSink'[g] = inSink[g] \cup {x \in {o} : Passes(msg[g], FinalMaxLevel(o))}
      BY <2>1 DEF OutputDecides, ServeInv, TypeInv, WriteType
    <3>2. Handed(g)' = Handed(g)  BY <2>1 DEF OutputDecides, Handed
    <3>3. o \in Due(g) => (Wanted(g, o) <=> Passes(msg[g], FinalMaxLevel(o)))
      BY <1>4, <1>5, <3>1
      DEF RoutineInv, Delivered, Phases, Selected, Named, Wanted
    <3> QED
      BY <1>2, <1>4, <1>5, <1>6, <1>7, <3>1, <3>2, <3>3 DEF RoutineInv, Delivered
  <2>2. CASE SinkReturns(g, o)
    <3>1. /\ o \in inSink[g]
          /\ pending'[g] = pending[g]
          /\ inSink'[g] = inSink[g] \ {o}
      BY <2>2 DEF SinkReturns, ServeInv, TypeInv, WriteType
    <3>2. Handed(g)' = Handed(g) \cup {o}
      BY <2>2 DEF SinkReturns, Handed, ServeInv, TypeInv, WriteType
    <3> QED
      BY <1>2, <1>4, <1>5, <1>6, <1>7, <3>1, <3>2 DEF RoutineInv, Delivered
  <2>3. CASE ReportError(g, o)
    <3>1. UNCHANGED <<pending, inSink, landed, failed, dropped>>
      BY <2>3 DEF ReportError
    <3>2. Handed(g)' = Handed(g)  BY <3>1 DEF Handed
    <3> QED
      BY <1>2, <1>4, <1>5, <1>6, <1>7, <3>1, <3>2 DEF RoutineInv, Delivered
  <2> QED  BY <2>1, <2>2, <2>3 DEF WriteStep
<1> QED
  BY <1>1, <1>2, <1>3, <1>5, <1>8, <1>9, <1>10, OthersServed DEF RoutineInv

LEMMA EndsServe ==
    ASSUME ServeInv, NEW c \in Callers, EndStep(c) \/ TimedOutExit(c)
    PROVE  ServeInv'
<1>1. TypeInv'  BY EndTypes DEF ServeInv, TypeInv
<1>2. UNCHANGED <<loggerVars, gateLevel, gateCursor, routineVars, fateVars, watchVars>>
  BY DEF EndStep, CallReturns, FlushStart, FlushNext, FlushEnds, FlushReports, FlushedExit,
         TimedOutExit, Exit
<1>3. /\ callPc[c] \in {"waiting", "flushing", "flushed"}
      /\ callPc'[c] \in {"returned", "flushing", "flushed", "exited"}
      /\ callPc[c] = "waiting" => AllEnded(c)
      /\ \A d \in Callers : d # c => callPc'[d] = callPc[d] /\ upto'[d] = upto[d]
  BY DEF EndStep, CallReturns, FlushStart, FlushNext, FlushEnds, FlushReports, FlushedExit,
         TimedOutExit, Exit, ServeInv, TypeInv, CallType
<1>4. ASSUME NEW g \in Routines PROVE RoutineInv(g)'
  <2>1. RoutineInv(g)  BY <1>4 DEF ServeInv
  <2>2. pc[g] = "gated" => callPc'[g[1]] \in {"gate", "scan"}
    BY <1>3, <1>4, <2>1, RoutineFacts DEF RoutineInv, InGate
  <2> QED  BY <1>2, <1>4, <2>1, <2>2, RoutineFrame
<1>5. ASSUME NEW d \in Callers PROVE CallInv(d)'
  <2>1. CallInv(d)  BY <1>5 DEF ServeInv
  <2>2. LoggerType /\ LoggerType' /\ CallType /\ registered <= registered'
    BY <1>1, <1>2 DEF ServeInv, TypeInv, LoggerType
  <2>3. CASE d # c
    BY <1>2, <1>3, <1>5, <2>1, <2>2, <2>3, CallFrame
  <2>4. CASE d = c
    BY <1>2, <1>3, <2>1, <2>4 DEF CallInv, AllEnded, Scanned, Mine
  <2> QED  BY <2>3, <2>4
<1> QED  BY <1>1, <1>4, <1>5 DEF ServeInv

LEMMA ReconfigureServes ==
    ASSUME ServeInv, Reconfigure
    PROVE  ServeInv'
<1>1. TypeInv'  BY ReconfigureTypes DEF ServeInv, TypeInv
<1>2. UNCHANGED <<callVars, routineVars, fateVars, known, env>>
  BY DEF Reconfigure, AddOutput, SetFastGate, SetErrorHandler, SetStatus,
         SetMaxLevel, SinkChanges, Change
<1>3. registered <= registered'
  <2>1. registered' = registered \/ registered' = registered + 1
    BY DEF Reconfigure, AddOutput, SetFastGate, SetErrorHandler, SetStatus,
           SetMaxLevel, SinkChanges
  <2>2. registered \in Nat  BY DEF ServeInv, TypeInv, LoggerType
  <2> QED  BY <2>1, <2>2
<1>4. \A c \in Callers : touched[c] \subseteq touched'[c]
  <2>1. PICK settings \in SUBSET (Outputs \cup {0}) : Change(settings)
    BY DEF Reconfigure, AddOutput, SetFastGate, SetErrorHandler, SetStatus,
           SetMaxLevel, SinkChanges
  <2> QED  BY <2>1 DEF Change
<1>5. \A c \in Callers : \A o \in Outputs \ touched'[c] :
         status'[o] = status[o] /\ maxLevel'[o] = maxLevel[o]
  BY DEF Reconfigure, AddOutput, SetFastGate, SetErrorHandler, SetStatus,
         SetMaxLevel, SinkChanges, Change, ServeInv, TypeInv, LoggerType
<1>6. \A c \in Callers : 1..known[c] \subseteq Outputs
  BY DEF ServeInv, TypeInv, CallType, Outputs
<1>7. ASSUME NEW g \in Routines PROVE RoutineInv(g)'
  <2>1. RoutineInv(g)  BY <1>7 DEF ServeInv
  <2>2. g[1] \in Callers  BY <1>7, RoutineFacts
  <2>3. \A o \in Due(g)' : status'[o] = status[o] /\ maxLevel'[o] = maxLevel[o]
    BY <1>2, <1>5, <1>6, <2>2 DEF Due
  <2> QED
    BY <1>2, <1>4, <1>7, <2>1, <2>2, <2>3, RoutineFrame DEF RoutineInv, InGate
<1>8. ASSUME NEW c \in Callers PROVE CallInv(c)'
  <2>1. CallInv(c)  BY <1>8 DEF ServeInv
  <2>2. LoggerType /\ LoggerType' /\ CallType
    BY <1>1 DEF ServeInv, TypeInv
  <2>3. \A o \in (1..known[c]) \ touched'[c] :
           status'[o] = status[o] /\ maxLevel'[o] = maxLevel[o]
    BY <1>5, <1>6, <1>8
  <2> QED  BY <1>2, <1>3, <1>4, <1>8, <2>1, <2>2, <2>3, CallFrame
<1> QED  BY <1>1, <1>7, <1>8 DEF ServeInv

LEMMA StepServes == ServeInv /\ [Next]_vars => ServeInv'
<1> SUFFICES ASSUME ServeInv, [Next]_vars PROVE ServeInv'
  OBVIOUS
<1>1. CASE UNCHANGED vars
  <2>1. UNCHANGED <<loggerVars, sinkVars, callVars, routineVars, fateVars, watchVars>>
    BY <1>1 DEF vars
  <2>2. TypeInv'
    BY <2>1 DEF ServeInv, TypeInv, CallType, RoutineType, WriteType, LoggerType
  <2>3. ASSUME NEW g \in Routines PROVE RoutineInv(g)'
    BY <2>1, <2>3, RoutineFrame DEF ServeInv, RoutineInv, InGate
  <2>4. ASSUME NEW c \in Callers PROVE CallInv(c)'
    <3>1. CallInv(c) /\ LoggerType /\ LoggerType' /\ CallType
          /\ registered <= registered'
      BY <2>1, <2>2, <2>4 DEF ServeInv, TypeInv, LoggerType
    <3> QED  BY <2>1, <2>4, <3>1, CallFrame
  <2> QED  BY <2>2, <2>3, <2>4 DEF ServeInv
<1> QED
  BY <1>1, StepKinds, CallsServe, GateServes, RoutinesServe, WritesServe,
     EndsServe, ReconfigureServes

LEMMA AlwaysServed == Spec => []ServeInv
BY InitServes, StepServes, PTL DEF Spec

----------------------------------------------------------------------------
(* The theorems.                                                           *)

LEMMA OverEnds ==
    ASSUME ServeInv, NEW g \in Routines, Over(g)
    PROVE  pc[g] \in {"skipped", "done"}
<1>1. g[1] \in Callers /\ g \in Mine(g[1])  BY RoutineFacts
<1> QED  BY <1>1 DEF Over, ServeInv, CallInv, AllEnded

LEMMA ServesExactly == ServeInv => HandedExactly
<1> SUFFICES ASSUME ServeInv, NEW g \in Routines, Over(g),
                    NEW o \in (1..known[g[1]]) \ touched[g[1]]
             PROVE  o \in landed[g] \cup failed[g] \cup dropped[g] <=> Wanted(g, o)
  BY DEF HandedExactly
<1>1. pc[g] \in {"skipped", "done"}  BY OverEnds
<1>2. RoutineInv(g)  BY DEF ServeInv
<1>3. CASE pc[g] = "skipped"
  BY <1>2, <1>3 DEF RoutineInv, Phases, Handed, Wanted
<1>4. CASE pc[g] = "done"
  <2>1. pending[g] = {} /\ inSink[g] = {}
    BY <1>2, <1>4 DEF RoutineInv, Phases
  <2> QED  BY <1>2, <1>4, <2>1 DEF RoutineInv, Delivered, Handed, Due
<1> QED  BY <1>1, <1>3, <1>4

LEMMA ServesToTheEnd == ServeInv => NothingOutlives
<1> SUFFICES ASSUME ServeInv, NEW g \in Routines, Over(g)
             PROVE  /\ pc[g] \in {"skipped", "done"}
                    /\ pending[g] \cup inSink[g] \cup failing[g] = {}
  BY DEF NothingOutlives
<1>1. pc[g] \in {"skipped", "done"}  BY OverEnds
<1> QED  BY <1>1 DEF ServeInv, RoutineInv, Phases

LEMMA ServesFreely == ServeInv => OnlyWritersHoldUp
<1> SUFFICES ASSUME ServeInv, NEW c \in Callers, callPc[c] = "waiting",
                    ~AllEnded(c), \A g \in Mine(c) : ~HeldUp(g)
             PROVE  CanGo(c)
  BY DEF OnlyWritersHoldUp, CanGo
<1>1. PICK g \in Mine(c) : pc[g] \notin {"none", "skipped", "done"}
  BY DEF AllEnded
<1>2. g \in Routines /\ g[1] = c  BY DEF Mine
<1>3. pc[g] # "gated"  BY <1>2 DEF ServeInv, RoutineInv, InGate
<1>4. pc[g] \in {"started", "named", "gathering", "writing"}
  BY <1>1, <1>2, <1>3 DEF ServeInv, TypeInv, RoutineType
<1> QED  BY <1>1, <1>4 DEF CanGo

\* When a call is over, each of its messages has been handed exactly to the
\* outputs that want it, whoever reconfigured whatever else meanwhile, and none
\* of its goroutines is left; until then only a writer that hangs can keep it
\* waiting (process, processOutputs, Output.Write and fastGated).
THEOREM EveryCallIsServed == Spec => []ServedFaithfully
<1>1. ServeInv => ServedFaithfully
  BY ServesExactly, ServesToTheEnd, ServesFreely DEF ServedFaithfully
<1> QED  BY <1>1, AlwaysServed, PTL

\* The errors of a message: those that failed are reported or about to be.
Accounted(g) ==
    /\ reported[g] \subseteq failed[g]
    /\ failing[g] \subseteq failed[g]
    /\ handler = "set" /\ 0 \notin touched[g[1]] =>
          failed[g] \subseteq reported[g] \cup failing[g]

ErrorInv == \A g \in Routines : Accounted(g)

LEMMA InitAccounts == Init => ErrorInv
BY DEF Init, ErrorInv, Accounted

LEMMA StepAccounts == ServeInv /\ ErrorInv /\ [Next]_vars => ErrorInv'
<1> SUFFICES ASSUME ServeInv, ErrorInv, [Next]_vars, NEW g \in Routines
             PROVE  Accounted(g)'
  BY DEF ErrorInv
<1>1. Accounted(g) /\ g[1] \in Callers  BY RoutineFacts DEF ErrorInv
<1>2. ASSUME UNCHANGED <<handler, failing, reported, failed>>,
             touched[g[1]] \subseteq touched'[g[1]]
      PROVE  Accounted(g)'
  BY <1>1, <1>2 DEF Accounted
<1>3. ASSUME NEW c \in Callers, NEW some \in SUBSET Slots,
             NEW m \in [some -> Messages], NEW gate \in BOOLEAN, Call(c, m, gate)
      PROVE  Accounted(g)'
  <2>1. UNCHANGED <<failing, handler>>  BY <1>3 DEF Call
  <2>2. CASE g \in Mine(c)
    <3>1. pc[g] \in {"none", "skipped", "done"}
      BY <1>3, <2>2 DEF Call, ServeInv, CallInv, AllEnded
    <3>2. failing[g] = {}
      BY <3>1 DEF ServeInv, RoutineInv, Phases
    <3>3. reported'[g] = {} /\ failed'[g] = {}  BY <1>3, <2>2 DEF Call
    <3> QED  BY <2>1, <3>2, <3>3 DEF Accounted
  <2>3. CASE g \notin Mine(c)
    <3>1. g[1] # c  BY <2>3, RoutineFacts
    <3>2. touched'[g[1]] = touched[g[1]]
      BY <1>1, <1>3, <3>1 DEF Call, ServeInv, TypeInv, CallType
    <3>3. reported'[g] = reported[g] /\ failed'[g] = failed[g]
      BY <1>3, <2>3 DEF Call
    <3> QED  BY <1>1, <2>1, <3>2, <3>3 DEF Accounted
  <2> QED  BY <2>2, <2>3
<1>4. ASSUME NEW c \in Callers, PrintOne(c) \/ PrintMessages(c)
      PROVE  Accounted(g)'
  <2>1. CASE PrintOne(c)
    <3>1. PICK s \in Slots, m \in Messages : Call(c, [x \in {s} |-> m], Plain(m))
      BY <2>1 DEF PrintOne
    <3>2. Plain(m) \in BOOLEAN  BY DEF Plain
    <3>3. [x \in {s} |-> m] \in [{s} -> Messages]  OBVIOUS
    <3> QED  BY <1>3, <3>1, <3>2, <3>3
  <2>2. CASE PrintMessages(c)
    BY <1>3, <2>2 DEF PrintMessages
  <2> QED  BY <1>4, <2>1, <2>2
<1>5. ASSUME NEW c \in Callers, GateStep(c)
      PROVE  Accounted(g)'
  BY <1>2, <1>5 DEF GateStep, GateDefers, GateStart, GateScan, GateDecides
<1>6. ASSUME NEW c \in Callers, EndStep(c) \/ TimedOutExit(c)
      PROVE  Accounted(g)'
  BY <1>2, <1>6
  DEF EndStep, CallReturns, FlushStart, FlushNext, FlushEnds, FlushReports, FlushedExit, TimedOutExit, Exit
<1>7. ASSUME NEW h \in Routines, RoutineStep(h)
      PROVE  Accounted(g)'
  BY <1>2, <1>7
  DEF RoutineStep, ProcessSkips, ProcessNames, GatherStart, Gather, FanOut,
      RoutineEnds
<1>8. ASSUME NEW h \in Routines, NEW o \in Outputs, WriteStep(h, o)
      PROVE  Accounted(g)'
  <2>1. UNCHANGED <<handler, touched>>
    BY <1>8 DEF WriteStep, OutputDecides, SinkReturns, ReportError
  <2>2. CASE OutputDecides(h, o)
    BY <1>2, <2>1, <2>2 DEF OutputDecides
  <2>3. CASE SinkReturns(h, o)
    BY <1>1, <2>1, <2>3
    DEF SinkReturns, Accounted, ServeInv, TypeInv, WriteType
  <2>4. CASE ReportError(h, o)
    BY <1>1, <2>1, <2>4
    DEF ReportError, Accounted, ServeInv, TypeInv, WriteType
  <2> QED  BY <1>8, <2>2, <2>3, <2>4 DEF WriteStep
<1>9. CASE Reconfigure
  <2>1. PICK settings \in SUBSET (Outputs \cup {0}) :
            /\ Change(settings)
            /\ 0 \in settings \/ UNCHANGED handler
    BY <1>9 DEF Reconfigure, AddOutput, SetFastGate, SetErrorHandler, SetStatus,
                SetMaxLevel, SinkChanges
  <2>2. touched'[g[1]] = touched[g[1]] \cup settings
    BY <1>1, <2>1 DEF Change
  <2>3. UNCHANGED <<failing, failed, reported>>  BY <2>1 DEF Change
  <2> QED  BY <1>1, <2>1, <2>2, <2>3 DEF Accounted
<1>10. CASE UNCHANGED vars
  BY <1>2, <1>10 DEF vars
<1> QED
  BY <1>4, <1>5, <1>6, <1>7, <1>8, <1>9, <1>10, StepKinds

LEMMA WritesAccounted == ServeInv /\ ErrorInv => WriteErrorsReported
<1> SUFFICES ASSUME ServeInv, ErrorInv, NEW g \in Routines
             PROVE  /\ reported[g] \subseteq failed[g]
                    /\ Over(g) /\ handler = "set" /\ 0 \notin touched[g[1]] =>
                          reported[g] = failed[g]
  BY DEF WriteErrorsReported
<1>1. Accounted(g) /\ RoutineInv(g)  BY DEF ErrorInv, ServeInv
<1>2. g[1] \in Callers /\ g \in Mine(g[1])  BY RoutineFacts
<1>3. Over(g) => pc[g] # "writing"
  BY <1>2 DEF Over, ServeInv, CallInv, AllEnded
<1>4. Over(g) => failing[g] = {}  BY <1>1, <1>3 DEF RoutineInv, Phases
<1> QED  BY <1>1, <1>4 DEF Accounted

\* The flush of a call takes in what was there when the call began, and is
\* reported at its end, whole, or not at all.
FlushAccounted(c) ==
    /\ callPc[c] \notin {"flushed", "exited"} => flushReported[c] = {}
    /\ flushReported[c] \in {{}, flushFailed[c]}
    /\ callPc[c] = "flushing" => known[c] <= upto[c]
    /\ callPc[c] = "flushed" =>
          /\ known[c] < flushCursor[c]
          /\ handler = "set" /\ 0 \notin touched[c] =>
                flushReported[c] = flushFailed[c]

FlushInv == \A c \in Callers : FlushAccounted(c)

LEMMA InitFlushes == Init => FlushInv
BY DEF Init, FlushInv, FlushAccounted

\* A step that leaves the flush of a call alone, and the call where it is or
\* out of the flush, keeps what is known of it.
LEMMA FlushFrame ==
    ASSUME NEW d \in Callers, FlushAccounted(d),
           flushCursor'[d] = flushCursor[d], flushFailed'[d] = flushFailed[d],
           flushReported'[d] = flushReported[d],
           \/ callPc'[d] = callPc[d]
           \/ /\ callPc[d] \notin {"flushed", "exited"}
              /\ callPc'[d] \notin {"flushing", "flushed"}
           \/ callPc'[d] = "exited",
           callPc'[d] = "flushing" => upto'[d] = upto[d],
           callPc'[d] \in {"flushing", "flushed"} => known'[d] = known[d],
           \/ 0 \in touched'[d]
           \/ handler' = handler /\ touched[d] \subseteq touched'[d]
           \/ callPc'[d] # "flushed"
    PROVE  FlushAccounted(d)'
BY DEF FlushAccounted

\* The steps at the end of a call.
LEMMA EndFlushes ==
    ASSUME ServeInv, FlushInv, NEW c \in Callers, EndStep(c) \/ TimedOutExit(c)
    PROVE  FlushInv'
<1> SUFFICES ASSUME NEW d \in Callers PROVE FlushAccounted(d)'
  BY DEF FlushInv
<1>1. FlushAccounted(d)  BY DEF FlushInv
<1>2. UNCHANGED <<handler, touched, known>>
  BY DEF EndStep, CallReturns, FlushStart, FlushNext, FlushEnds, FlushReports,
         FlushedExit, TimedOutExit, Exit
<1>3. CASE d # c
  <2>1. /\ callPc'[d] = callPc[d] /\ upto'[d] = upto[d]
        /\ flushCursor'[d] = flushCursor[d] /\ flushFailed'[d] = flushFailed[d]
        /\ flushReported'[d] = flushReported[d]
    BY <1>3
    DEF EndStep, CallReturns, FlushStart, FlushNext, FlushEnds, FlushReports,
        FlushedExit, TimedOutExit, Exit, ServeInv, TypeInv, CallType
  <2> QED  BY <1>1, <1>2, <2>1, FlushFrame
<1>4. CASE d = c /\ (CallReturns(c) \/ FlushedExit(c) \/ TimedOutExit(c))
  <2>1. /\ UNCHANGED <<flushVars, upto>>
        /\ \/ callPc[c] = "waiting" /\ callPc'[c] = "returned"
           \/ callPc'[c] = "exited"
    BY <1>4 DEF CallReturns, FlushedExit, TimedOutExit, Exit, ServeInv, TypeInv,
                CallType
  <2> QED  BY <1>1, <1>2, <1>4, <2>1, FlushFrame
<1>5. CASE d = c /\ FlushStart(c)
  <2>1. /\ callPc[c] = "waiting" /\ callPc'[c] = "flushing"
        /\ upto'[c] = registered
        /\ UNCHANGED <<flushFailed, flushReported>>
    BY <1>5 DEF FlushStart, ServeInv, TypeInv, CallType
  <2>2. known[c] <= registered  BY DEF ServeInv, CallInv
  <2> QED  BY <1>1, <1>2, <1>5, <2>1, <2>2 DEF FlushAccounted
<1>6. CASE d = c /\ FlushNext(c)
  <2>1. /\ callPc[c] = "flushing"
        /\ UNCHANGED <<callPc, upto, flushReported>>
    BY <1>6 DEF FlushNext
  <2> QED  BY <1>1, <1>2, <1>6, <2>1 DEF FlushAccounted
<1>7. CASE d = c /\ FlushReports(c)
  <2>1. /\ callPc[c] = "flushing" /\ callPc'[c] = "flushed"
        /\ upto[c] < flushCursor[c]
        /\ UNCHANGED <<flushCursor, flushFailed>>
        /\ flushReported'[c] = {o \in flushFailed[c] : handler = "set"}
    BY <1>7 DEF FlushReports, FlushEnds, ServeInv, TypeInv, CallType
  <2>2. known[c] < flushCursor[c]
    <3>1. known[c] \in Nat /\ upto[c] \in Nat /\ flushCursor[c] \in Nat
      BY DEF ServeInv, TypeInv, CallType
    <3>2. known[c] <= upto[c]  BY <1>1, <1>7, <2>1 DEF FlushAccounted
    <3> QED  BY <2>1, <3>1, <3>2
  <2>3. flushReported'[c] = IF handler = "set" THEN flushFailed[c] ELSE {}
    BY <2>1
  <2> QED  BY <1>2, <1>7, <2>1, <2>2, <2>3 DEF FlushAccounted
<1> QED  BY <1>3, <1>4, <1>5, <1>6, <1>7 DEF EndStep

LEMMA StepFlushes == ServeInv /\ FlushInv /\ [Next]_vars => FlushInv'
<1> SUFFICES ASSUME ServeInv, FlushInv, [Next]_vars, NEW d \in Callers
             PROVE  FlushAccounted(d)'
  BY DEF FlushInv
<1>1. FlushAccounted(d)  BY DEF FlushInv
<1>2. ASSUME NEW c \in Callers, PrintOne(c) \/ PrintMessages(c)
      PROVE  FlushAccounted(d)'
  <2>1. PICK gate \in BOOLEAN :
           /\ callPc[c] \in {"idle", "returned"}
           /\ callPc' = [callPc EXCEPT ![c] = IF gate THEN "gate" ELSE "waiting"]
           /\ touched' = [touched EXCEPT ![c] = {}]
           /\ known' = [known EXCEPT ![c] = registered]
           /\ UNCHANGED <<flushVars, upto, handler>>
    BY <1>2 DEF PrintOne, PrintMessages, Call, Plain
  <2>2. CASE d = c
    <3>1. callPc'[c] \in {"gate", "waiting"}
      BY <2>1 DEF ServeInv, TypeInv, CallType
    <3> QED  BY <1>1, <2>1, <2>2, <3>1, FlushFrame
  <2>3. CASE d # c
    <3>1. callPc'[d] = callPc[d] /\ touched'[d] = touched[d] /\ known'[d] = known[d]
      BY <2>1, <2>3 DEF ServeInv, TypeInv, CallType
    <3> QED  BY <1>1, <2>1, <3>1, FlushFrame
  <2> QED  BY <2>2, <2>3
<1>3. ASSUME NEW c \in Callers, GateStep(c)
      PROVE  FlushAccounted(d)'
  <2>1. /\ UNCHANGED <<flushVars, handler, touched, known>>
        /\ d # c => callPc'[d] = callPc[d] /\ upto'[d] = upto[d]
        /\ callPc[c] \in {"gate", "scan"}
        /\ callPc'[c] \in {"gate", "scan", "waiting", "returned"}
    BY <1>3 DEF GateStep, GateDefers, GateStart, GateScan, GateDecides, Enter,
                ServeInv, TypeInv, CallType
  <2> QED  BY <1>1, <2>1, FlushFrame
<1>4. ASSUME NEW c \in Callers, EndStep(c) \/ TimedOutExit(c)
      PROVE  FlushAccounted(d)'
  BY <1>4, EndFlushes DEF FlushInv
<1>5. ASSUME UNCHANGED <<callVars, handler, touched, known>>
      PROVE  FlushAccounted(d)'
  BY <1>1, <1>5, FlushFrame
<1>6. ASSUME NEW g \in Routines, RoutineStep(g)
      PROVE  FlushAccounted(d)'
  BY <1>5, <1>6 DEF RoutineStep, ProcessSkips, ProcessNames, GatherStart, Gather,
                    FanOut, RoutineEnds
<1>7. ASSUME NEW g \in Routines, NEW o \in Outputs, WriteStep(g, o)
      PROVE  FlushAccounted(d)'
  BY <1>5, <1>7 DEF WriteStep, OutputDecides, SinkReturns, ReportError
<1>8. CASE Reconfigure
  <2>1. PICK settings \in SUBSET (Outputs \cup {0}) :
            /\ Change(settings)
            /\ 0 \in settings \/ UNCHANGED handler
    BY <1>8 DEF Reconfigure, AddOutput, SetFastGate, SetErrorHandler, SetStatus,
                SetMaxLevel, SinkChanges
  <2>2. touched'[d] = touched[d] \cup settings /\ UNCHANGED <<callVars, known>>
    BY <2>1 DEF Change
  <2>3. \/ 0 \in touched'[d]
        \/ handler' = handler /\ touched[d] \subseteq touched'[d]
    BY <2>1, <2>2
  <2> QED  BY <1>1, <2>2, <2>3, FlushFrame
<1>9. CASE UNCHANGED vars
  BY <1>5, <1>9 DEF vars
<1> QED
  BY <1>2, <1>3, <1>4, <1>6, <1>7, <1>8, <1>9, StepKinds

\* When a call is over, the error handler has been given the errors of its
\* failed writes; before an exit, those of all flushes that failed, or, if the
\* time was up, of none; and nothing else (writeToOutput, flushBeforeExit,
\* SetErrorHandler).
THEOREM ErrorsReachTheHandler == Spec => []ErrorsReported
<1>1. FlushInv => FlushErrorsReported
  BY DEF FlushInv, FlushAccounted, FlushErrorsReported
<1>2. ServeInv /\ ErrorInv /\ FlushInv => ErrorsReported
  BY <1>1, WritesAccounted DEF ErrorsReported
<1> QED
  BY <1>2, AlwaysServed, InitAccounts, StepAccounts, InitFlushes, StepFlushes, PTL
  DEF Spec

\* The process has been ended by a call that is at its end, for a reason.
ExitInv ==
    /\ life \in {"running", "exited"}
    /\ life = "exited" <=> \E c \in Callers : callPc[c] = "exited"
    /\ \A c \in Callers : callPc[c] \in {"flushing", "flushed", "exited"} => ShouldExit(c)

LEMMA InitExits == Init => ExitInv
BY DEF Init, ExitInv

LEMMA StepExits == ServeInv /\ ExitInv /\ [Next]_vars => ExitInv'
<1> SUFFICES ASSUME ServeInv, ExitInv, [Next]_vars PROVE ExitInv'
  OBVIOUS
<1>1. CASE UNCHANGED vars
  BY <1>1 DEF vars, ExitInv, ShouldExit, Mine
<1>2. CASE life = "running" /\ ~UNCHANGED vars
  <2>1. \A c \in Callers : callPc[c] # "exited"  BY <1>2 DEF ExitInv
  \* A step keeps what a call that is about to exit has seen.
  <2>2. ASSUME NEW d \in Callers, callPc[d] \in {"flushing", "flushed"}
        PROVE  ShouldExit(d)'
    <3>1. PICK g \in Mine(d) : pc[g] = "done" /\ msg[g].level = Fatal
      BY <2>2 DEF ExitInv, ShouldExit
    <3>2. g \in Routines /\ g[1] = d  BY DEF Mine
    <3>3. ASSUME NEW c \in Callers, PrintOne(c) \/ PrintMessages(c)
          PROVE  pc'[g] = pc[g] /\ msg'[g] = msg[g]
      BY <2>2, <3>2, <3>3 DEF PrintOne, PrintMessages, Call, Mine
    <3>4. ASSUME NEW c \in Callers, GateStep(c)
          PROVE  pc'[g] = pc[g] /\ msg'[g] = msg[g]
      BY <3>1, <3>2, <3>4
      DEF GateStep, GateDefers, GateStart, GateScan, GateDecides, Enter, Asking,
          ServeInv, TypeInv, RoutineType
    <3>5. ASSUME NEW c \in Callers, EndStep(c) \/ TimedOutExit(c)
          PROVE  pc'[g] = pc[g] /\ msg'[g] = msg[g]
      BY <3>5 DEF EndStep, CallReturns, FlushStart, FlushNext, FlushEnds, FlushReports, FlushedExit,
                  TimedOutExit, Exit
    <3>6. ASSUME NEW h \in Routines, RoutineStep(h)
          PROVE  pc'[g] = pc[g] /\ msg'[g] = msg[g]
      BY <3>1, <3>2, <3>6
      DEF RoutineStep, ProcessSkips, ProcessNames, GatherStart, Gather, FanOut,
          RoutineEnds, ServeInv, TypeInv, RoutineType
    <3>7. ASSUME NEW h \in Routines, NEW o \in Outputs, WriteStep(h, o)
          PROVE  pc'[g] = pc[g] /\ msg'[g] = msg[g]
      BY <3>7 DEF WriteStep, OutputDecides, SinkReturns, ReportError
    <3>8. CASE Reconfigure
      <4>1. pc'[g] = pc[g] /\ msg'[g] = msg[g]
        BY <3>8 DEF Reconfigure, AddOutput, SetFastGate, SetErrorHandler,
                    SetStatus, SetMaxLevel, SinkChanges, Change
      <4> QED  BY <3>1, <4>1 DEF ShouldExit, Mine
    <3>9. pc'[g] = pc[g] /\ msg'[g] = msg[g] => ShouldExit(d)'
      BY <3>1 DEF ShouldExit, Mine
    <3> QED
      BY <1>2, <3>3, <3>4, <3>5, <3>6, <3>7, <3>8, <3>9, StepKinds
  <2>3. CASE \E c \in Callers : EndStep(c) \/ TimedOutExit(c)
    <3>1. PICK c \in Callers : EndStep(c) \/ TimedOutExit(c)  BY <2>3
    <3>2. \A d \in Callers : d # c => callPc'[d] = callPc[d]
      BY <3>1
      DEF EndStep, CallReturns, FlushStart, FlushNext, FlushEnds, FlushReports, FlushedExit,
          TimedOutExit, Exit, ServeInv, TypeInv, CallType
    <3>3. \/ life' = life /\ callPc'[c] # "exited"
          \/ life' = "exited" /\ callPc'[c] = "exited" /\ callPc[c] \in {"flushing", "flushed"}
      BY <3>1, <2>1
      DEF EndStep, CallReturns, FlushStart, FlushNext, FlushEnds, FlushReports, FlushedExit,
          TimedOutExit, Exit, ServeInv, TypeInv, CallType
    <3>4. UNCHANGED <<pc, msg>>
      BY <3>1 DEF EndStep, CallReturns, FlushStart, FlushNext, FlushEnds, FlushReports, FlushedExit,
                  TimedOutExit, Exit
    <3>5. callPc'[c] \in {"flushing", "flushed", "exited"} =>
              callPc[c] \in {"flushing", "flushed"} \/ ShouldExit(c)
      BY <3>1
      DEF EndStep, CallReturns, FlushStart, FlushNext, FlushEnds, FlushReports, FlushedExit,
          TimedOutExit, Exit, ServeInv, TypeInv, CallType
    <3>6. ShouldExit(c) => ShouldExit(c)'  BY <3>4 DEF ShouldExit, Mine
    <3> QED  BY <1>2, <2>1, <2>2, <3>2, <3>3, <3>5, <3>6 DEF ExitInv
  <2>4. CASE ~\E c \in Callers : EndStep(c) \/ TimedOutExit(c)
    <3>1. life' = life
      BY <1>2, <2>4, StepKinds
      DEF PrintOne, PrintMessages, Call, GateStep, GateDefers, GateStart,
          GateScan, GateDecides, RoutineStep, ProcessSkips, ProcessNames,
          GatherStart, Gather, FanOut, RoutineEnds, WriteStep, OutputDecides,
          SinkReturns, ReportError, Reconfigure, AddOutput, SetFastGate,
          SetErrorHandler, SetStatus, SetMaxLevel, SinkChanges, Change
    <3>2. ASSUME NEW d \in Callers, callPc'[d] \in {"flushing", "flushed", "exited"}
          PROVE  callPc'[d] = callPc[d]
      <4>1. ASSUME NEW c \in Callers, PrintOne(c) \/ PrintMessages(c)
            PROVE  callPc'[d] = callPc[d]
        <5>1. callPc'[c] \in {"gate", "waiting"}
              /\ (d # c => callPc'[d] = callPc[d])
          <6>1. PICK gate \in BOOLEAN :
                   callPc' = [callPc EXCEPT ![c] = IF gate THEN "gate" ELSE "waiting"]
            BY <4>1 DEF PrintOne, PrintMessages, Call, Plain
          <6> QED  BY <6>1 DEF ServeInv, TypeInv, CallType
        <5> QED  BY <3>2, <5>1
      <4>2. ASSUME NEW c \in Callers, GateStep(c)
            PROVE  callPc'[d] = callPc[d]
        BY <3>2, <4>2
        DEF GateStep, GateDefers, GateStart, GateScan, GateDecides, Enter,
            ServeInv, TypeInv, CallType
      <4>3. ASSUME NEW h \in Routines, RoutineStep(h)
            PROVE  callPc'[d] = callPc[d]
        BY <4>3 DEF RoutineStep, ProcessSkips, ProcessNames, GatherStart,
                    Gather, FanOut, RoutineEnds
      <4>4. ASSUME NEW h \in Routines, NEW o \in Outputs, WriteStep(h, o)
            PROVE  callPc'[d] = callPc[d]
        BY <4>4 DEF WriteStep, OutputDecides, SinkReturns, ReportError
      <4>5. CASE Reconfigure
        BY <4>5 DEF Reconfigure, AddOutput, SetFastGate, SetErrorHandler,
                    SetStatus, SetMaxLevel, SinkChanges, Change
      <4> QED  BY <1>2, <2>4, <4>1, <4>2, <4>3, <4>4, <4>5, StepKinds
    <3> QED  BY <1>2, <2>1, <2>2, <3>1, <3>2 DEF ExitInv
  <2> QED  BY <2>3, <2>4
<1>3. CASE life # "running" /\ ~UNCHANGED vars
  BY <1>3 DEF Next
<1> QED  BY <1>1, <1>2, <1>3

LEMMA AlwaysExits == Spec => [](ServeInv /\ ExitInv)
BY AlwaysServed, InitExits, StepExits, PTL DEF Spec

\* The process ends only after a Fatal message that went through the whole
\* pipeline (process, fastGated).
THEOREM NoFalseExit == Spec => []OnlyFatalExits
<1>1. ServeInv /\ ExitInv => OnlyFatalExits
  <2> SUFFICES ASSUME ServeInv, ExitInv, life = "exited"
               PROVE  \E g \in Routines : /\ msg[g].level = Fatal
                                          /\ ~Suppressed(msg[g])
                                          /\ Over(g)
    BY DEF OnlyFatalExits
  <2>1. PICK c \in Callers : callPc[c] = "exited"  BY DEF ExitInv
  <2>2. PICK g \in Mine(c) : pc[g] = "done" /\ msg[g].level = Fatal
    BY <2>1 DEF ExitInv, ShouldExit
  <2>3. g \in Routines /\ g[1] = c  BY DEF Mine
  <2>4. ~Suppressed(msg[g])
    BY <2>2, <2>3 DEF ServeInv, RoutineInv, Phases
  <2> QED  BY <2>1, <2>2, <2>3, <2>4 DEF Over
<1> QED  BY <1>1, AlwaysExits, PTL

\* The type invariant.
THEOREM TypeCorrect == Spec => []TypeOK
<1>1. ServeInv /\ ExitInv => TypeOK
  BY DEF ServeInv, TypeInv, ExitInv, RoutineInv, Phases, TypeOK
<1> QED  BY <1>1, AlwaysExits, PTL
=============================================================================
