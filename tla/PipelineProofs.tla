--------------------------- MODULE PipelineProofs ---------------------------
(***************************************************************************)
(* Theorems about an output, for any number of goroutines, any processors, *)
(* messages and settings, and any number of reconfigurations.              *)
(***************************************************************************)
EXTENDS Pipeline, WellFoundedInduction, TLAPS

LEMMA FramesAre ==
    /\ NoFrame \notin Frames
    /\ \A f \in Frames : /\ Outer(f) \in Frames /\ Inner(f) \in Frames
                         /\ f = Outer(f) => f # Inner(f)
    /\ \A w \in Writers : <<w, 1>> \in Frames
  BY DEF Frames, NoFrame, Outer, Inner

LEMMA NewType == ASSUME NEW m \in Given PROVE New(m) \in Header
  BY DEF New, Given, Header

LEMMA OverrideType == ASSUME TypeOK PROVE Override(env) \in Entries
  BY PipelineAssumption DEF TypeOK, AnyEnvironment, Override, Entries

\* The steps of one message are steps of its frame.
LEMMA ApplyType ==
    ASSUME NEW p \in AnyProcessor, NEW m \in Header
    PROVE  Apply(p, m) \in Header /\ Apply(p, m).names = m.names
  BY DEF AnyProcessor, Header, Apply

LEMMA ToSetType ==
    ASSUME NEW S, NEW s \in Seq(S)
    PROVE  ToSet(s) \subseteq S /\ \A x \in ToSet(s) : \E i \in DOMAIN s : x = s[i]
  BY DEF ToSet

LEMMA NamesType ==
    ASSUME NEW s \in Seq(AnyProcessor)
    PROVE  NamesOf(s) \in SUBSET STRING
<1>1. \A i \in DOMAIN s : s[i] \in AnyProcessor
  OBVIOUS
<1>2. \A i \in DOMAIN s : s[i].name \in STRING
  BY <1>1 DEF AnyProcessor
<1>3. QED
  BY <1>2 DEF NamesOf

LEMMA EmptySeq == \A S : <<>> \in Seq(S)
  OBVIOUS

LEMMA ReplacedType ==
    ASSUME TypeOK, NEW p \in AnyProcessor
    PROVE  /\ Replaced(p) \in Seq(AnyProcessor)
           /\ DOMAIN Replaced(p) = DOMAIN processors
           /\ \A i \in DOMAIN processors : Replaced(p)[i].name = processors[i].name
<1>1. processors \in Seq(AnyProcessor)
  BY DEF TypeOK
<1>2. DOMAIN processors = 1..Len(processors) /\ Len(processors) \in Nat
  BY <1>1
<1>3. DOMAIN Replaced(p) = DOMAIN processors
  BY DEF Replaced
<1>4. Replaced(p) \in [1..Len(processors) -> AnyProcessor]
  BY <1>1, <1>2 DEF Replaced
<1>5. QED
  BY <1>2, <1>3, <1>4 DEF Replaced

LEMMA InitTypes == Init => TypeOK
<1> SUFFICES ASSUME Init PROVE TypeOK
  OBVIOUS
<1>1. PICK s \in Setups :
        /\ kind = s.kind /\ processors = s.processors
        /\ maxLevel = s.maxLevel /\ formatter = s.formatter /\ env = s.env
        /\ pc = [f \in Frames |-> IF f[1] \in s.writers THEN "idle" ELSE "absent"]
  BY DEF Init
<1>2. New(Notice) \in Header /\ Notice \in Given
  BY PipelineAssumption, NewType
<1>3. QED
  BY <1>1, <1>2, FramesAre, PipelineAssumption DEF Init, TypeOK, Labels, Inside

USE DEF At, Goto, outputVars, recorderVars, textVars, frameVars, historyVars

LEMMA BeginTypes ==
    ASSUME TypeOK, NEW f \in Frames, NEW m \in Given, Begin(f, m)
    PROVE  /\ msg' \in [Frames -> Header] /\ given' \in [Frames -> Given]
           /\ stable' \in [Frames -> SUBSET AnyProcessor]
  BY NewType, ToSetType DEF TypeOK, Begin

LEMMA FrameTypes ==
    ASSUME TypeOK, NEW f \in Frames, FrameStep(f)
    PROVE  TypeOK'
<1>1. CASE LookForDebug(f)
  BY <1>1, FramesAre DEF LookForDebug, TypeOK, Labels, Inside
<1>2. CASE NewDebug(f)
  <2>1. msg' \in [Frames -> Header]
    BY <1>2, OverrideType DEF NewDebug, TypeOK, Header
  <2>2. QED
    BY <1>2, <2>1, FramesAre DEF NewDebug, TypeOK, Labels, Inside
<1>3. CASE Enter(f)
  BY <1>3, FramesAre DEF Enter, TypeOK, Labels, Inside
<1>4. CASE ReadNames(f)
  <2>1. NamesOf(processors) \in SUBSET STRING
    BY NamesType DEF TypeOK
  <2>2. \A ns \in SUBSET STRING : [msg[f] EXCEPT !.names = ns] \in Header
    BY DEF TypeOK, Header
  <2>3. msg[f].names \in SUBSET STRING /\ msg \in [Frames -> Header]
    BY DEF TypeOK, Header
  <2>4. msg' \in [Frames -> Header]
    BY <1>4, <2>1, <2>2, <2>3 DEF ReadNames
  <2>5. QED
    BY <1>4, <2>4, FramesAre DEF ReadNames, TypeOK, Labels, Inside
<1>5. CASE ReadProcessors(f)
  <2>1. todo' \in [Frames -> Seq(AnyProcessor)]
    BY <1>5 DEF ReadProcessors, TypeOK
  <2>2. QED
    BY <1>5, <2>1, FramesAre DEF ReadProcessors, TypeOK, Labels, Inside
<1>6. CASE RunProcessor(f)
  <2>1. Next1(f) \in AnyProcessor /\ Tail(todo[f]) \in Seq(AnyProcessor)
    BY <1>6 DEF RunProcessor, TypeOK, Next1
  <2>2. msg' \in [Frames -> Header]
    BY <1>6, <2>1, ApplyType DEF RunProcessor, TypeOK
  <2>3. todo' \in [Frames -> Seq(AnyProcessor)] /\ ran' \in [Frames -> Seq(AnyProcessor)]
    BY <1>6, <2>1 DEF RunProcessor, TypeOK
  <2>4. QED
    BY <1>6, <2>2, <2>3 DEF RunProcessor, TypeOK, Inside
<1>7. CASE CallBack(f)
  <2>1. Next1(f) \in AnyProcessor /\ Tail(todo[f]) \in Seq(AnyProcessor)
    BY <1>7 DEF CallBack, TypeOK, Next1
  <2>2. todo' \in [Frames -> Seq(AnyProcessor)] /\ ran' \in [Frames -> Seq(AnyProcessor)]
    <3>1. ran[f] \in Seq(AnyProcessor)
      BY DEF TypeOK
    <3>2. Append(ran[f], Next1(f)) \in Seq(AnyProcessor)
      BY <2>1, <3>1
    <3>3. QED
      BY <1>7, <2>1, <3>2, EmptySeq DEF CallBack, TypeOK
  <2>3. f # Inner(f) /\ Inner(f) \in Frames
    BY <1>7, FramesAre DEF CallBack, Calls
  <2>4. pc' \in [Frames -> Labels]
    BY <1>7 DEF CallBack, TypeOK, Labels
  <2>5. kind = "Recorder" => \A g \in Frames : pc'[g] \in Inside <=> writeMu = g
    BY <1>7, <2>3 DEF CallBack, TypeOK, Inside
  <2>6. /\ msg' \in [Frames -> Header] /\ given' \in [Frames -> Given]
        /\ stable' \in [Frames -> SUBSET AnyProcessor]
    BY <1>7, <2>3, BeginTypes, PipelineAssumption DEF CallBack
  <2>7. QED
    BY <1>7, <2>2, <2>4, <2>5, <2>6 DEF CallBack, TypeOK
<1>8. CASE CalledBack(f)
  BY <1>8 DEF CalledBack, TypeOK, Labels, Inside
<1>9. CASE ReadMaxLevel(f)
  <2>1. limit' \in [Frames -> Levels \cup {0}]
    BY <1>9 DEF ReadMaxLevel, TypeOK
  <2>2. PICK label \in {"check", "env"} : pc' = [pc EXCEPT ![f] = label]
    BY <1>9 DEF ReadMaxLevel
  <2>3. pc' \in [Frames -> Labels] /\ \A g \in Frames : pc'[g] \in Inside <=> pc[g] \in Inside
    BY <1>9, <2>2 DEF ReadMaxLevel, TypeOK, Labels, Inside
  <2>4. QED
    BY <1>9, <2>1, <2>3 DEF ReadMaxLevel, TypeOK
<1>10. CASE Decide(f)
  BY <1>10 DEF Decide, TypeOK, Labels, Inside
<1>11. CASE CheckFormatter(f)
  BY <1>11 DEF CheckFormatter, TypeOK, Labels, Inside
<1>12. CASE Format(f)
  BY <1>12 DEF Format, TypeOK, Labels, Inside
<1>13. CASE Emit(f)
  BY <1>13 DEF Emit, TypeOK, Labels, Inside
<1>14. CASE Leave(f)
  BY <1>14, FramesAre DEF Leave, TypeOK, Labels, Inside
<1>15. QED
  BY <1>1, <1>2, <1>3, <1>4, <1>5, <1>6, <1>7, <1>8, <1>9, <1>10, <1>11, <1>12,
     <1>13, <1>14 DEF FrameStep

LEMMA ReceiveTypes ==
    ASSUME TypeOK, NEW w \in Writers, Log(w) \/ WriteDirectly(w)
    PROVE  TypeOK'
<1> DEFINE f == <<w, 1>>
<1>1. f \in Frames
  BY FramesAre
<1>2. PICK label \in {"dispatch", "write"} : Receive(w, label)
  BY DEF Log, WriteDirectly
<1>3. PICK m \in Messages : Begin(f, m)
  BY <1>2 DEF Receive
<1>4. /\ msg' \in [Frames -> Header] /\ given' \in [Frames -> Given]
      /\ stable' \in [Frames -> SUBSET AnyProcessor]
  BY <1>1, <1>3, BeginTypes, PipelineAssumption
<1>5. pc' = [pc EXCEPT ![f] = label] /\ pc[f] = "idle"
  BY <1>2 DEF Receive
<1>6. ran' = [ran EXCEPT ![f] = <<>>]
  BY <1>2 DEF Receive
<1>7. pc' \in [Frames -> Labels] /\ ran' \in [Frames -> Seq(AnyProcessor)]
  BY <1>5, <1>6, EmptySeq DEF TypeOK, Labels
<1>8. kind = "Recorder" => \A g \in Frames : pc'[g] \in Inside <=> writeMu = g
  BY <1>1, <1>5 DEF TypeOK, Inside
<1>9. direct' \subseteq Frames
  BY <1>1, <1>2 DEF Receive, TypeOK
<1>10. QED
  BY <1>2, <1>4, <1>7, <1>8, <1>9 DEF Receive, TypeOK

LEMMA ReconfigureTypes ==
    ASSUME TypeOK, Reconfigure
    PROVE  TypeOK'
<1>0. MaxChanges \in Nat
  BY PipelineAssumption
<1>1. CASE SetMaxLevel
  BY <1>0, <1>1 DEF SetMaxLevel, Change, TypeOK
<1>2. CASE SetFormatter
  BY <1>0, <1>2 DEF SetFormatter, Change, TypeOK
<1>3. CASE AddProcessors
  BY <1>0, <1>3, PipelineAssumption DEF AddProcessors, Change, TypeOK
<1>4. CASE SetProcessors
  <2>1. processors' \in Seq(AnyProcessor)
    BY <1>4, ReplacedType, PipelineAssumption DEF SetProcessors
  <2>2. stable' \in [Frames -> SUBSET AnyProcessor]
    BY <1>4 DEF SetProcessors, Touch, TypeOK
  <2>3. QED
    BY <1>0, <1>4, <2>1, <2>2 DEF SetProcessors, Change, TypeOK
<1>5. CASE SetStatus
  <2>1. ToSet(processors) \subseteq AnyProcessor
    BY ToSetType DEF TypeOK
  <2>2. stable' \in [Frames -> SUBSET AnyProcessor] /\ disabled' \subseteq AnyProcessor
    BY <1>5, <2>1 DEF SetStatus, Touch, TypeOK
  <2>3. QED
    BY <1>0, <1>5, <2>2 DEF SetStatus, Change, TypeOK
<1>6. CASE Setenv
  BY <1>0, <1>6 DEF Setenv, Change, TypeOK
<1>7. CASE Reset
  BY <1>7 DEF Reset, TypeOK
<1>8. QED
  BY <1>1, <1>2, <1>3, <1>4, <1>5, <1>6, <1>7 DEF Reconfigure

LEMMA NextTypes == TypeOK /\ [Next]_vars => TypeOK'
<1> SUFFICES ASSUME TypeOK, [Next]_vars PROVE TypeOK'
  OBVIOUS
<1>1. CASE UNCHANGED vars
  BY <1>1 DEF vars, TypeOK
<1>2. CASE Next
  BY <1>2, FrameTypes, ReceiveTypes, ReconfigureTypes DEF Next
<1>3. QED
  BY <1>1, <1>2

\* Every variable keeps its type, and at most one goroutine is inside the
\* Recorder, whose mutex it holds and whose pending message is its own.
THEOREM TypeCorrect == Spec => []TypeOK
  BY InitTypes, NextTypes, PTL DEF Spec

----------------------------------------------------------------------------
(* The order.  Replacing a processor keeps the name at each place, adding  *)
(* one keeps the places: what a message has before it, and what it has     *)
(* behind it, keeps its places in the list.                                *)

Known(s) == \A i \in DOMAIN s : s[i].name \in NamesOf(processors)

Sorted(s) == \A i, j \in DOMAIN s : i < j => Before(s[i], s[j])

OrderInv ==
    /\ Distinct(processors)
    /\ \A f \in Frames :
          /\ Known(todo[f]) /\ Known(ran[f]) /\ Sorted(todo[f]) /\ Sorted(ran[f])
          /\ pc[f] = "list" => ran[f] = <<>>
          /\ pc[f] \in {"dispatch", "matching", "write", "names"} => ran[f] = <<>>
          /\ \A i \in DOMAIN ran[f], j \in DOMAIN todo[f] : Before(ran[f][i], todo[f][j])

LEMMA InitOrder == Init => OrderInv
<1> SUFFICES ASSUME Init PROVE OrderInv
  OBVIOUS
<1>1. Distinct(processors)
  BY PipelineAssumption DEF Init
<1>2. \A f \in Frames : todo[f] = <<>> /\ ran[f] = <<>>
  BY DEF Init
<1>3. \A s : s = <<>> => Known(s) /\ Sorted(s)
  BY DEF Known, Sorted
<1>4. QED
  BY <1>1, <1>2, <1>3 DEF OrderInv

\* A change of the list that keeps the known names where they are keeps the
\* order of what is known.
LEMMA PlacesKept ==
    ASSUME TypeOK, OrderInv, UNCHANGED <<pc, todo, ran>>,
           Distinct(processors'),
           NamesOf(processors) \subseteq NamesOf(processors'),
           \A b \in DOMAIN processors' : processors'[b].name \in NamesOf(processors) =>
              b \in DOMAIN processors /\ processors[b].name = processors'[b].name
    PROVE  OrderInv'
<1>1. ASSUME NEW p, NEW q, Before(p, q),
             p.name \in NamesOf(processors), q.name \in NamesOf(processors)
      PROVE  Before(p, q)'
  BY <1>1 DEF Before
<1>2. ASSUME NEW f \in Frames
      PROVE  Known(todo[f])' /\ Known(ran[f])'
  BY DEF OrderInv, Known
<1>3. ASSUME NEW f \in Frames
      PROVE  Sorted(todo[f])' /\ Sorted(ran[f])'
  BY <1>1 DEF OrderInv, Known, Sorted
<1>4. ASSUME NEW f \in Frames, NEW i \in DOMAIN ran'[f], NEW j \in DOMAIN todo'[f]
      PROVE  Before(ran[f][i], todo[f][j])'
  BY <1>1, <1>4 DEF OrderInv, Known
<1>5. QED
  BY <1>2, <1>3, <1>4 DEF OrderInv

\* A step of one frame that leaves the list alone.
LEMMA FrameOrder ==
    ASSUME TypeOK, OrderInv, NEW f \in Frames, UNCHANGED processors,
           \A g \in Frames \ {f} : ran'[g] = ran[g] /\ todo'[g] = todo[g] /\ pc'[g] = pc[g],
           Known(todo'[f]), Known(ran'[f]), Sorted(todo'[f]), Sorted(ran'[f]),
           pc'[f] \in {"dispatch", "matching", "write", "names", "list"} => ran'[f] = <<>>,
           \A i \in DOMAIN ran'[f], j \in DOMAIN todo'[f] : Before(ran'[f][i], todo'[f][j])
    PROVE  OrderInv'
<1>1. \A s : (Known(s))' <=> Known(s')
  BY DEF Known
<1>2. \A s : (Sorted(s))' <=> Sorted(s')
  BY DEF Sorted, Before
<1>3. QED
  BY DEF OrderInv, Known, Sorted, Before

\* A step that leaves the list, the queue and what was run alone.
LEMMA QuietOrder ==
    ASSUME TypeOK, OrderInv, NEW f \in Frames, UNCHANGED <<processors, todo, ran>>,
           NEW label, pc' = [pc EXCEPT ![f] = label],
           \/ label \notin {"dispatch", "matching", "write", "names", "list"}
           \/ pc[f] \in {"dispatch", "matching", "write", "names"}
    PROVE  OrderInv'
<1>1. ASSUME NEW g \in Frames, pc'[g] \in {"dispatch", "matching", "write", "names", "list"}
      PROVE  ran[g] = <<>>
  BY <1>1 DEF OrderInv, TypeOK
<1>2. QED
  BY <1>1 DEF OrderInv, Known, Sorted, Before

\* The first of the queue is run, or passed over.
LEMMA HeadTaken ==
    ASSUME TypeOK, OrderInv, NEW f \in Frames, todo[f] # <<>>
    PROVE  /\ Known(Tail(todo[f])) /\ Sorted(Tail(todo[f]))
           /\ Known(Append(ran[f], Next1(f))) /\ Sorted(Append(ran[f], Next1(f)))
           /\ \A i \in DOMAIN Append(ran[f], Next1(f)), j \in DOMAIN Tail(todo[f]) :
                 Before(Append(ran[f], Next1(f))[i], Tail(todo[f])[j])
<1> DEFINE t == todo[f]
           r == ran[f]
           a == Append(r, Next1(f))
<1>1. /\ t \in Seq(AnyProcessor) /\ r \in Seq(AnyProcessor) /\ t # <<>>
      /\ Known(t) /\ Known(r) /\ Sorted(t) /\ Sorted(r)
      /\ \A i \in DOMAIN r, j \in DOMAIN t : Before(r[i], t[j])
  BY DEF TypeOK, OrderInv
<1>2. /\ Len(t) \in Nat \ {0} /\ DOMAIN t = 1..Len(t)
      /\ Next1(f) = t[1]
      /\ Tail(t) \in Seq(AnyProcessor) /\ DOMAIN Tail(t) = 1..(Len(t) - 1)
      /\ \A i \in 1..(Len(t) - 1) : Tail(t)[i] = t[i + 1]
  BY <1>1 DEF Next1
<1>3. /\ Len(r) \in Nat /\ DOMAIN r = 1..Len(r)
      /\ DOMAIN a = 1..(Len(r) + 1)
      /\ \A i \in 1..Len(r) : a[i] = r[i]
      /\ a[Len(r) + 1] = t[1]
  BY <1>1, <1>2
<1> HIDE DEF a
<1>4. Known(Tail(t)) /\ Sorted(Tail(t))
  <2>1. \A j \in DOMAIN Tail(t) : j + 1 \in DOMAIN t /\ Tail(t)[j] = t[j + 1]
    BY <1>2
  <2>2. Known(Tail(t))
    BY <1>1, <2>1 DEF Known
  <2>3. ASSUME NEW i \in DOMAIN Tail(t), NEW j \in DOMAIN Tail(t), i < j
        PROVE  Before(Tail(t)[i], Tail(t)[j])
    <3>1. i + 1 < j + 1 /\ i + 1 \in DOMAIN t /\ j + 1 \in DOMAIN t
      BY <1>2, <2>1, <2>3
    <3>2. Before(t[i + 1], t[j + 1])
      BY <1>1, <3>1 DEF Sorted
    <3>3. QED
      BY <2>1, <2>3, <3>2
  <2>4. QED
    BY <2>2, <2>3 DEF Sorted
<1>5. Known(a)
  BY <1>1, <1>2, <1>3 DEF Known
<1>6. ASSUME NEW i \in DOMAIN a, NEW j \in DOMAIN a, i < j
      PROVE  Before(a[i], a[j])
  <2>1. i \in 1..Len(r)
    BY <1>3, <1>6
  <2>2. CASE j \in 1..Len(r)
    BY <1>1, <1>3, <1>6, <2>1, <2>2 DEF Sorted
  <2>3. CASE j = Len(r) + 1
    BY <1>1, <1>2, <1>3, <2>1, <2>3
  <2>4. QED
    BY <1>3, <2>2, <2>3
<1>7. ASSUME NEW i \in DOMAIN a, NEW j \in DOMAIN Tail(t)
      PROVE  Before(a[i], Tail(t)[j])
  <2>1. j \in 1..(Len(t) - 1) /\ j + 1 \in DOMAIN t /\ 1 \in DOMAIN t /\ 1 < j + 1
    BY <1>2, <1>7
  <2>2. Tail(t)[j] = t[j + 1]
    BY <1>2, <2>1
  <2>3. CASE i \in 1..Len(r)
    BY <1>1, <1>3, <2>1, <2>2, <2>3
  <2>4. CASE i = Len(r) + 1
    BY <1>1, <1>3, <2>1, <2>2, <2>4 DEF Sorted
  <2>5. QED
    BY <1>3, <2>3, <2>4
<1>8. QED
  BY <1>4, <1>5, <1>6, <1>7 DEF a, Sorted

\* The list of processors, as it is read.
LEMMA ListOrder ==
    ASSUME TypeOK, OrderInv
    PROVE  Known(processors) /\ Sorted(processors)
<1>1. Known(processors)
  BY DEF Known, NamesOf
<1>2. ASSUME NEW i \in DOMAIN processors, NEW j \in DOMAIN processors, i < j
      PROVE  Before(processors[i], processors[j])
  BY <1>2 DEF OrderInv, Distinct, Before
<1>3. QED
  BY <1>1, <1>2 DEF Sorted

LEMMA NothingYet == Known(<<>>) /\ Sorted(<<>>) /\ \A i \in DOMAIN <<>> : FALSE
  BY DEF Known, Sorted

LEMMA FrameStepOrder ==
    ASSUME TypeOK, OrderInv, NEW f \in Frames, FrameStep(f)
    PROVE  OrderInv'
<1>1. CASE LookForDebug(f) \/ NewDebug(f) \/ Enter(f) \/ ReadNames(f)
  <2>1. PICK label : pc' = [pc EXCEPT ![f] = label]
    BY <1>1 DEF LookForDebug, NewDebug, Enter, ReadNames
  <2>2. /\ UNCHANGED <<processors, todo, ran>>
        /\ pc[f] \in {"dispatch", "matching", "write", "names"}
    BY <1>1 DEF LookForDebug, NewDebug, Enter, ReadNames
  <2>3. QED
    BY <2>1, <2>2, QuietOrder
<1>2. CASE CalledBack(f) \/ ReadMaxLevel(f) \/ Decide(f) \/ CheckFormatter(f)
           \/ Format(f) \/ Emit(f) \/ Leave(f)
  <2>1. PICK label \in {"running", "check", "env", "panicked", "leave", "emit", "format", "returned"} :
           pc' = [pc EXCEPT ![f] = label]
    BY <1>2 DEF CalledBack, ReadMaxLevel, Decide, CheckFormatter, Format, Emit, Leave
  <2>2. UNCHANGED <<processors, todo, ran>>
    BY <1>2 DEF CalledBack, ReadMaxLevel, Decide, CheckFormatter, Format, Emit, Leave
  <2>3. QED
    BY <2>1, <2>2, QuietOrder
<1>3. CASE ReadProcessors(f)
  <2>1. /\ pc' = [pc EXCEPT ![f] = "running"] /\ UNCHANGED <<processors, ran>>
        /\ ran[f] = <<>> /\ \A g \in Frames \ {f} : todo'[g] = todo[g]
        /\ todo'[f] = processors \/ todo'[f] = <<>>
    BY <1>3 DEF ReadProcessors, TypeOK, OrderInv
  <2>2. \A g \in Frames \ {f} : pc'[g] = pc[g]
    BY <2>1 DEF TypeOK
  <2>3. pc'[f] = "running"
    BY <2>1 DEF TypeOK
  <2>4. Known(todo'[f]) /\ Known(ran'[f]) /\ Sorted(todo'[f]) /\ Sorted(ran'[f])
    BY <2>1, ListOrder, NothingYet
  <2>5. QED
    BY <2>1, <2>2, <2>3, <2>4, NothingYet, FrameOrder
<1>4. CASE RunProcessor(f)
  <2>1. /\ UNCHANGED <<processors, pc>> /\ pc[f] = "running" /\ todo[f] # <<>>
        /\ todo'[f] = Tail(todo[f])
        /\ \A g \in Frames \ {f} : todo'[g] = todo[g] /\ ran'[g] = ran[g]
        /\ ran'[f] = ran[f] \/ ran'[f] = Append(ran[f], Next1(f))
    BY <1>4 DEF RunProcessor, TypeOK
  <2>2. todo[f] \in Seq(AnyProcessor)
    BY DEF TypeOK
  <2>3. \A j \in DOMAIN Tail(todo[f]) :
           j + 1 \in DOMAIN todo[f] /\ Tail(todo[f])[j] = todo[f][j + 1]
    BY <2>1, <2>2
  <2>4. \A i \in DOMAIN ran[f], j \in DOMAIN Tail(todo[f]) : Before(ran[f][i], Tail(todo[f])[j])
    BY <2>3 DEF OrderInv
  <2>5. Known(ran[f]) /\ Sorted(ran[f])
    BY DEF OrderInv
  <2>6. CASE ran'[f] = ran[f]
    BY <2>1, <2>4, <2>5, <2>6, HeadTaken, FrameOrder
  <2>7. CASE ran'[f] = Append(ran[f], Next1(f))
    BY <2>1, <2>7, HeadTaken, FrameOrder
  <2>8. QED
    BY <2>1, <2>6, <2>7
<1>5. CASE CallBack(f)
  <2> DEFINE g == Inner(f)
  <2>1. /\ UNCHANGED processors /\ pc[f] = "running" /\ todo[f] # <<>>
        /\ g \in Frames /\ g # f
    BY <1>5, FramesAre DEF CallBack, Calls
  <2>2. /\ todo' = [todo EXCEPT ![f] = Tail(@)]
        /\ ran' = [ran EXCEPT ![f] = Append(@, Next1(f)), ![g] = <<>>]
        /\ pc' = [pc EXCEPT ![f] = "calling", ![g] = "dispatch"]
    BY <1>5 DEF CallBack
  <2> HIDE DEF g
  <2>3. /\ todo'[f] = Tail(todo[f]) /\ ran'[f] = Append(ran[f], Next1(f))
        /\ pc'[f] = "calling" /\ ran'[g] = <<>> /\ todo'[g] = todo[g]
        /\ \A h \in Frames \ {f, g} : todo'[h] = todo[h] /\ ran'[h] = ran[h] /\ pc'[h] = pc[h]
    BY <2>1, <2>2 DEF TypeOK
  <2>4. \A s : (Known(s))' <=> Known(s')
    BY <2>1 DEF Known
  <2>5. \A s : (Sorted(s))' <=> Sorted(s')
    BY <2>1 DEF Sorted, Before
  <2>6. /\ Known(todo'[f]) /\ Known(ran'[f]) /\ Sorted(todo'[f]) /\ Sorted(ran'[f])
        /\ \A i \in DOMAIN ran'[f], j \in DOMAIN todo'[f] : Before(ran'[f][i], todo'[f][j])
    BY <2>1, <2>3, HeadTaken
  <2>7. /\ Known(todo'[g]) /\ Known(ran'[g]) /\ Sorted(todo'[g]) /\ Sorted(ran'[g])
        /\ \A i \in DOMAIN ran'[g], j \in DOMAIN todo'[g] : Before(ran'[g][i], todo'[g][j])
    BY <2>1, <2>3, NothingYet DEF OrderInv
  <2>8. ASSUME NEW h \in Frames
        PROVE  /\ Known(todo'[h]) /\ Known(ran'[h]) /\ Sorted(todo'[h]) /\ Sorted(ran'[h])
               /\ \A i \in DOMAIN ran'[h], j \in DOMAIN todo'[h] : Before(ran'[h][i], todo'[h][j])
    BY <2>3, <2>6, <2>7 DEF OrderInv
  <2>9. ASSUME NEW h \in Frames,
               pc'[h] \in {"dispatch", "matching", "write", "names", "list"}
        PROVE  ran'[h] = <<>>
    BY <2>3, <2>9 DEF OrderInv
  <2>10. Distinct(processors')
    BY <2>1 DEF OrderInv
  <2>11. \A p, q : (Before(p, q))' <=> Before(p', q')
    BY <2>1 DEF Before
  <2>12. QED
    BY <2>4, <2>5, <2>8, <2>9, <2>10, <2>11 DEF OrderInv
<1>6. QED
  BY <1>1, <1>2, <1>3, <1>4, <1>5 DEF FrameStep

LEMMA NextOrder == TypeOK /\ OrderInv /\ [Next]_vars => OrderInv'
<1> SUFFICES ASSUME TypeOK, OrderInv, [Next]_vars PROVE OrderInv'
  OBVIOUS
<1>1. CASE UNCHANGED vars \/ SetMaxLevel \/ SetFormatter \/ SetStatus \/ Setenv \/ Reset
  <2>1. UNCHANGED <<processors, todo, ran, pc>>
    BY <1>1 DEF vars, SetMaxLevel, SetFormatter, SetStatus, Setenv, Reset
  <2>2. QED
    BY <2>1 DEF OrderInv, Known, Sorted, Before, Distinct, NamesOf
<1>2. CASE AddProcessors
  <2>1. PICK p \in Spares : p.name \notin NamesOf(processors)
                            /\ processors' = Append(processors, p)
    BY <1>2 DEF AddProcessors
  <2>2. processors \in Seq(AnyProcessor) /\ Distinct(processors)
    BY DEF TypeOK, OrderInv
  <2>3. /\ Len(processors) \in Nat /\ DOMAIN processors = 1..Len(processors)
        /\ DOMAIN processors' = 1..(Len(processors) + 1)
        /\ \A i \in 1..Len(processors) : processors'[i] = processors[i]
        /\ processors'[Len(processors) + 1] = p
    BY <2>1, <2>2
  <2>4. \A i \in DOMAIN processors : p.name # processors[i].name
    BY <2>1 DEF NamesOf
  <2>5. Distinct(processors')
    BY <2>2, <2>3, <2>4 DEF Distinct
  <2>6. NamesOf(processors) \subseteq NamesOf(processors')
    BY <2>3 DEF NamesOf
  <2>7. \A b \in DOMAIN processors' : processors'[b].name \in NamesOf(processors) =>
              b \in DOMAIN processors /\ processors[b].name = processors'[b].name
    BY <2>1, <2>3
  <2>8. QED
    BY <1>2, <2>5, <2>6, <2>7, PlacesKept DEF AddProcessors
<1>3. CASE SetProcessors
  <2>1. PICK p \in Spares : processors' = Replaced(p)
    BY <1>3 DEF SetProcessors
  <2>2. /\ DOMAIN processors' = DOMAIN processors
        /\ \A i \in DOMAIN processors : processors'[i].name = processors[i].name
    BY <2>1, ReplacedType, PipelineAssumption
  <2>3. Distinct(processors') /\ NamesOf(processors) \subseteq NamesOf(processors')
    BY <2>2 DEF OrderInv, Distinct, NamesOf
  <2>4. QED
    BY <1>3, <2>2, <2>3, PlacesKept DEF SetProcessors
<1>4. ASSUME NEW w \in Writers, Log(w) \/ WriteDirectly(w)
      PROVE  OrderInv'
  <2> DEFINE f == <<w, 1>>
  <2>1. f \in Frames
    BY FramesAre
  <2>2. PICK label : Receive(w, label)
    BY <1>4 DEF Log, WriteDirectly
  <2>3. /\ UNCHANGED <<processors, todo>>
        /\ pc' = [pc EXCEPT ![f] = label] /\ ran' = [ran EXCEPT ![f] = <<>>]
    BY <2>2 DEF Receive
  <2>4. /\ ran'[f] = <<>>
        /\ \A g \in Frames \ {f} : ran'[g] = ran[g] /\ pc'[g] = pc[g] /\ todo'[g] = todo[g]
    BY <2>1, <2>3 DEF TypeOK
  <2>5. Known(todo'[f]) /\ Sorted(todo'[f])
    BY <2>1, <2>3 DEF OrderInv
  <2>6. QED
    BY <2>1, <2>3, <2>4, <2>5, NothingYet, FrameOrder
<1>5. QED
  BY <1>1, <1>2, <1>3, <1>4, FrameStepOrder DEF Next, Reconfigure

----------------------------------------------------------------------------
(* The account of what a message has run through.                          *)

Early == {"dispatch", "matching", "write", "names"}

Past == {"running", "calling", "env", "check", "format", "emit", "leave", "returned"}

Due(f, p) == p \notin disabled /\ Names(given[f], p)

Accounted(f) ==
    /\ stable[f] \subseteq ToSet(processors)
    /\ pc[f] \in Early => msg[f].names = given[f].names
    /\ pc[f] \in Early \cup {"list"} => msg[f].flag = given[f].flag
    /\ pc[f] \in Past \cup {"list"} =>
          \A p \in stable[f] : p.name \in msg[f].names <=> Names(given[f], p)
    /\ pc[f] \in Past /\ given[f].flag \notin Skipping =>
          \A p \in stable[f] :
              p \in ToSet(todo[f]) \/ (p \in ToSet(ran[f]) <=> Due(f, p))
    /\ pc[f] \in Past \ {"running", "calling"} => todo[f] = <<>>

AccountInv == \A f \in Frames : Accounted(f)

LEMMA InitAccount == Init => AccountInv
  BY DEF Init, AccountInv, Accounted, Early, Past

\* What a step of one frame does not touch stays accounted for.
LEMMA AccountKept ==
    ASSUME AccountInv, NEW g \in Frames, UNCHANGED <<processors, disabled>>,
           /\ pc'[g] = pc[g] /\ msg'[g] = msg[g] /\ given'[g] = given[g]
           /\ stable'[g] = stable[g] /\ todo'[g] = todo[g] /\ ran'[g] = ran[g]
    PROVE  Accounted(g)'
  BY DEF AccountInv, Accounted, Due, Names

LEMMA BeginAccount ==
    ASSUME TypeOK, NEW f \in Frames, NEW m \in Given, Begin(f, m),
           UNCHANGED processors, pc'[f] \in {"dispatch", "write"}
    PROVE  Accounted(f)'
<1>1. stable'[f] = ToSet(processors) /\ given'[f] = m /\ msg'[f] = New(m)
  BY DEF Begin, TypeOK
<1>2. New(m).names = m.names /\ New(m).flag = m.flag
  BY DEF New
<1>3. QED
  BY <1>1, <1>2 DEF Accounted, Early, Past

\* Nothing waits that has been run.
LEMMA NotTwice ==
    ASSUME TypeOK, OrderInv, NEW f \in Frames, todo[f] # <<>>
    PROVE  Next1(f) \notin ToSet(ran[f])
<1>1. todo[f] \in Seq(AnyProcessor) /\ ran[f] \in Seq(AnyProcessor)
  BY DEF TypeOK
<1>2. 1 \in DOMAIN todo[f] /\ Next1(f) = todo[f][1]
  BY <1>1 DEF Next1
<1>3. SUFFICES ASSUME NEW i \in DOMAIN ran[f], ran[f][i] = Next1(f) PROVE FALSE
  BY <1>1, ToSetType
<1>4. Before(Next1(f), Next1(f))
  BY <1>2, <1>3 DEF OrderInv
<1>5. PICK a \in DOMAIN processors : processors[a].name = Next1(f).name
  BY <1>2 DEF OrderInv, Known, NamesOf
<1>6. a < a
  BY <1>4, <1>5 DEF Before
<1>7. processors \in Seq(AnyProcessor) /\ a \in Nat
  BY <1>5 DEF TypeOK
<1>8. QED
  BY <1>6, <1>7

LEMMA AppendSet ==
    ASSUME NEW S, NEW s \in Seq(S), NEW x \in S
    PROVE  ToSet(Append(s, x)) = ToSet(s) \cup {x}
<1>1. /\ Len(s) \in Nat /\ DOMAIN s = 1..Len(s)
      /\ DOMAIN Append(s, x) = 1..(Len(s) + 1)
      /\ \A i \in 1..Len(s) : Append(s, x)[i] = s[i]
      /\ Append(s, x)[Len(s) + 1] = x
  OBVIOUS
<1>2. QED
  BY <1>1 DEF ToSet

LEMMA HeadAndTailSet ==
    ASSUME NEW S, NEW s \in Seq(S), s # <<>>
    PROVE  ToSet(s) = {Head(s)} \cup ToSet(Tail(s))
<1>1. /\ Len(s) \in Nat /\ DOMAIN s = 1..Len(s) /\ Len(s) >= 1
      /\ Head(s) = s[1] /\ DOMAIN Tail(s) = 1..(Len(s) - 1)
      /\ \A i \in 1..(Len(s) - 1) : Tail(s)[i] = s[i + 1]
  OBVIOUS
<1>2. \A i \in DOMAIN s : i = 1 \/ (i - 1 \in DOMAIN Tail(s) /\ Tail(s)[i - 1] = s[i])
  BY <1>1
<1>3. \A i \in DOMAIN Tail(s) : i + 1 \in DOMAIN s /\ Tail(s)[i] = s[i + 1]
  BY <1>1
<1>4. 1 \in DOMAIN s
  BY <1>1
<1>5. ASSUME NEW y \in ToSet(s)
      PROVE  y = Head(s) \/ y \in ToSet(Tail(s))
  <2>1. PICK i \in DOMAIN s : y = s[i]
    BY <1>5 DEF ToSet
  <2>2. CASE i = 1
    BY <1>1, <2>1, <2>2
  <2>3. CASE i - 1 \in DOMAIN Tail(s) /\ Tail(s)[i - 1] = s[i]
    BY <2>1, <2>3 DEF ToSet
  <2>4. QED
    BY <1>2, <2>1, <2>2, <2>3
<1>6. ASSUME NEW y \in ToSet(Tail(s))
      PROVE  y \in ToSet(s)
  BY <1>3, <1>6 DEF ToSet
<1>7. Head(s) \in ToSet(s)
  BY <1>1, <1>4 DEF ToSet
<1>8. QED
  BY <1>5, <1>6, <1>7

\* The head of the queue is run if it is due, and leaves the queue.
LEMMA HeadAccounted ==
    ASSUME TypeOK, OrderInv, AccountInv, NEW f \in Frames,
           todo[f] # <<>>, pc[f] = "running", pc'[f] \in {"running", "calling"},
           UNCHANGED <<processors, disabled>>,
           /\ given'[f] = given[f] /\ stable'[f] = stable[f]
           /\ msg'[f].names = msg[f].names /\ todo'[f] = Tail(todo[f])
           /\ ran'[f] = IF Runs(f, Next1(f)) THEN Append(ran[f], Next1(f)) ELSE ran[f]
    PROVE  Accounted(f)'
<1> DEFINE h == Next1(f)
<1>1. todo[f] \in Seq(AnyProcessor) /\ ran[f] \in Seq(AnyProcessor) /\ h \in AnyProcessor
  BY DEF TypeOK, Next1
<1>2. ToSet(todo[f]) = {h} \cup ToSet(todo'[f])
  BY <1>1, HeadAndTailSet DEF Next1
<1>3. ToSet(ran'[f]) = IF Runs(f, h) THEN ToSet(ran[f]) \cup {h} ELSE ToSet(ran[f])
  <2>1. ToSet(Append(ran[f], h)) = ToSet(ran[f]) \cup {h}
    BY <1>1, AppendSet
  <2>2. QED
    BY <2>1
<1>4. h \notin ToSet(ran[f])
  BY NotTwice
<1>5. ASSUME NEW p \in stable[f], given[f].flag \notin Skipping
      PROVE  p \in ToSet(todo'[f]) \/ (p \in ToSet(ran'[f]) <=> Due(f, p))
  <2>1. p \in ToSet(todo[f]) \/ (p \in ToSet(ran[f]) <=> Due(f, p))
    BY <1>5 DEF AccountInv, Accounted, Past
  <2>2. p.name \in msg[f].names <=> Names(given[f], p)
    BY <1>5 DEF AccountInv, Accounted, Past
  <2>3. CASE p = h
    BY <1>3, <1>4, <2>2, <2>3 DEF Runs, Due
  <2>4. CASE p # h
    BY <1>2, <1>3, <2>1, <2>4
  <2>5. QED
    BY <2>3, <2>4
<1>6. \A p : (Due(f, p))' <=> Due(f, p')
  BY DEF Due, Names
<1>7. \A p \in stable[f] : p.name \in msg'[f].names <=> Names(given'[f], p)
  BY DEF AccountInv, Accounted, Past
<1>8. stable'[f] \subseteq ToSet(processors')
  BY DEF AccountInv, Accounted
<1>9. pc'[f] \notin Early /\ pc'[f] # "list" /\ pc'[f] \notin Past \ {"running", "calling"}
  BY DEF Early, Past
<1> HIDE DEF h
<1>10. \A p \in stable[f] : given[f].flag \notin Skipping =>
          p \in ToSet(todo'[f]) \/ (p \in ToSet(ran'[f]) <=> (Due(f, p))')
  BY <1>5, <1>6
<1>11. QED
  BY <1>7, <1>8, <1>9, <1>10 DEF Accounted

LEMMA FrameAccount ==
    ASSUME TypeOK, OrderInv, AccountInv, NEW f \in Frames, FrameStep(f)
    PROVE  AccountInv'
<1> SUFFICES ASSUME NEW g \in Frames PROVE Accounted(g)'
  BY DEF AccountInv
<1>1. CASE LookForDebug(f) \/ NewDebug(f) \/ Enter(f)
  <2>1. /\ UNCHANGED <<processors, disabled, given, stable, todo, ran>>
        /\ pc[f] \in Early
    BY <1>1 DEF LookForDebug, NewDebug, Enter, Early
  <2>2. PICK label \in Early : pc' = [pc EXCEPT ![f] = label]
    BY <1>1 DEF LookForDebug, NewDebug, Enter, Early
  <2>3. msg'[g].names = msg[g].names /\ msg'[g].flag = msg[g].flag
    <3>1. CASE NewDebug(f)
      BY <3>1 DEF NewDebug, TypeOK, Header
    <3>2. CASE LookForDebug(f) \/ Enter(f)
      BY <3>2 DEF LookForDebug, Enter
    <3>3. QED
      BY <1>1, <3>1, <3>2
  <2>4. pc'[g] \in Early <=> pc[g] \in Early
    BY <2>1, <2>2 DEF TypeOK
  <2>5. pc'[g] = pc[g] \/ pc'[g] \in Early
    BY <2>2 DEF TypeOK
  <2>6. Early \cap (Past \cup {"list"}) = {}
    BY DEF Early, Past
  <2>7. CASE pc'[g] = pc[g]
    BY <2>1, <2>3, <2>7 DEF AccountInv, Accounted, Due, Names
  <2>8. CASE pc'[g] \in Early
    BY <2>1, <2>3, <2>4, <2>6, <2>8 DEF AccountInv, Accounted
  <2>9. QED
    BY <2>5, <2>7, <2>8
<1>2. CASE ReadNames(f)
  <2>1. UNCHANGED <<processors, disabled, given, stable, todo, ran>>
    BY <1>2 DEF ReadNames
  <2>2. CASE g # f
    BY <1>2, <2>1, <2>2, AccountKept DEF ReadNames, TypeOK
  <2>3. CASE g = f
    <3>1. /\ pc[f] = "names" /\ pc'[f] = "list"
          /\ msg'[f].names = IF msg[f].names = {} THEN NamesOf(processors) ELSE msg[f].names
          /\ msg'[f].flag = msg[f].flag
      BY <1>2 DEF ReadNames, TypeOK, Header
    <3>2. /\ stable[f] \subseteq ToSet(processors)
          /\ msg[f].names = given[f].names /\ msg[f].flag = given[f].flag
      BY <3>1 DEF AccountInv, Accounted, Early
    <3>3. \A p \in ToSet(processors) : p.name \in NamesOf(processors)
      BY DEF ToSet, NamesOf
    <3>4. \A p \in stable[f] : p.name \in msg'[f].names <=> Names(given[f], p)
      BY <3>1, <3>2, <3>3 DEF Names
    <3>5. pc'[f] \notin Early /\ pc'[f] \notin Past
      BY <3>1 DEF Early, Past
    <3>6. \A p : (Names(given[f], p))' <=> Names(given[f], p')
      BY <2>1 DEF Names
    <3>7. QED
      BY <2>1, <2>3, <3>1, <3>2, <3>4, <3>5, <3>6 DEF Accounted, Names
  <2>4. QED
    BY <2>2, <2>3
<1>3. CASE ReadProcessors(f)
  <2>1. UNCHANGED <<processors, disabled, given, stable, msg, ran>>
    BY <1>3 DEF ReadProcessors
  <2>2. CASE g # f
    BY <1>3, <2>1, <2>2, AccountKept DEF ReadProcessors, TypeOK
  <2>3. CASE g = f
    <3>1. /\ pc[f] = "list" /\ pc'[f] = "running"
          /\ todo'[f] = IF msg[f].flag \in Skipping THEN <<>> ELSE processors
      BY <1>3 DEF ReadProcessors, TypeOK
    <3>2. /\ stable[f] \subseteq ToSet(processors) /\ msg[f].flag = given[f].flag
          /\ \A p \in stable[f] : p.name \in msg[f].names <=> Names(given[f], p)
      BY <3>1 DEF AccountInv, Accounted
    <3>3. pc'[f] \notin Early \cup {"list"} /\ pc'[f] \notin Past \ {"running", "calling"}
      BY <3>1 DEF Early, Past
    <3>4. given[f].flag \notin Skipping => stable[f] \subseteq ToSet(todo'[f])
      BY <3>1, <3>2
    <3>5. QED
      BY <2>1, <2>3, <3>2, <3>3, <3>4 DEF Accounted, Names
  <2>4. QED
    BY <2>2, <2>3
<1>4. CASE RunProcessor(f)
  <2>1. UNCHANGED <<processors, disabled, given, stable, pc>>
    BY <1>4 DEF RunProcessor
  <2>2. CASE g # f
    BY <1>4, <2>1, <2>2, AccountKept DEF RunProcessor, TypeOK
  <2>3. CASE g = f
    <3>1. /\ pc[f] = "running" /\ todo[f] # <<>> /\ todo'[f] = Tail(todo[f])
          /\ ran'[f] = IF Runs(f, Next1(f)) THEN Append(ran[f], Next1(f)) ELSE ran[f]
          /\ msg'[f] = IF Runs(f, Next1(f)) THEN Apply(Next1(f), msg[f]) ELSE msg[f]
      BY <1>4 DEF RunProcessor, TypeOK
    <3>2. Next1(f) \in AnyProcessor /\ msg[f] \in Header
      BY <3>1 DEF TypeOK, Next1
    <3>3. msg'[f].names = msg[f].names
      BY <3>1, <3>2, ApplyType
    <3>4. QED
      BY <2>1, <2>3, <3>1, <3>3, HeadAccounted
  <2>4. QED
    BY <2>2, <2>3
<1>5. CASE CallBack(f)
  <2> DEFINE i == Inner(f)
  <2>1. i \in Frames /\ i # f
    BY <1>5, FramesAre DEF CallBack, Calls
  <2>2. /\ pc[f] = "running" /\ todo[f] # <<>> /\ Runs(f, Next1(f))
        /\ Begin(i, Notice) /\ UNCHANGED <<processors, disabled>>
        /\ pc' = [pc EXCEPT ![f] = "calling", ![i] = "dispatch"]
        /\ todo' = [todo EXCEPT ![f] = Tail(@)]
        /\ ran' = [ran EXCEPT ![f] = Append(@, Next1(f)), ![i] = <<>>]
    BY <1>5 DEF CallBack, Calls
  <2> HIDE DEF i
  <2>3. CASE g = i
    <3>1. pc'[i] = "dispatch"
      BY <2>1, <2>2 DEF TypeOK
    <3>2. QED
      BY <2>1, <2>2, <2>3, <3>1, BeginAccount, PipelineAssumption
  <2>4. CASE g = f
    <3>1. /\ pc'[f] = "calling" /\ todo'[f] = Tail(todo[f])
          /\ ran'[f] = Append(ran[f], Next1(f))
          /\ given'[f] = given[f] /\ stable'[f] = stable[f] /\ msg'[f] = msg[f]
      BY <2>1, <2>2 DEF TypeOK, Begin
    <3>2. QED
      BY <2>2, <2>4, <3>1, HeadAccounted
  <2>5. CASE g # i /\ g # f
    <3>1. /\ pc'[g] = pc[g] /\ msg'[g] = msg[g] /\ given'[g] = given[g]
          /\ stable'[g] = stable[g] /\ todo'[g] = todo[g] /\ ran'[g] = ran[g]
      BY <2>1, <2>2, <2>5 DEF TypeOK, Begin
    <3>2. QED
      BY <2>2, <3>1, AccountKept
  <2>6. QED
    BY <2>3, <2>4, <2>5
<1>6. CASE CalledBack(f) \/ ReadMaxLevel(f) \/ Decide(f) \/ CheckFormatter(f)
           \/ Format(f) \/ Emit(f) \/ Leave(f)
  <2>1. UNCHANGED <<processors, disabled, given, stable, msg, todo, ran>>
    BY <1>6 DEF CalledBack, ReadMaxLevel, Decide, CheckFormatter, Format, Emit, Leave
  <2>2. PICK label \in Past \cup {"panicked"} : pc' = [pc EXCEPT ![f] = label]
    BY <1>6 DEF CalledBack, ReadMaxLevel, Decide, CheckFormatter, Format, Emit, Leave, Past
  <2>3. CASE g # f
    BY <2>1, <2>2, <2>3, AccountKept DEF TypeOK
  <2>4. CASE g = f
    <3>1. pc[f] \in Past
      BY <1>6 DEF CalledBack, ReadMaxLevel, Decide, CheckFormatter, Format, Emit, Leave, Past
    <3>2. pc'[f] = label /\ label \notin Early /\ label # "list"
      BY <2>2 DEF TypeOK, Early, Past
    <3>3. label \in Past \ {"running", "calling"} => todo[f] = <<>>
      <4>1. CASE CalledBack(f)
        BY <2>2, <4>1 DEF CalledBack, TypeOK
      <4>2. CASE ReadMaxLevel(f)
        BY <4>2 DEF ReadMaxLevel
      <4>3. CASE Decide(f) \/ CheckFormatter(f) \/ Format(f) \/ Emit(f) \/ Leave(f)
        <5>1. pc[f] \in Past \ {"running", "calling"}
          BY <4>3 DEF Decide, CheckFormatter, Format, Emit, Leave, Past
        <5>2. QED
          BY <5>1 DEF AccountInv, Accounted
      <4>4. QED
        BY <1>6, <4>1, <4>2, <4>3
    <3>4. QED
      BY <2>1, <2>4, <3>1, <3>2, <3>3 DEF AccountInv, Accounted, Due, Names
  <2>5. QED
    BY <2>3, <2>4
<1>7. QED
  BY <1>1, <1>2, <1>3, <1>4, <1>5, <1>6 DEF FrameStep

LEMMA ReconfigureAccount ==
    ASSUME TypeOK, AccountInv, Reconfigure
    PROVE  AccountInv'
<1> SUFFICES ASSUME NEW f \in Frames PROVE Accounted(f)'
  BY DEF AccountInv
<1>1. UNCHANGED <<pc, msg, given, todo, ran>>
  BY DEF Reconfigure, SetMaxLevel, SetFormatter, AddProcessors, SetProcessors,
         SetStatus, Setenv, Reset
<1>2. CASE SetMaxLevel \/ SetFormatter \/ Setenv \/ Reset
  <2>1. UNCHANGED <<processors, disabled, stable>>
    BY <1>2 DEF SetMaxLevel, SetFormatter, Setenv, Reset
  <2>2. QED
    BY <1>1, <2>1, AccountKept
<1>3. CASE AddProcessors
  <2>1. UNCHANGED <<disabled, stable>>
    BY <1>3 DEF AddProcessors
  <2>2. PICK p \in Spares : processors' = Append(processors, p)
    BY <1>3 DEF AddProcessors
  <2>3. ToSet(processors) \subseteq ToSet(processors')
    BY <2>2, AppendSet, PipelineAssumption DEF TypeOK
  <2>4. QED
    BY <1>1, <2>1, <2>3 DEF AccountInv, Accounted, Due, Names
<1>4. CASE SetProcessors
  <2>1. PICK p \in Spares :
          /\ processors' = Replaced(p)
          /\ Touch({q \in ToSet(processors) : q.name = p.name /\ q # p})
    BY <1>4 DEF SetProcessors
  <2>2. /\ stable'[f] \subseteq stable[f]
        /\ \A q \in stable'[f] : q \in ToSet(processors) => q.name # p.name \/ q = p
    BY <2>1 DEF Touch, TypeOK
  <2>3. ASSUME NEW q \in stable'[f]
        PROVE  q \in ToSet(processors')
    <3>1. q \in ToSet(processors)
      BY <2>2, <2>3 DEF AccountInv, Accounted
    <3>2. PICK i \in DOMAIN processors : q = processors[i]
      BY <3>1, ToSetType DEF TypeOK
    <3>3. q.name # p.name \/ q = p
      BY <2>2, <2>3, <3>1
    <3>4. i \in DOMAIN processors' /\ processors'[i] = q
      BY <2>1, <3>2, <3>3 DEF Replaced
    <3>5. QED
      BY <3>4 DEF ToSet
  <2>4. UNCHANGED disabled
    BY <1>4 DEF SetProcessors
  <2>5. QED
    BY <1>1, <2>2, <2>3, <2>4 DEF AccountInv, Accounted, Due, Names
<1>5. CASE SetStatus
  <2>1. PICK p \in ToSet(processors) :
          /\ disabled' = IF p \in disabled THEN disabled \ {p} ELSE disabled \cup {p}
          /\ Touch({p}) /\ UNCHANGED processors
    BY <1>5 DEF SetStatus
  <2>2. stable'[f] = stable[f] \ {p}
    BY <2>1 DEF Touch
  <2>3. \A q \in stable'[f] : q \in disabled' <=> q \in disabled
    BY <2>1, <2>2
  <2>4. QED
    BY <1>1, <2>1, <2>2, <2>3 DEF AccountInv, Accounted, Due, Names
<1>6. QED
  BY <1>2, <1>3, <1>4, <1>5 DEF Reconfigure

LEMMA NextAccount == TypeOK /\ OrderInv /\ AccountInv /\ [Next]_vars => AccountInv'
<1> SUFFICES ASSUME TypeOK, OrderInv, AccountInv, [Next]_vars PROVE AccountInv'
  OBVIOUS
<1>1. CASE UNCHANGED vars
  BY <1>1, AccountKept DEF vars, AccountInv
<1>2. ASSUME NEW w \in Writers, Log(w) \/ WriteDirectly(w), NEW g \in Frames
      PROVE  Accounted(g)'
  <2> DEFINE f == <<w, 1>>
  <2>1. f \in Frames
    BY FramesAre
  <2>2. PICK label \in {"dispatch", "write"} : Receive(w, label)
    BY <1>2 DEF Log, WriteDirectly
  <2>3. PICK m \in Messages : Begin(f, m)
    BY <2>2 DEF Receive
  <2>4. /\ UNCHANGED <<processors, disabled, todo>>
        /\ pc' = [pc EXCEPT ![f] = label] /\ ran' = [ran EXCEPT ![f] = <<>>]
    BY <2>2 DEF Receive
  <2> HIDE DEF f
  <2>5. CASE g = f
    <3>1. pc'[f] = label
      BY <2>1, <2>4 DEF TypeOK
    <3>2. QED
      BY <2>1, <2>3, <2>4, <2>5, <3>1, BeginAccount, PipelineAssumption
  <2>6. CASE g # f
    <3>1. /\ pc'[g] = pc[g] /\ msg'[g] = msg[g] /\ given'[g] = given[g]
          /\ stable'[g] = stable[g] /\ todo'[g] = todo[g] /\ ran'[g] = ran[g]
      BY <2>1, <2>3, <2>4, <2>6 DEF TypeOK, Begin
    <3>2. QED
      BY <2>4, <3>1, AccountKept
  <2>7. QED
    BY <2>5, <2>6
<1>3. QED
  BY <1>1, <1>2, FrameAccount, ReconfigureAccount DEF Next, AccountInv

LEMMA InOrder == OrderInv /\ AccountInv => RunsInOrder
<1> SUFFICES ASSUME OrderInv, AccountInv, NEW f \in Frames
             PROVE  /\ \A i, j \in DOMAIN ran[f] : i < j => Before(ran[f][i], ran[f][j])
                    /\ Processed(f) => \A p \in stable[f] :
                          p \in ToSet(ran[f]) <=> p \notin disabled /\ Names(given[f], p)
  BY DEF RunsInOrder
<1>1. \A i, j \in DOMAIN ran[f] : i < j => Before(ran[f][i], ran[f][j])
  BY DEF OrderInv, Sorted
<1>2. ASSUME Processed(f), NEW p \in stable[f]
      PROVE  p \in ToSet(ran[f]) <=> p \notin disabled /\ Names(given[f], p)
  <2>1. pc[f] \in Past \ {"running", "calling"} /\ given[f].flag \notin Skipping
    BY <1>2 DEF Processed, Past
  <2>2. todo[f] = <<>> /\ ToSet(todo[f]) = {}
    BY <2>1 DEF AccountInv, Accounted, ToSet
  <2>3. QED
    BY <1>2, <2>1, <2>2 DEF AccountInv, Accounted, Due
<1>3. QED
  BY <1>1, <1>2

\* A message goes through the processors in their order, once each, and
\* through exactly those it names and that are enabled, as far as nobody
\* touches them on its way, however the list is changed around them.
THEOREM ProcessorsInOrder == Spec => []RunsInOrder
<1>1. Init => TypeOK /\ OrderInv /\ AccountInv
  BY InitTypes, InitOrder, InitAccount
<1>2. TypeOK /\ OrderInv /\ AccountInv /\ [Next]_vars => (TypeOK /\ OrderInv /\ AccountInv)'
  BY NextTypes, NextOrder, NextAccount
<1>3. QED
  BY <1>1, <1>2, InOrder, PTL DEF Spec

----------------------------------------------------------------------------
(* The records.                                                            *)

RecordInv == RecordsTrue /\ (kind # "Recorder" => writeMu = NoFrame)

LEMMA EmitRecords ==
    ASSUME TypeOK, RecordInv, NEW f \in Frames, Emit(f)
    PROVE  RecordInv'
<1>1. records = expected /\ pending = writeMu /\ UNCHANGED <<kind, writeMu>>
  BY DEF RecordInv, RecordsTrue, TypeOK, Emit
<1>2. PICK r : /\ records' = IF pending = NoFrame THEN records
                             ELSE records \cup {[of |-> pending, text |-> r]}
               /\ expected' = IF kind # "Recorder" THEN expected
                              ELSE expected \cup {[of |-> f, text |-> r]}
  BY DEF Emit
<1>3. CASE kind = "Recorder"
  <2>1. writeMu = f /\ f # NoFrame
    BY <1>3, FramesAre DEF TypeOK, Emit, Inside
  <2>2. QED
    BY <1>1, <1>2, <1>3, <2>1 DEF RecordInv, RecordsTrue
<1>4. CASE kind # "Recorder"
  BY <1>1, <1>2, <1>4 DEF RecordInv, RecordsTrue
<1>5. QED
  BY <1>3, <1>4

LEMMA NextRecords == TypeOK /\ RecordInv /\ [Next]_vars => RecordInv'
<1> SUFFICES ASSUME TypeOK, RecordInv, [Next]_vars PROVE RecordInv'
  OBVIOUS
<1>1. CASE UNCHANGED vars
  BY <1>1 DEF vars, RecordInv, RecordsTrue
<1>2. ASSUME NEW w \in Writers, Log(w) \/ WriteDirectly(w)
      PROVE  RecordInv'
  BY <1>2 DEF Log, WriteDirectly, Receive, RecordInv, RecordsTrue
<1>3. ASSUME NEW f \in Frames, FrameStep(f)
      PROVE  RecordInv'
  <2>1. CASE Emit(f)
    BY <2>1, EmitRecords
  <2>2. CASE Enter(f) \/ Leave(f)
    BY <2>2 DEF Enter, Leave, RecordInv, RecordsTrue
  <2>3. CASE LookForDebug(f) \/ NewDebug(f) \/ ReadNames(f) \/ ReadProcessors(f)
             \/ RunProcessor(f) \/ CallBack(f) \/ CalledBack(f) \/ ReadMaxLevel(f)
             \/ Decide(f) \/ CheckFormatter(f) \/ Format(f)
    <3>1. UNCHANGED <<kind, writeMu, records, expected>>
      BY <2>3 DEF LookForDebug, NewDebug, ReadNames, ReadProcessors, RunProcessor,
         CallBack, CalledBack, ReadMaxLevel, Decide, CheckFormatter, Format
    <3>2. QED
      BY <3>1 DEF RecordInv, RecordsTrue
  <2>4. QED
    BY <1>3, <2>1, <2>2, <2>3 DEF FrameStep
<1>4. CASE Reconfigure
  BY <1>4 DEF Reconfigure, SetMaxLevel, SetFormatter, AddProcessors, SetProcessors,
     SetStatus, Setenv, Reset, RecordInv, RecordsTrue
<1>5. QED
  BY <1>1, <1>2, <1>3, <1>4 DEF Next

\* What the Recorder holds is what was written, each line with its own
\* message: the mutex keeps the pending message the one being written.
THEOREM RecordsAreTrue == Spec => []RecordsTrue
<1>1. Init => TypeOK /\ RecordInv
  BY InitTypes DEF Init, RecordInv, RecordsTrue
<1>2. TypeOK /\ RecordInv /\ [Next]_vars => (TypeOK /\ RecordInv)'
  BY NextTypes, NextRecords
<1>3. QED
  BY <1>1, <1>2, PTL DEF Spec, RecordInv

----------------------------------------------------------------------------
(* Whoever waits, waits for one that can go.                               *)

\* Only the goroutine of a call waits for what its processor has logged, which
\* is under way by then; and a goroutine that panics takes the process with it.
CallInv ==
    /\ \A f \in Frames : pc[f] = "calling" =>
          f = Outer(f) /\ pc[Inner(f)] \notin {"absent", "idle"}
    /\ \A f \in Frames : pc[f] = "panicked" => life = "panicked"

LEMMA InitCalls == Init => CallInv
  BY DEF Init, CallInv

LEMMA InnerIsLast == \A f, g \in Frames : g = Inner(f) => g # Outer(g)
  BY DEF Frames, Inner, Outer

\* A goroutine gets to a label where it neither waits for a call nor is idle.
LEMMA CallsKept ==
    ASSUME TypeOK, CallInv, NEW f \in Frames, NEW label \in Labels,
           label \notin {"absent", "idle", "calling"},
           label = "panicked" => life' = "panicked",
           life = "panicked" => life' = "panicked",
           pc' = [pc EXCEPT ![f] = label]
    PROVE  CallInv'
<1>1. ASSUME NEW g \in Frames, pc'[g] = "calling"
      PROVE  g = Outer(g) /\ pc'[Inner(g)] \notin {"absent", "idle"}
  <2>1. g # f /\ pc[g] = "calling"
    BY <1>1 DEF TypeOK
  <2>2. Inner(g) \in Frames
    BY FramesAre
  <2>3. QED
    BY <2>1, <2>2 DEF CallInv, TypeOK
<1>2. ASSUME NEW g \in Frames, pc'[g] = "panicked"
      PROVE  life' = "panicked"
  BY <1>2 DEF CallInv, TypeOK
<1>3. QED
  BY <1>1, <1>2 DEF CallInv

LEMMA CallBackCalls ==
    ASSUME TypeOK, CallInv, NEW f \in Frames, CallBack(f)
    PROVE  CallInv'
<1>1. /\ pc' = [pc EXCEPT ![f] = "calling", ![Inner(f)] = "dispatch"]
      /\ f = Outer(f) /\ life' = life
  BY DEF CallBack, Calls
<1>2. Inner(f) \in Frames /\ f # Inner(f)
  BY <1>1, FramesAre
<1>3. ASSUME NEW g \in Frames, pc'[g] = "calling"
      PROVE  g = Outer(g) /\ pc'[Inner(g)] \notin {"absent", "idle"}
  <2>1. CASE g = f
    BY <1>1, <1>2, <2>1 DEF TypeOK
  <2>2. CASE g # f
    <3>1. pc[g] = "calling" /\ Inner(g) \in Frames
      BY <1>1, <1>2, <1>3, <2>2, FramesAre DEF TypeOK
    <3>2. g = Outer(g) /\ pc[Inner(g)] \notin {"absent", "idle"}
      BY <3>1 DEF CallInv
    <3>3. QED
      BY <1>1, <3>1, <3>2 DEF TypeOK
  <2>3. QED
    BY <2>1, <2>2
<1>4. ASSUME NEW g \in Frames, pc'[g] = "panicked"
      PROVE  life' = "panicked"
  BY <1>1, <1>2, <1>4 DEF CallInv, TypeOK
<1>5. QED
  BY <1>3, <1>4 DEF CallInv

LEMMA FrameCalls ==
    ASSUME TypeOK, CallInv, NEW f \in Frames, FrameStep(f)
    PROVE  CallInv'
<1>1. CASE CallBack(f)
  BY <1>1, CallBackCalls
<1>2. CASE RunProcessor(f)
  BY <1>2 DEF RunProcessor, CallInv
<1>3. CASE Decide(f) \/ Format(f)
  <2>1. PICK label \in {"panicked", "check", "leave", "emit"} :
          /\ pc' = [pc EXCEPT ![f] = label]
          /\ life' = IF label = "panicked" THEN "panicked" ELSE life
    BY <1>3 DEF Decide, Format
  <2>2. label \in Labels /\ life = "running"
    BY <1>3 DEF Labels, Decide, Format
  <2>3. QED
    BY <2>1, <2>2, CallsKept
<1>4. CASE LookForDebug(f) \/ NewDebug(f) \/ Enter(f) \/ ReadNames(f)
           \/ ReadProcessors(f) \/ CalledBack(f) \/ ReadMaxLevel(f)
           \/ CheckFormatter(f) \/ Emit(f) \/ Leave(f)
  <2>1. PICK label \in {"matching", "write", "names", "list", "running", "check",
                        "env", "emit", "format", "leave", "returned"} :
          pc' = [pc EXCEPT ![f] = label]
    BY <1>4 DEF LookForDebug, NewDebug, Enter, ReadNames, ReadProcessors,
       CalledBack, ReadMaxLevel, CheckFormatter, Emit, Leave
  <2>2. life' = life
    BY <1>4 DEF LookForDebug, NewDebug, Enter, ReadNames, ReadProcessors,
       CalledBack, ReadMaxLevel, CheckFormatter, Emit, Leave
  <2>3. label \in Labels /\ label \notin {"absent", "idle", "calling", "panicked"}
    BY DEF Labels
  <2>4. QED
    BY <2>1, <2>2, <2>3, CallsKept
<1>5. QED
  BY <1>1, <1>2, <1>3, <1>4 DEF FrameStep

LEMMA NextCalls == TypeOK /\ CallInv /\ [Next]_vars => CallInv'
<1> SUFFICES ASSUME TypeOK, CallInv, [Next]_vars PROVE CallInv'
  OBVIOUS
<1>1. CASE Reconfigure \/ UNCHANGED vars
  <2>1. UNCHANGED <<pc, life>>
    BY <1>1 DEF Reconfigure, SetMaxLevel, SetFormatter, AddProcessors, SetProcessors,
       SetStatus, Setenv, Reset, vars
  <2>2. QED
    BY <2>1 DEF CallInv
<1>2. ASSUME NEW w \in Writers, Log(w) \/ WriteDirectly(w)
      PROVE  CallInv'
  <2>1. PICK label \in {"dispatch", "write"} : Receive(w, label)
    BY <1>2 DEF Log, WriteDirectly
  <2>2. pc' = [pc EXCEPT ![<<w, 1>>] = label] /\ life' = life
    BY <2>1 DEF Receive
  <2>3. QED
    BY <2>2, FramesAre, CallsKept DEF Labels
<1>3. QED
  BY <1>1, <1>2, FrameCalls DEF Next

\* What a processor has logged is on its way to the line, or stopped by the
\* mutex.
LEMMA CalledGoes ==
    ASSUME TypeOK, CallInv, life = "running", ~Stuck,
           NEW f \in Frames, pc[f] = "calling"
    PROVE  CanGo(f) \/ CanGo(Inner(f))
<1> SUFFICES ASSUME ~CanGo(f) PROVE CanGo(Inner(f))
  OBVIOUS
<1>1. /\ f = Outer(f) /\ Inner(f) \in Frames /\ f # Inner(f)
      /\ pc[Inner(f)] \notin {"absent", "idle", "returned", "panicked", "calling"}
  BY FramesAre, InnerIsLast DEF CallInv, CanGo
<1>2. kind = "Recorder" => pc[Inner(f)] # "write"
  BY <1>1 DEF TypeOK, Inside, Stuck
<1>3. QED
  BY <1>1, <1>2 DEF CanGo

LEMMA NoWait == TypeOK /\ CallInv => NobodyInACircle
<1> SUFFICES ASSUME TypeOK, CallInv, life = "running", ~Stuck,
                    NEW f \in Frames, pc[f] \notin {"absent", "idle", "returned"}
             PROVE  \E g \in {f, Inner(f), writeMu, Inner(writeMu)} \cap Frames : CanGo(g)
  BY DEF NobodyInACircle
<1>1. Inner(f) \in Frames
  BY FramesAre
<1>2. CASE pc[f] = "calling"
  BY <1>1, <1>2, CalledGoes
<1>3. CASE pc[f] = "write" /\ kind = "Recorder" /\ writeMu # NoFrame
  <2>1. writeMu \in Frames /\ pc[writeMu] \in Inside /\ Inner(writeMu) \in Frames
    BY <1>3, FramesAre DEF TypeOK
  <2>2. pc[writeMu] # "panicked"
    BY <2>1 DEF CallInv
  <2>3. pc[writeMu] # "calling" => CanGo(writeMu)
    BY <2>1, <2>2 DEF CanGo, Inside
  <2>4. QED
    BY <2>1, <2>3, CalledGoes
<1>4. CASE ~(pc[f] = "calling") /\ ~(pc[f] = "write" /\ kind = "Recorder" /\ writeMu # NoFrame)
  BY <1>4 DEF CanGo, CallInv
<1>5. QED
  BY <1>2, <1>3, <1>4

\* The Recorder's mutex, taken by RecorderOutput.Write for as long as its inner
\* output runs, keeps every line with its own message, and nobody waits for it,
\* or for what a processor logs, in a circle: the one exception is a processor
\* that logs to the Recorder it runs in (output/recorder.go: Write).
THEOREM RecorderIsSafe == Spec => []RecorderWorks
<1>1. Init => TypeOK /\ RecordInv /\ CallInv
  BY InitTypes, InitCalls DEF Init, RecordInv, RecordsTrue
<1>2. TypeOK /\ RecordInv /\ CallInv /\ [Next]_vars => (TypeOK /\ RecordInv /\ CallInv)'
  BY NextTypes, NextRecords, NextCalls
<1>3. TypeOK /\ RecordInv /\ CallInv => RecorderWorks
  BY NoWait DEF RecordInv, RecorderWorks
<1>4. QED
  BY <1>1, <1>2, <1>3, PTL DEF Spec

----------------------------------------------------------------------------
(* What it takes to panic.                                                 *)

\* Where a message is that a logger has had its say about.
Arrived == {"write", "names", "list", "running", "calling", "env", "check",
            "format", "emit", "leave", "returned"}

\* As long as nothing has changed: a logger's message has its matchers if the
\* environment asks for them, and a formatter that was there is there.
Equipped(f) ==
    /\ env.set /\ f \notin direct /\ pc[f] \in Arrived => msg[f].debug # NoDebug
    /\ pc[f] = "format" => formatter # "nil"
    /\ pc[f] = "panicked" => f \in direct /\ env.set /\ msg[f].debug = NoDebug

PanicInv ==
    /\ life = "panicked" => \E f \in Frames : pc[f] = "panicked"
    /\ changes = 0 => \A f \in Frames : Equipped(f)

LEMMA InitPanics == Init => PanicInv
  BY DEF Init, PanicInv, Equipped, Arrived

LEMMA ApplyKeepsDebug ==
    ASSUME NEW p \in AnyProcessor, NEW m \in Header
    PROVE  Apply(p, m).debug = m.debug
  BY DEF AnyProcessor, Header, Apply

\* A step of another frame takes nothing away.
LEMMA StaysEquipped ==
    ASSUME NEW g \in Frames, Equipped(g), pc'[g] = pc[g], msg'[g] = msg[g],
           UNCHANGED <<env, formatter>>, g \in direct' <=> g \in direct
    PROVE  Equipped(g)'
  BY DEF Equipped

LEMMA FramePanics ==
    ASSUME TypeOK, PanicInv, NEW f \in Frames, FrameStep(f)
    PROVE  PanicInv'
<1>1. /\ UNCHANGED <<env, formatter, direct, changes>> /\ life = "running"
      /\ \/ life' = "running" /\ pc'[f] # "panicked"
         \/ life' = "panicked" /\ pc'[f] = "panicked"
  <2>1. CASE LookForDebug(f) \/ NewDebug(f) \/ Enter(f) \/ ReadNames(f)
             \/ ReadProcessors(f) \/ RunProcessor(f) \/ CalledBack(f)
    BY <2>1 DEF LookForDebug, NewDebug, Enter, ReadNames, ReadProcessors,
       RunProcessor, CalledBack, TypeOK
  <2>2. CASE CallBack(f)
    <3>1. f # Inner(f)
      BY <2>2, FramesAre DEF CallBack, Calls
    <3>2. QED
      BY <2>2, <3>1 DEF CallBack, TypeOK
  <2>3. CASE ReadMaxLevel(f) \/ Decide(f) \/ CheckFormatter(f) \/ Format(f)
             \/ Emit(f) \/ Leave(f)
    BY <2>3 DEF ReadMaxLevel, Decide, CheckFormatter, Format, Emit, Leave, TypeOK
  <2>4. QED
    BY <2>1, <2>2, <2>3 DEF FrameStep
<1>2. life' = "panicked" => \E g \in Frames : pc'[g] = "panicked"
  BY <1>1
<1> SUFFICES ASSUME changes = 0, \A g \in Frames : Equipped(g), NEW g \in Frames
             PROVE  Equipped(g)'
  BY <1>1, <1>2 DEF PanicInv
<1>3. CASE CallBack(f)
  <2>1. f = Outer(f) /\ f # Inner(f) /\ Inner(f) \in Frames
    BY <1>3, FramesAre DEF CallBack, Calls
  <2>2. /\ pc' = [pc EXCEPT ![f] = "calling", ![Inner(f)] = "dispatch"]
        /\ msg' = [msg EXCEPT ![Inner(f)] = New(Notice)]
        /\ pc[f] = "running"
    BY <1>3 DEF CallBack, Begin
  <2>3. CASE g = f
    BY <1>1, <2>1, <2>2, <2>3 DEF TypeOK, Equipped, Arrived
  <2>4. CASE g = Inner(f)
    BY <1>1, <2>1, <2>2, <2>4 DEF TypeOK, Equipped, Arrived
  <2>5. CASE g # f /\ g # Inner(f)
    BY <1>1, <2>1, <2>2, <2>5, StaysEquipped DEF TypeOK
  <2>6. QED
    BY <2>3, <2>4, <2>5
<1>4. CASE g # f /\ ~CallBack(f)
  <2>1. pc'[g] = pc[g] /\ msg'[g] = msg[g]
    <3>1. CASE LookForDebug(f) \/ NewDebug(f) \/ Enter(f) \/ ReadNames(f)
               \/ ReadProcessors(f) \/ RunProcessor(f) \/ CalledBack(f)
      BY <1>4, <3>1 DEF LookForDebug, NewDebug, Enter, ReadNames, ReadProcessors,
         RunProcessor, CalledBack, TypeOK
    <3>2. CASE ReadMaxLevel(f) \/ Decide(f) \/ CheckFormatter(f) \/ Format(f)
               \/ Emit(f) \/ Leave(f)
      BY <1>4, <3>2 DEF ReadMaxLevel, Decide, CheckFormatter, Format, Emit, Leave,
         TypeOK
    <3>3. QED
      BY <1>4, <3>1, <3>2 DEF FrameStep
  <2>2. QED
    BY <1>1, <2>1, StaysEquipped
<1>5. CASE g = f /\ ~CallBack(f)
  <2>1. Equipped(f)
    OBVIOUS
  <2>2. CASE NewDebug(f)
    <3>1. Override(env) \in Levels \cup {0, NoEntry} /\ Levels \subseteq Nat
      <4>1. Override(env) \in Entries
        BY OverrideType
      <4>2. Levels \subseteq Nat
        BY PipelineAssumption
      <4>3. QED
        BY <4>1, <4>2 DEF Entries
    <3>2. Override(env) # NoDebug
      BY <3>1 DEF NoDebug, NoEntry
    <3>3. msg'[f].debug = Override(env) /\ pc'[f] = "write"
      BY <2>2 DEF NewDebug, TypeOK, Header
    <3>4. QED
      BY <1>5, <3>2, <3>3 DEF Equipped
  <2>3. CASE ReadNames(f)
    <3>1. msg'[f].debug = msg[f].debug /\ pc'[f] = "list" /\ pc[f] = "names"
      BY <2>3 DEF ReadNames, TypeOK, Header
    <3>2. QED
      BY <1>1, <1>5, <2>1, <3>1 DEF Equipped, Arrived
  <2>4. CASE RunProcessor(f)
    <3>1. Next1(f) \in AnyProcessor /\ msg[f] \in Header
      BY <2>4 DEF RunProcessor, TypeOK, Next1
    <3>2. msg'[f].debug = msg[f].debug /\ pc'[f] = pc[f]
      BY <2>4, <3>1, ApplyKeepsDebug DEF RunProcessor, TypeOK
    <3>3. QED
      BY <1>1, <1>5, <2>1, <3>2 DEF Equipped
  <2>5. CASE LookForDebug(f) \/ Enter(f) \/ ReadProcessors(f) \/ CalledBack(f)
    <3>1. msg'[f] = msg[f] /\ pc'[f] \notin {"format", "panicked"}
          /\ (pc[f] \in Arrived \/ pc'[f] \notin Arrived \/ ~env.set)
      BY <2>5 DEF LookForDebug, Enter, ReadProcessors, CalledBack, TypeOK, Arrived
    <3>2. QED
      BY <1>1, <1>5, <2>1, <3>1 DEF Equipped
  <2>6. CASE ReadMaxLevel(f) \/ CheckFormatter(f) \/ Emit(f) \/ Leave(f)
    <3>1. msg'[f] = msg[f] /\ pc'[f] # "panicked" /\ pc[f] \in Arrived
          /\ (pc'[f] = "format" => formatter # "nil")
      BY <2>6 DEF ReadMaxLevel, CheckFormatter, Emit, Leave, TypeOK, Arrived
    <3>2. QED
      BY <1>1, <1>5, <2>1, <3>1 DEF Equipped
  <2>7. CASE Decide(f)
    <3>1. /\ msg'[f] = msg[f] /\ pc[f] \in Arrived /\ pc'[f] # "format"
          /\ pc'[f] = "panicked" => env.set /\ msg[f].debug = NoDebug
      BY <2>7 DEF Decide, TypeOK, Arrived
    <3>2. QED
      BY <1>1, <1>5, <2>1, <3>1 DEF Equipped
  <2>8. CASE Format(f)
    <3>1. /\ msg'[f] = msg[f] /\ pc[f] \in Arrived /\ pc'[f] = "emit"
      BY <2>1, <2>8 DEF Format, TypeOK, Arrived, Equipped
    <3>2. QED
      BY <1>1, <1>5, <2>1, <3>1 DEF Equipped
  <2>9. QED
    BY <1>5, <2>2, <2>3, <2>4, <2>5, <2>6, <2>7, <2>8 DEF FrameStep
<1>6. QED
  BY <1>3, <1>4, <1>5

LEMMA NextPanics == TypeOK /\ PanicInv /\ [Next]_vars => PanicInv'
<1> SUFFICES ASSUME TypeOK, PanicInv, [Next]_vars PROVE PanicInv'
  OBVIOUS
<1>1. CASE UNCHANGED vars
  BY <1>1 DEF vars, PanicInv, Equipped
<1>2. CASE Reset
  BY <1>2 DEF Reset, PanicInv, Equipped
<1>3. CASE Reconfigure /\ ~Reset
  <2>1. changes' = changes + 1 /\ UNCHANGED <<pc, life>>
    BY <1>3 DEF Reconfigure, SetMaxLevel, SetFormatter, AddProcessors, SetProcessors,
       SetStatus, Setenv, Change
  <2>2. changes' # 0
    BY <2>1, PipelineAssumption DEF TypeOK
  <2>3. QED
    BY <2>1, <2>2 DEF PanicInv
<1>4. ASSUME NEW w \in Writers, Log(w) \/ WriteDirectly(w)
      PROVE  PanicInv'
  <2> DEFINE f == <<w, 1>>
  <2>1. f \in Frames
    BY FramesAre
  <2>2. PICK label \in {"dispatch", "write"} : Receive(w, label)
    BY <1>4 DEF Log, WriteDirectly
  <2>3. PICK m \in Messages : Begin(f, m)
    BY <2>2 DEF Receive
  <2>4. /\ pc' = [pc EXCEPT ![f] = label] /\ msg' = [msg EXCEPT ![f] = New(m)]
        /\ direct' = IF label = "write" THEN direct \cup {f} ELSE direct
        /\ UNCHANGED <<env, formatter, life, changes>> /\ life = "running"
    BY <2>2, <2>3 DEF Receive, Begin
  <2> HIDE DEF f
  <2>5. ASSUME NEW g \in Frames, Equipped(g)
        PROVE  Equipped(g)'
    <3>1. CASE g = f
      BY <2>1, <2>4, <3>1 DEF TypeOK, Equipped, Arrived
    <3>2. CASE g # f
      BY <2>4, <2>5, <3>2, StaysEquipped DEF TypeOK
    <3>3. QED
      BY <3>1, <3>2
  <2>6. QED
    BY <2>4, <2>5 DEF PanicInv
<1>5. QED
  BY <1>1, <1>2, <1>3, <1>4, FramePanics DEF Next

\* Until somebody reconfigures the output, a message that comes from a logger
\* never brings the process down, whatever processors do to it: a direct
\* Output.Write while SYPL_LEVEL is set is what it takes
\* (output/output.go: Write, write).
THEOREM PanicsExplained == Spec => []PanicsOnlyWithoutMatchers
<1>1. Init => TypeOK /\ PanicInv
  BY InitTypes, InitPanics
<1>2. TypeOK /\ PanicInv /\ [Next]_vars => (TypeOK /\ PanicInv)'
  BY NextTypes, NextPanics
<1>3. TypeOK /\ PanicInv => PanicsOnlyWithoutMatchers
  BY DEF PanicInv, Equipped, PanicsOnlyWithoutMatchers
<1>4. QED
  BY <1>1, <1>2, <1>3, PTL DEF Spec

----------------------------------------------------------------------------
(* What the router has said.                                               *)

\* The processors that a message met are, by name, where they were.
ListInv ==
    /\ list \in [Frames -> Seq(AnyProcessor)]
    /\ \A f \in Frames : \A i \in DOMAIN list[f] :
          i \in DOMAIN processors /\ processors[i].name = list[f][i].name

Verdicts == {"none", "held", "written", "dropped", "error"}

\* A router that was the last one to run has muted what is not its own, and
\* nothing that is muted is written.
Said(f) ==
    /\ msg[f].level = given[f].level
    /\ \A k \in {"Console", "StdErr"} :
          /\ ran[f] # <<>> /\ Last(ran[f]) = Router(k) /\ Applies(Router(k), msg[f])
          => msg[f].flag = "Mute"
    /\ pc[f] \in {"check", "format", "emit"} => msg[f].flag \notin Muting
    /\ outcome[f] \notin {"none", "held"} =>
          pc[f] \in {"leave", "returned"} /\ msg[f].flag \notin Muting

SayInv == outcome \in [Frames -> Verdicts] /\ \A f \in Frames : Said(f)

LEMMA InitSay == Init => ListInv /\ SayInv
<1> SUFFICES ASSUME Init PROVE ListInv /\ SayInv
  OBVIOUS
<1>1. ListInv
  BY EmptySeq DEF Init, ListInv
<1>2. New(Notice).level = Notice.level
  BY DEF New
<1>3. SayInv
  BY <1>2 DEF Init, SayInv, Said, Verdicts
<1>4. QED
  BY <1>1, <1>3

\* The list of a message, by the steps that touch it.
LEMMA ListKept ==
    ASSUME TypeOK, ListInv, [Next]_vars
    PROVE  ListInv'
<1>p. processors \in Seq(AnyProcessor) /\ DOMAIN processors = 1..Len(processors)
  BY DEF TypeOK
<1>1. CASE AddProcessors
  <2>1. PICK p \in Spares : processors' = Append(processors, p)
    BY <1>1 DEF AddProcessors
  <2>2. \A i \in DOMAIN processors : i \in DOMAIN processors' /\ processors'[i] = processors[i]
    BY <1>p, <2>1
  <2>3. list' = list
    BY <1>1 DEF AddProcessors
  <2>4. QED
    BY <2>2, <2>3 DEF ListInv
<1>2. CASE SetProcessors
  <2>1. PICK p \in Spares : processors' = Replaced(p)
    BY <1>2 DEF SetProcessors
  <2>2. \A i \in DOMAIN processors : i \in DOMAIN processors'
                                     /\ processors'[i].name = processors[i].name
    BY <2>1, ReplacedType, PipelineAssumption
  <2>3. list' = list
    BY <1>2 DEF SetProcessors
  <2>4. QED
    BY <2>2, <2>3 DEF ListInv
<1>3. ASSUME NEW g \in Frames, NEW m, Begin(g, m), processors' = processors PROVE ListInv'
  BY <1>p, <1>3 DEF Begin, ListInv
<1>4. CASE UNCHANGED <<list, processors>>
  BY <1>4 DEF ListInv
<1>5. ASSUME NEW w \in Writers, Log(w) \/ WriteDirectly(w) PROVE ListInv'
  BY <1>3, <1>5, FramesAre DEF Log, WriteDirectly, Receive
<1>6. ASSUME NEW f \in Frames, FrameStep(f) PROVE ListInv'
  <2>1. CASE CallBack(f)
    BY <1>3, <2>1, FramesAre DEF CallBack
  <2>2. CASE LookForDebug(f) \/ NewDebug(f) \/ Enter(f) \/ ReadNames(f) \/ ReadProcessors(f)
             \/ RunProcessor(f) \/ CalledBack(f) \/ ReadMaxLevel(f) \/ Decide(f)
             \/ CheckFormatter(f) \/ Format(f) \/ Emit(f) \/ Leave(f)
    BY <1>4, <2>2 DEF LookForDebug, NewDebug, Enter, ReadNames, ReadProcessors, RunProcessor,
       CalledBack, ReadMaxLevel, Decide, CheckFormatter, Format, Emit, Leave
  <2>3. QED
    BY <1>6, <2>1, <2>2 DEF FrameStep
<1>7. CASE UNCHANGED vars \/ SetMaxLevel \/ SetFormatter \/ SetStatus \/ Setenv \/ Reset
  BY <1>4, <1>7 DEF vars, SetMaxLevel, SetFormatter, SetStatus, Setenv, Reset
<1>8. QED
  BY <1>1, <1>2, <1>5, <1>6, <1>7 DEF Next, Reconfigure

LEMMA SaidKept ==
    ASSUME NEW g \in Frames, Said(g),
           /\ pc'[g] = pc[g] /\ msg'[g] = msg[g] /\ given'[g] = given[g]
           /\ ran'[g] = ran[g] /\ outcome'[g] = outcome[g]
    PROVE  Said(g)'
  BY DEF Said

\* The text and the line play no part.
LEMMA BeginSaid ==
    ASSUME TypeOK, SayInv, NEW f \in Frames, NEW m \in Given, Begin(f, m),
           ran'[f] = <<>>, pc'[f] \in {"dispatch", "write"}
    PROVE  Said(f)' /\ outcome' \in [Frames -> Verdicts]
<1>1. New(m).level = m.level
  BY DEF New
<1>2. msg'[f] = New(m) /\ given'[f] = m /\ outcome'[f] = "none"
  BY DEF Begin, TypeOK, SayInv
<1>3. outcome' \in [Frames -> Verdicts]
  BY DEF Begin, SayInv, Verdicts
<1>4. QED
  BY <1>1, <1>2, <1>3 DEF Said

\* The two routers mute, and call nobody.
LEMMA RoutersMute ==
    \A k : /\ Router(k).flag = "Mute" /\ Router(k).op \in Flagging
           /\ Router(k).op # "log" /\ Router(k).op # "tag"
  BY DEF Router, MuteBasedOnLevel, PrintOnlyAtLevel, Processor, Flagging

\* What running a processor does to the level and, a router, to the flag.
LEMMA ApplySays ==
    ASSUME NEW p \in AnyProcessor, NEW m \in Header
    PROVE  /\ Apply(p, m).level = m.level
           /\ \A k : p = Router(k) /\ Applies(p, Apply(p, m)) => Apply(p, m).flag = "Mute"
<1>1. Apply(p, m).level = m.level
  BY DEF Apply, Header
<1>2. ASSUME NEW k, p = Router(k), Applies(p, Apply(p, m)) PROVE Apply(p, m).flag = "Mute"
  <2>1. p.op \in {"flagAt", "flagElsewhere"} /\ p.flag = "Mute"
    BY <1>2 DEF Router, MuteBasedOnLevel, PrintOnlyAtLevel, Processor
  <2>2. Applies(p, m)
    BY <1>1, <1>2, <2>1 DEF Applies
  <2>3. Apply(p, m) = [m EXCEPT !.flag = p.flag]
    BY <2>1, <2>2 DEF Apply, Flagging
  <2>4. QED
    BY <2>1, <2>3 DEF Header
<1>3. QED
  BY <1>1, <1>2

LEMMA LastAppended ==
    ASSUME NEW S, NEW s \in Seq(S), NEW x \in S
    PROVE  Append(s, x) # <<>> /\ Last(Append(s, x)) = x
  BY DEF Last

LEMMA FrameSays ==
    ASSUME TypeOK, SayInv, NEW f \in Frames, FrameStep(f)
    PROVE  SayInv'
<1>s. outcome \in [Frames -> Verdicts] /\ \A g \in Frames : Said(g)
  BY DEF SayInv
<1>1. CASE LookForDebug(f) \/ NewDebug(f) \/ Enter(f) \/ ReadNames(f) \/ ReadProcessors(f)
           \/ CalledBack(f) \/ ReadMaxLevel(f) \/ Leave(f) \/ CheckFormatter(f) \/ Format(f)
  <2>1. UNCHANGED <<given, ran, outcome>>
    BY <1>1 DEF LookForDebug, NewDebug, Enter, ReadNames, ReadProcessors, CalledBack,
       ReadMaxLevel, Leave, CheckFormatter, Format
  <2>2. \A g \in Frames \ {f} : pc'[g] = pc[g] /\ msg'[g] = msg[g]
    BY <1>1 DEF LookForDebug, NewDebug, Enter, ReadNames, ReadProcessors, CalledBack,
       ReadMaxLevel, Leave, CheckFormatter, Format, TypeOK
  <2>3. /\ msg'[f].level = msg[f].level /\ msg'[f].flag = msg[f].flag
        /\ msg'[f].tagged = msg[f].tagged
    BY <1>1 DEF LookForDebug, NewDebug, Enter, ReadNames, ReadProcessors, CalledBack,
       ReadMaxLevel, Leave, CheckFormatter, Format, TypeOK, Header
  <2>4. /\ outcome[f] \notin {"none", "held"} => pc'[f] \in {"leave", "returned"}
        /\ pc'[f] \in {"check", "format", "emit"} =>
              pc[f] \in {"check", "format", "emit"} \/ msg[f].flag \in Forcing
    BY <1>1, <1>s DEF LookForDebug, NewDebug, Enter, ReadNames, ReadProcessors, CalledBack,
       ReadMaxLevel, Leave, CheckFormatter, Format, TypeOK, Said
  <2>5. \A k \in {"Console", "StdErr"} :
           Applies(Router(k), msg'[f]) <=> Applies(Router(k), msg[f])
    BY <2>3 DEF Applies
  <2>6. Said(f)'
    BY <1>s, <2>1, <2>3, <2>4, <2>5 DEF Said, Forcing, Muting
  <2>7. QED
    BY <1>s, <2>1, <2>2, <2>6, SaidKept DEF SayInv
<1>2. CASE RunProcessor(f)
  <2>1. /\ UNCHANGED <<pc, given, outcome>> /\ pc[f] = "running"
        /\ \A g \in Frames \ {f} : msg'[g] = msg[g] /\ ran'[g] = ran[g]
        /\ Next1(f) \in AnyProcessor /\ ran[f] \in Seq(AnyProcessor) /\ msg[f] \in Header
    BY <1>2 DEF RunProcessor, TypeOK, Next1
  <2>2. CASE Runs(f, Next1(f))
    <3>1. msg'[f] = Apply(Next1(f), msg[f]) /\ ran'[f] = Append(ran[f], Next1(f))
      BY <1>2, <2>2 DEF RunProcessor, TypeOK
    <3>2. Said(f)'
      BY <1>s, <2>1, <3>1, ApplySays, LastAppended DEF Said
    <3>3. QED
      BY <1>s, <2>1, <3>2, SaidKept DEF SayInv
  <2>3. CASE ~Runs(f, Next1(f))
    <3>1. msg'[f] = msg[f] /\ ran'[f] = ran[f]
      BY <1>2, <2>3 DEF RunProcessor, TypeOK
    <3>2. QED
      BY <1>s, <2>1, <3>1, SaidKept DEF SayInv
  <2>4. QED
    BY <2>2, <2>3
<1>3. CASE CallBack(f)
  <2> DEFINE i == Inner(f)
  <2>1. i \in Frames /\ i # f
    BY <1>3, FramesAre DEF CallBack, Calls
  <2>2. /\ pc[f] = "running" /\ Next1(f).op = "log"
        /\ Begin(i, Notice)
        /\ pc' = [pc EXCEPT ![f] = "calling", ![i] = "dispatch"]
        /\ ran' = [ran EXCEPT ![f] = Append(@, Next1(f)), ![i] = <<>>]
        /\ Next1(f) \in AnyProcessor /\ ran[f] \in Seq(AnyProcessor)
    BY <1>3 DEF CallBack, Calls, TypeOK, Next1
  <2> HIDE DEF i
  <2>3. Said(i)' /\ outcome' \in [Frames -> Verdicts]
    BY <2>1, <2>2, BeginSaid, PipelineAssumption DEF TypeOK
  <2>4. \A g \in Frames \ {i} :
           msg'[g] = msg[g] /\ given'[g] = given[g] /\ outcome'[g] = outcome[g]
    BY <2>1, <2>2 DEF Begin, TypeOK, SayInv
  <2>5. \A g \in Frames \ {f, i} : pc'[g] = pc[g] /\ ran'[g] = ran[g]
    BY <2>1, <2>2 DEF TypeOK
  <2>6. Said(f)'
    <3>1. pc'[f] = "calling" /\ ran'[f] = Append(ran[f], Next1(f))
      BY <2>1, <2>2 DEF TypeOK
    <3>2. Last(ran'[f]) = Next1(f)
      <4>1. Next1(f) \in AnyProcessor /\ ran[f] \in Seq(AnyProcessor)
        BY <2>2
      <4>2. QED
        BY <3>1, <4>1, LastAppended
    <3>3. ASSUME NEW k, Last(ran'[f]) = Router(k) PROVE FALSE
      <4>1. Router(k).op = "log"
        BY <2>2, <3>2, <3>3
      <4>2. QED
        BY <4>1, RoutersMute
    <3>4. QED
      <4>1. pc[f] = "running" /\ Said(f) /\ msg'[f] = msg[f]
            /\ given'[f] = given[f] /\ outcome'[f] = outcome[f]
        BY <1>s, <2>1, <2>2, <2>4
      <4>2. outcome[f] \in {"none", "held"}
        BY <4>1 DEF Said
      <4>3. msg[f].level = given[f].level
        BY <4>1 DEF Said
      <4>4. QED
        BY <3>1, <3>3, <4>1, <4>2, <4>3 DEF Said
  <2>7. QED
    BY <1>s, <2>3, <2>4, <2>5, <2>6, SaidKept DEF SayInv
<1>4. CASE Decide(f)
  <2>1. UNCHANGED <<given, msg, ran>> /\ pc[f] = "env"
    BY <1>4 DEF Decide
  <2>2. \A g \in Frames \ {f} : pc'[g] = pc[g] /\ outcome'[g] = outcome[g]
    BY <1>4, <1>s DEF Decide, TypeOK
  <2>3. /\ outcome'[f] \in {outcome[f], "held"}
        /\ pc'[f] \in {"panicked", "leave", "check"}
        /\ pc'[f] = "check" => msg[f].flag \notin Muting
    BY <1>4, <1>s DEF Decide, TypeOK, Passes
  <2>4. Said(f)'
    BY <1>s, <2>1, <2>3 DEF Said
  <2>5. outcome' \in [Frames -> Verdicts]
    BY <1>4, <1>s DEF Decide, Verdicts
  <2>6. QED
    BY <1>s, <2>1, <2>2, <2>4, <2>5, SaidKept DEF SayInv
<1>5. CASE Emit(f)
  <2>1. UNCHANGED <<given, msg, ran>> /\ pc[f] = "emit" /\ pc' = [pc EXCEPT ![f] = "leave"]
    BY <1>5 DEF Emit
  <2>2. \E result \in Outcomes : outcome' = [outcome EXCEPT ![f] = result]
    BY <1>5 DEF Emit
  <2>3. outcome' \in [Frames -> Verdicts]
    BY <1>s, <2>2 DEF Outcomes, Verdicts
  <2>4. Said(f)'
    BY <1>s, <2>1 DEF Said, TypeOK
  <2>5. QED
    BY <1>s, <2>1, <2>2, <2>3, <2>4, SaidKept DEF SayInv, TypeOK
<1>6. QED
  BY <1>1, <1>2, <1>3, <1>4, <1>5 DEF FrameStep

LEMMA SayKept == TypeOK /\ SayInv /\ [Next]_vars => SayInv'
<1> SUFFICES ASSUME TypeOK, SayInv, [Next]_vars PROVE SayInv'
  OBVIOUS
<1>1. ASSUME NEW w \in Writers, Log(w) \/ WriteDirectly(w) PROVE SayInv'
  <2> DEFINE f == <<w, 1>>
  <2>1. f \in Frames
    BY FramesAre
  <2>2. PICK label \in {"dispatch", "write"} : Receive(w, label)
    BY <1>1 DEF Log, WriteDirectly
  <2>3. PICK m \in Messages : Begin(f, m)
    BY <2>2 DEF Receive
  <2>4. pc' = [pc EXCEPT ![f] = label] /\ ran' = [ran EXCEPT ![f] = <<>>]
    BY <2>2 DEF Receive
  <2> HIDE DEF f
  <2>5. Said(f)' /\ outcome' \in [Frames -> Verdicts]
    BY <2>1, <2>3, <2>4, BeginSaid, PipelineAssumption DEF TypeOK
  <2>6. \A g \in Frames \ {f} :
           /\ msg'[g] = msg[g] /\ given'[g] = given[g] /\ outcome'[g] = outcome[g]
           /\ pc'[g] = pc[g] /\ ran'[g] = ran[g]
    BY <2>1, <2>3, <2>4 DEF Begin, TypeOK, SayInv
  <2>7. QED
    BY <2>5, <2>6, SaidKept DEF SayInv
<1>2. CASE Reconfigure \/ UNCHANGED vars
  BY <1>2 DEF Reconfigure, SetMaxLevel, SetFormatter, AddProcessors, SetProcessors,
     SetStatus, Setenv, Reset, vars, SayInv, Said
<1>3. QED
  BY <1>1, <1>2, FrameSays DEF Next

\* The router is the last of the processors that were run.
LEMMA RouterLast ==
    ASSUME TypeOK, OrderInv, ListInv, NEW f \in Frames, NEW r \in ToSet(ran[f]),
           list[f] # <<>>, Last(list[f]) = r, ToSet(ran[f]) \subseteq ToSet(list[f])
    PROVE  ran[f] # <<>> /\ Last(ran[f]) = r
<1>1. /\ ran[f] \in Seq(AnyProcessor) /\ list[f] \in Seq(AnyProcessor)
      /\ processors \in Seq(AnyProcessor)
  BY DEF TypeOK, ListInv
<1>2. PICK n \in DOMAIN ran[f] : ran[f][n] = r
  BY <1>1, ToSetType
<1> DEFINE k == Len(ran[f])
           l == Len(list[f])
<1>3. k \in DOMAIN ran[f] /\ l \in DOMAIN list[f] /\ n <= k /\ n \in Nat /\ k \in Nat
  BY <1>1, <1>2
<1>4. ran[f][k] \in ToSet(list[f])
  BY <1>3 DEF ToSet
<1>5. PICK b \in DOMAIN list[f] : ran[f][k] = list[f][b]
  BY <1>1, <1>4, ToSetType
<1>6. b <= l /\ b \in Nat /\ l \in Nat
  BY <1>1, <1>5
<1>7. /\ l \in DOMAIN processors /\ processors[l].name = r.name
      /\ b \in DOMAIN processors /\ processors[b].name = ran[f][k].name
  BY <1>3, <1>5 DEF ListInv, Last
<1>8. n = k
  <2> SUFFICES ASSUME n < k PROVE FALSE
    BY <1>3
  <2>1. Before(ran[f][n], ran[f][k])
    BY <1>2, <1>3 DEF OrderInv, Sorted
  <2>2. l < b
    BY <1>2, <1>7, <2>1 DEF Before
  <2>3. QED
    BY <1>6, <2>2
<1>9. QED
  BY <1>1, <1>2, <1>3, <1>8 DEF Last

\* A message that skips no processors and that nobody reconfigures around is
\* written by the one of the two outputs of NewDefault that is for its level,
\* whatever the processors before the router do to its flag
\* (sypl.go:906-922, output/output.go: Write).
THEOREM ErrorsAreRouted == Spec => []RoutedOnce
<1>1. Init => TypeOK /\ OrderInv /\ AccountInv /\ ListInv /\ SayInv
  BY InitTypes, InitOrder, InitAccount, InitSay
<1>2. /\ TypeOK /\ OrderInv /\ AccountInv /\ ListInv /\ SayInv /\ [Next]_vars
      => (TypeOK /\ OrderInv /\ AccountInv /\ ListInv /\ SayInv)'
  BY NextTypes, NextOrder, NextAccount, ListKept, SayKept
<1>3. TypeOK /\ OrderInv /\ AccountInv /\ ListInv /\ SayInv => RoutedOnce
  <2> SUFFICES ASSUME TypeOK, OrderInv, AccountInv, ListInv, SayInv, NEW f \in Frames,
                      Routed(f), outcome[f] \notin {"none", "held"}
               PROVE  kind = "StdErr" <=> given[f].level \in Errors
    BY DEF RoutedOnce
  <2> DEFINE r == Router(kind)
  <2>1. /\ msg[f].level = given[f].level /\ msg[f].flag # "Mute"
        /\ pc[f] \in {"leave", "returned"}
        /\ kind \in {"Console", "StdErr"}
        /\ ran[f] # <<>> /\ Last(ran[f]) = r /\ Applies(r, msg[f]) => msg[f].flag = "Mute"
    BY DEF SayInv, Said, Muting, Routed
  <2>2. Processed(f)
    BY <2>1 DEF Processed, Routed
  <2>3. r \in ToSet(ran[f])
    BY <2>2, InOrder DEF RunsInOrder, Routed
  <2>4. ran[f] # <<>> /\ Last(ran[f]) = r
    BY <2>3, RouterLast DEF Routed
  <2>5. ~Applies(r, msg[f])
    BY <2>1, <2>4
  <2>6. CASE kind = "Console"
    <3>1. r.op = "flagAt" /\ r.levels = Errors
      BY <2>6 DEF Router, MuteBasedOnLevel, Processor
    <3>2. QED
      BY <2>1, <2>5, <2>6, <3>1 DEF Applies
  <2>7. CASE kind = "StdErr"
    <3>1. r.op = "flagElsewhere" /\ r.levels = Errors
      BY <2>7 DEF Router, PrintOnlyAtLevel, Processor
    <3>2. QED
      BY <2>1, <2>5, <2>7, <3>1 DEF Applies
  <2>8. QED
    BY <2>1, <2>6, <2>7
<1>4. QED
  BY <1>1, <1>2, <1>3, PTL DEF Spec

----------------------------------------------------------------------------
(* The lines.                                                              *)

\* A set of naturals has a least one.
LEMMA LeastNatural ==
    ASSUME NEW T, T \subseteq Nat, T # {}
    PROVE  \E x \in T : \A y \in T : x <= y
<1>1. \E x \in T : \A y \in T : ~ (<<y, x>> \in OpToRel(<, Nat))
  BY NatLessThanWellFounded, WFMin, Zenon
<1>2. \A x, y \in T : y < x => <<y, x>> \in OpToRel(<, Nat)
  BY Zenon DEF OpToRel
<1>3. \E x \in T : \A y \in T : ~ (y < x)
  BY <1>1, <1>2, Zenon
<1>4. QED
  BY <1>3

\* The body of a text ends with its last part that breaks no line.
LEMMA BodyEnds ==
    ASSUME NEW t \in Seq(Parts)
    PROVE  /\ Body(t) \in 0..Len(t)
           /\ Body(t) = 0 \/ t[Body(t)] \notin Breaks
           /\ \A i \in (Body(t) + 1)..Len(t) : t[i] \in Breaks
<1> DEFINE T == {n \in 0..Len(t) : \A i \in (n + 1)..Len(t) : t[i] \in Breaks}
<1>1. Len(t) \in Nat
  OBVIOUS
<1>2. Len(t) \in T /\ T \subseteq Nat
  BY <1>1
<1>3. PICK n \in T : \A m \in T : n <= m
  BY <1>2, LeastNatural
<1>4. n \in 0..Len(t) /\ n \in Nat /\ \A i \in (n + 1)..Len(t) : t[i] \in Breaks
  BY <1>1
<1>5. n = 0 \/ t[n] \notin Breaks
  <2> SUFFICES ASSUME n # 0, t[n] \in Breaks PROVE FALSE
    OBVIOUS
  <2>1. n - 1 \in 0..Len(t) /\ ~(n <= n - 1)
    BY <1>1, <1>4
  <2>2. \A i \in ((n - 1) + 1)..Len(t) : i = n \/ i \in (n + 1)..Len(t)
    BY <1>1, <1>4
  <2>3. n - 1 \in T
    BY <1>4, <2>1, <2>2
  <2>4. QED
    BY <1>3, <2>1, <2>3
<1>6. QED
  BY <1>4, <1>5 DEF Body

\* And nowhere else.
LEMMA BodyIs ==
    ASSUME NEW t \in Seq(Parts), NEW n \in 0..Len(t),
           n = 0 \/ t[n] \notin Breaks,
           \A i \in (n + 1)..Len(t) : t[i] \in Breaks
    PROVE  Body(t) = n
<1>1. /\ Body(t) \in 0..Len(t) /\ Len(t) \in Nat
      /\ Body(t) = 0 \/ t[Body(t)] \notin Breaks
      /\ \A i \in (Body(t) + 1)..Len(t) : t[i] \in Breaks
  BY BodyEnds
<1>2. ~(Body(t) < n)
  BY <1>1
<1>3. ~(n < Body(t))
  BY <1>1
<1>4. QED
  BY <1>1, <1>2, <1>3

\* The text x is the body of t, with parts around it that break no line.
Wraps(x, t) ==
    \E i \in 0..Len(x) :
        /\ i + Body(t) <= Len(x)
        /\ \A k \in 1..Body(t) : x[i + k] = t[k]
        /\ \A k \in 1..Len(x) : k \in (i + 1)..(i + Body(t)) \/ x[k] \notin Breaks

LEMMA Prefixed ==
    ASSUME NEW t \in Seq(Parts), NEW x \in Seq(Parts), Wraps(x, t),
           NEW p \in Parts \ Breaks
    PROVE  <<p>> \o x \in Seq(Parts) /\ Wraps(<<p>> \o x, t)
<1>1. PICK i \in 0..Len(x) :
        /\ i + Body(t) <= Len(x)
        /\ \A k \in 1..Body(t) : x[i + k] = t[k]
        /\ \A k \in 1..Len(x) : k \in (i + 1)..(i + Body(t)) \/ x[k] \notin Breaks
  BY DEF Wraps
<1>2. PICK y : y = <<p>> \o x
  OBVIOUS
<1>3. /\ y \in Seq(Parts) /\ Len(y) = Len(x) + 1 /\ Len(x) \in Nat
      /\ y[1] = p /\ \A k \in 2..Len(y) : y[k] = x[k - 1]
  BY <1>2
<1>4. Body(t) \in Nat
  BY BodyEnds
<1>5. i + 1 \in 0..Len(y) /\ (i + 1) + Body(t) <= Len(y)
  BY <1>1, <1>3, <1>4
<1>6. \A k \in 1..Body(t) : y[(i + 1) + k] = t[k]
  <2> SUFFICES ASSUME NEW k \in 1..Body(t) PROVE y[(i + 1) + k] = t[k]
    OBVIOUS
  <2>1. (i + 1) + k \in 2..Len(y) /\ ((i + 1) + k) - 1 = i + k
    BY <1>1, <1>3, <1>4
  <2>2. QED
    BY <1>1, <1>3, <2>1
<1>7. ASSUME NEW k \in 1..Len(y), k \notin ((i + 1) + 1)..((i + 1) + Body(t))
      PROVE  y[k] \notin Breaks
  <2>1. CASE k = 1
    BY <1>3, <2>1
  <2>2. CASE k # 1
    <3>1. k \in 2..Len(y) /\ k - 1 \in 1..Len(x) /\ k - 1 \notin (i + 1)..(i + Body(t))
      BY <1>1, <1>3, <1>4, <1>7, <2>2
    <3>2. QED
      BY <1>1, <1>3, <3>1
  <2>3. QED
    BY <2>1, <2>2
<1>8. Wraps(y, t)
  BY <1>5, <1>6, <1>7 DEF Wraps
<1>9. QED
  BY <1>2, <1>3, <1>8

LEMMA Suffixed ==
    ASSUME NEW t \in Seq(Parts), NEW x \in Seq(Parts), Wraps(x, t),
           NEW p \in Parts \ Breaks
    PROVE  x \o <<p>> \in Seq(Parts) /\ Wraps(x \o <<p>>, t)
<1>1. PICK i \in 0..Len(x) :
        /\ i + Body(t) <= Len(x)
        /\ \A k \in 1..Body(t) : x[i + k] = t[k]
        /\ \A k \in 1..Len(x) : k \in (i + 1)..(i + Body(t)) \/ x[k] \notin Breaks
  BY DEF Wraps
<1>2. PICK y : y = x \o <<p>>
  OBVIOUS
<1>3. /\ y \in Seq(Parts) /\ Len(y) = Len(x) + 1 /\ Len(x) \in Nat
      /\ y[Len(y)] = p /\ \A k \in 1..Len(x) : y[k] = x[k]
  BY <1>2
<1>4. Body(t) \in Nat
  BY BodyEnds
<1>5. i \in 0..Len(y) /\ i + Body(t) <= Len(y)
  BY <1>1, <1>3, <1>4
<1>6. \A k \in 1..Body(t) : i + k \in 1..Len(x) /\ y[i + k] = t[k]
  BY <1>1, <1>3, <1>4
<1>7. ASSUME NEW k \in 1..Len(y), k \notin (i + 1)..(i + Body(t))
      PROVE  y[k] \notin Breaks
  BY <1>1, <1>3, <1>7
<1>8. Wraps(y, t)
  BY <1>5, <1>6, <1>7 DEF Wraps
<1>9. QED
  BY <1>2, <1>3, <1>8

\* A processor that applies puts its part before the text or behind it.
LEMMA RewriteWraps ==
    ASSUME NEW t \in Seq(Parts), NEW x \in Seq(Parts), Wraps(x, t), NEW p, NEW m
    PROVE  Rewrite(p, m, x) \in Seq(Parts) /\ Wraps(Rewrite(p, m, x), t)
<1>1. "pre" \in Parts \ Breaks /\ "post" \in Parts \ Breaks
  BY DEF Parts, Breaks
<1>2. \/ Rewrite(p, m, x) = <<"pre">> \o x
      \/ Rewrite(p, m, x) = x \o <<"post">>
      \/ Rewrite(p, m, x) = x
  BY DEF Rewrite
<1>3. CASE Rewrite(p, m, x) = <<"pre">> \o x
  BY <1>1, <1>3, Prefixed
<1>4. CASE Rewrite(p, m, x) = x \o <<"post">>
  BY <1>1, <1>4, Suffixed
<1>5. QED
  BY <1>2, <1>3, <1>4

\* What Strip takes off and Restore puts back.
LEMMA StripTakes ==
    ASSUME NEW t \in Seq(Parts)
    PROVE  /\ SubSeq(t, 1, Body(t)) \in Seq(Parts) /\ Wraps(SubSeq(t, 1, Body(t)), t)
           /\ Ending(t) \in Seq(Parts) /\ Reverse(Ending(t)) \in Seq(Parts)
           /\ Reverse(Reverse(Ending(t))) = Ending(t)
           /\ \A k \in 1..Len(Ending(t)) : Ending(t)[k] \in Breaks
<1> DEFINE n == Body(t)
           x == SubSeq(t, 1, n)
           e == Ending(t)
<1>1. n \in 0..Len(t) /\ Len(t) \in Nat /\ n \in Nat
      /\ \A i \in (n + 1)..Len(t) : t[i] \in Breaks
  BY BodyEnds
<1>2. x \in Seq(Parts) /\ Len(x) = n /\ \A k \in 1..n : x[k] = t[k]
  BY <1>1
<1>3. /\ e \in Seq(Parts) /\ Len(e) = Len(t) - n
      /\ \A k \in 1..Len(e) : e[k] = t[n + k] /\ n + k \in (n + 1)..Len(t)
  <2>1. e = SubSeq(t, n + 1, Len(t))
    BY DEF Ending
  <2>2. \A k \in (n + 1)..Len(t) : t[k] \in Parts
    BY <1>1
  <2>3. e \in Seq(Parts) /\ Len(e) = Len(t) - n
    BY <1>1, <2>1, <2>2
  <2>4. ASSUME NEW k \in 1..Len(e) PROVE e[k] = t[n + k] /\ n + k \in (n + 1)..Len(t)
    BY <1>1, <2>1, <2>3
  <2>5. QED
    BY <2>3, <2>4
<1> HIDE DEF x, e
<1>4. Wraps(x, t)
  <2>1. 0 \in 0..Len(x) /\ 0 + n <= Len(x)
    BY <1>1, <1>2
  <2>2. \A k \in 1..n : x[0 + k] = t[k]
    BY <1>2
  <2>3. \A k \in 1..Len(x) : k \in (0 + 1)..(0 + n)
    BY <1>1, <1>2
  <2>4. QED
    BY <2>1, <2>2, <2>3 DEF Wraps
<1>5. /\ Reverse(e) \in Seq(Parts) /\ Len(Reverse(e)) = Len(e)
      /\ \A k \in 1..Len(e) : Reverse(e)[k] = e[(Len(e) - k) + 1]
  <2>1. \A k \in 1..Len(e) : (Len(e) - k) + 1 \in 1..Len(e)
    BY <1>3
  <2>2. Reverse(e) \in [1..Len(e) -> Parts] /\ Len(e) \in Nat
    BY <1>3, <2>1 DEF Reverse
  <2>3. QED
    BY <2>2 DEF Reverse
<1>6. Reverse(Reverse(e)) = e
  <2>1. Reverse(Reverse(e)) = [k \in 1..Len(e) |-> Reverse(e)[(Len(e) - k) + 1]]
    BY <1>5 DEF Reverse
  <2>2. ASSUME NEW k \in 1..Len(e) PROVE Reverse(e)[(Len(e) - k) + 1] = e[k]
    <3>1. (Len(e) - k) + 1 \in 1..Len(e) /\ (Len(e) - ((Len(e) - k) + 1)) + 1 = k
      BY <1>3
    <3>2. QED
      BY <1>5, <3>1
  <2>3. e = [k \in 1..Len(e) |-> e[k]]
    BY <1>3
  <2>4. QED
    BY <2>1, <2>2, <2>3
<1>7. \A k \in 1..Len(e) : e[k] \in Breaks
  BY <1>1, <1>3
<1>8. QED
  BY <1>2, <1>3, <1>4, <1>5, <1>6, <1>7 DEF x, e

\* What they make of a text that was wrapped in between.
LEMMA LineIs ==
    ASSUME NEW t \in Seq(Parts), NEW x \in Seq(Parts), Wraps(x, t)
    PROVE  /\ x \o Ending(t) \in Seq(Parts)
           /\ Ending(x \o Ending(t)) = Ending(t)
           /\ Surrounds(x \o Ending(t), t)
<1>1. PICK i \in 0..Len(x) :
        /\ i + Body(t) <= Len(x)
        /\ \A k \in 1..Body(t) : x[i + k] = t[k]
        /\ \A k \in 1..Len(x) : k \in (i + 1)..(i + Body(t)) \/ x[k] \notin Breaks
  BY DEF Wraps
<1>2. /\ Ending(t) \in Seq(Parts)
      /\ \A k \in 1..Len(Ending(t)) : Ending(t)[k] \in Breaks
  BY StripTakes
<1>3. PICK l : l = x \o Ending(t)
  OBVIOUS
<1>4. /\ l \in Seq(Parts) /\ Len(l) = Len(x) + Len(Ending(t))
      /\ Len(x) \in Nat /\ Len(Ending(t)) \in Nat
      /\ \A k \in 1..Len(x) : l[k] = x[k]
      /\ \A k \in (Len(x) + 1)..Len(l) : l[k] = Ending(t)[k - Len(x)]
  BY <1>2, <1>3
<1>b. Body(t) \in Nat /\ (Body(t) = 0 \/ t[Body(t)] \notin Breaks)
  BY BodyEnds
<1>5. Body(l) = Len(x)
  <2>1. Len(x) \in 0..Len(l)
    BY <1>4
  <2>2. \A k \in (Len(x) + 1)..Len(l) : l[k] \in Breaks
    <3> SUFFICES ASSUME NEW k \in (Len(x) + 1)..Len(l) PROVE l[k] \in Breaks
      OBVIOUS
    <3>1. k - Len(x) \in 1..Len(Ending(t))
      BY <1>4
    <3>2. QED
      BY <1>2, <1>4, <3>1
  <2>3. Len(x) = 0 \/ l[Len(x)] \notin Breaks
    <3>1. CASE Len(x) = 0
      BY <3>1
    <3>2. CASE Len(x) # 0 /\ Len(x) \notin (i + 1)..(i + Body(t))
      BY <1>1, <1>4, <3>2
    <3>3. CASE Len(x) # 0 /\ Len(x) \in (i + 1)..(i + Body(t))
      <4>1. Body(t) \in 1..Body(t) /\ i + Body(t) = Len(x) /\ Len(x) \in 1..Len(x)
        BY <1>1, <1>4, <1>b, <3>3
      <4>2. l[Len(x)] = t[Body(t)]
        BY <1>1, <1>4, <4>1
      <4>3. QED
        BY <1>b, <4>1, <4>2
    <3>4. QED
      BY <3>1, <3>2, <3>3
  <2>4. QED
    BY <1>4, <2>1, <2>2, <2>3, BodyIs
<1>6. Ending(l) = Ending(t)
  <2>0. Ending(l) = SubSeq(l, Len(x) + 1, Len(l))
    BY <1>5 DEF Ending
  <2>1. /\ Ending(l) \in Seq(Parts) /\ Len(Ending(l)) = Len(Ending(t))
        /\ \A k \in 1..Len(Ending(t)) : Ending(l)[k] = l[Len(x) + k]
    BY <1>4, <2>0
  <2>2. \A k \in 1..Len(Ending(t)) : /\ Len(x) + k \in (Len(x) + 1)..Len(l)
                                     /\ (Len(x) + k) - Len(x) = k
    BY <1>4
  <2>3. \A k \in 1..Len(Ending(t)) : Ending(l)[k] = Ending(t)[k]
    BY <1>4, <2>1, <2>2
  <2>4. QED
    BY <1>2, <2>1, <2>3
<1>7. Surrounds(l, t)
  <2>1. i \in 0..(Body(l) - Body(t))
    BY <1>1, <1>4, <1>5, <1>b
  <2>2. \A k \in 1..Body(t) : l[i + k] = t[k]
    <3>1. \A k \in 1..Body(t) : i + k \in 1..Len(x)
      BY <1>1, <1>4, <1>b
    <3>2. QED
      BY <1>1, <1>4, <3>1
  <2>3. \A k \in 1..Body(l) : k \in (i + 1)..(i + Body(t)) \/ l[k] \notin Breaks
    BY <1>1, <1>4, <1>5
  <2>4. QED
    BY <2>1, <2>2, <2>3 DEF Surrounds
<1>8. QED
  BY <1>3, <1>4, <1>6, <1>7

Carrying == {"list", "running", "calling", "env", "check", "format", "emit"}

\* How far a message has come, as to its text.
Carried(f) ==
    LET t == given[f].text IN
    /\ pc[f] \in Early => text[f] = t /\ chars[f] = <<>>
    /\ pc[f] \in Carrying => Wraps(text[f], t) /\ chars[f] = Reverse(Ending(t))
    /\ outcome[f] \notin {"none", "held"} =>
          Ending(line[f]) = Ending(t) /\ Surrounds(line[f], t)

TextTypes ==
    /\ text \in [Frames -> Seq(Parts)] /\ chars \in [Frames -> Seq(Parts)]
    /\ line \in [Frames -> Seq(Parts)] /\ outcome \in [Frames -> Verdicts]

TextInv == TextTypes /\ \A f \in Frames : Carried(f)

LEMMA GivenText == TypeOK => \A f \in Frames : given[f].text \in Seq(Parts)
  BY DEF TypeOK, Given

LEMMA InitText == Init => TextInv
  BY EmptySeq DEF Init, TextInv, TextTypes, Carried, Early, Carrying, Verdicts

LEMMA CarriedKept ==
    ASSUME NEW g \in Frames, Carried(g),
           /\ pc'[g] = pc[g] /\ given'[g] = given[g] /\ text'[g] = text[g]
           /\ chars'[g] = chars[g] /\ outcome'[g] = outcome[g] /\ line'[g] = line[g]
    PROVE  Carried(g)'
  BY DEF Carried

\* A message that arrives.
LEMMA BeginCarried ==
    ASSUME TypeOK, TextInv, NEW f \in Frames, NEW m \in Given, Begin(f, m),
           pc'[f] \in Early, UNCHANGED line,
           \A g \in Frames \ {f} : pc'[g] = pc[g] \/ (pc[g] \in Carrying /\ pc'[g] \in Carrying)
    PROVE  TextInv'
<1>1. /\ text' = [text EXCEPT ![f] = m.text] /\ chars' = [chars EXCEPT ![f] = <<>>]
      /\ outcome' = [outcome EXCEPT ![f] = "none"] /\ given' = [given EXCEPT ![f] = m]
  BY DEF Begin
<1>2. m.text \in Seq(Parts)
  BY DEF Given
<1>3. TextTypes'
  BY <1>1, <1>2, EmptySeq DEF TextInv, TextTypes, Verdicts
<1>4. Carried(f)'
  <2>1. /\ text'[f] = m.text /\ chars'[f] = <<>> /\ outcome'[f] = "none"
        /\ given'[f] = m /\ pc'[f] \notin Carrying
    BY <1>1 DEF TextInv, TextTypes, TypeOK, Early, Carrying
  <2>2. QED
    BY <2>1 DEF Carried
<1>5. ASSUME NEW g \in Frames \ {f} PROVE Carried(g)'
  <2>1. /\ text'[g] = text[g] /\ chars'[g] = chars[g] /\ outcome'[g] = outcome[g]
        /\ given'[g] = given[g] /\ line'[g] = line[g]
    BY <1>1 DEF TextInv, TextTypes, TypeOK
  <2>2. Carrying \cap Early = {}
    BY DEF Carrying, Early
  <2>3. QED
    BY <2>1, <2>2 DEF TextInv, Carried
<1>6. QED
  BY <1>3, <1>4, <1>5 DEF TextInv

LEMMA FrameCarries ==
    ASSUME TypeOK, TextInv, NEW f \in Frames, FrameStep(f)
    PROVE  TextInv'
<1>t. TextTypes /\ Carried(f) /\ \A g \in Frames : Carried(g)
  BY DEF TextInv
<1>g. given[f].text \in Seq(Parts)
  BY GivenText
<1>1. CASE LookForDebug(f) \/ NewDebug(f) \/ Enter(f)
  <2>1. UNCHANGED <<given, text, chars, outcome, line>>
    BY <1>1 DEF LookForDebug, NewDebug, Enter
  <2>2. /\ pc[f] \in Early /\ pc'[f] \in Early
        /\ \A g \in Frames \ {f} : pc'[g] = pc[g]
    BY <1>1 DEF LookForDebug, NewDebug, Enter, TypeOK, Early
  <2>3. Carried(f)'
    BY <1>t, <2>1, <2>2 DEF Carried, Early, Carrying
  <2>4. QED
    BY <1>t, <2>1, <2>2, <2>3, CarriedKept DEF TextInv, TextTypes
<1>2. CASE ReadNames(f)
  <2> DEFINE t == given[f].text
  <2>1. /\ UNCHANGED <<given, outcome, line>> /\ pc[f] = "names"
        /\ pc' = [pc EXCEPT ![f] = "list"]
        /\ text' = [text EXCEPT ![f] = SubSeq(@, 1, Body(text[f]))]
        /\ chars' = [chars EXCEPT ![f] =
                        @ \o Reverse(SubSeq(text[f], Body(text[f]) + 1, Len(text[f])))]
    BY <1>2 DEF ReadNames, Strip
  <2>2. text[f] = t /\ chars[f] = <<>>
    BY <1>t, <2>1 DEF Carried, Early
  <2>3. /\ SubSeq(t, 1, Body(t)) \in Seq(Parts) /\ Wraps(SubSeq(t, 1, Body(t)), t)
        /\ Reverse(Ending(t)) \in Seq(Parts)
    BY <1>g, StripTakes
  <2>4. <<>> \o Reverse(Ending(t)) = Reverse(Ending(t))
    BY <2>3
  <2>5. /\ text'[f] = SubSeq(t, 1, Body(t)) /\ chars'[f] = Reverse(Ending(t))
        /\ pc'[f] = "list"
    BY <1>t, <2>1, <2>2, <2>4 DEF TextTypes, TypeOK, Ending
  <2>6. /\ text' \in [Frames -> Seq(Parts)] /\ chars' \in [Frames -> Seq(Parts)]
        /\ \A g \in Frames \ {f} : text'[g] = text[g] /\ chars'[g] = chars[g] /\ pc'[g] = pc[g]
    BY <1>t, <2>1, <2>2, <2>3, <2>4 DEF TextTypes, TypeOK, Ending
  <2>7. Carried(f)'
    BY <1>t, <2>1, <2>3, <2>5 DEF Carried, Early
  <2>8. QED
    BY <1>t, <2>1, <2>6, <2>7, CarriedKept DEF TextInv, TextTypes
<1>3. CASE ReadProcessors(f) \/ CalledBack(f) \/ ReadMaxLevel(f) \/ CheckFormatter(f) \/ Leave(f)
           \/ Decide(f)
  <2>1. UNCHANGED <<given, text, chars, line>>
    BY <1>3 DEF ReadProcessors, CalledBack, ReadMaxLevel, CheckFormatter, Leave, Decide
  <2>2. /\ pc'[f] \notin Early /\ (pc'[f] \in Carrying => pc[f] \in Carrying)
        /\ \A g \in Frames \ {f} : pc'[g] = pc[g]
    BY <1>3 DEF ReadProcessors, CalledBack, ReadMaxLevel, CheckFormatter, Leave, Decide,
       TypeOK, Early, Carrying
  <2>3. /\ outcome'[f] \in {outcome[f], "held"} /\ outcome' \in [Frames -> Verdicts]
        /\ \A g \in Frames \ {f} : outcome'[g] = outcome[g]
    BY <1>3, <1>t DEF ReadProcessors, CalledBack, ReadMaxLevel, CheckFormatter, Leave, Decide,
       TextTypes, Verdicts
  <2>4. Carried(f)'
    <3>1. /\ given'[f] = given[f] /\ text'[f] = text[f] /\ chars'[f] = chars[f]
          /\ line'[f] = line[f]
      BY <2>1
    <3>2. outcome'[f] = outcome[f] \/ outcome'[f] = "held"
      BY <2>3
    <3>3. QED
      BY <1>t, <2>2, <3>1, <3>2 DEF Carried
  <2>5. QED
    BY <1>t, <2>1, <2>2, <2>3, <2>4, CarriedKept DEF TextInv, TextTypes
<1>4. CASE RunProcessor(f) \/ (Format(f) /\ life' = life)
  <2>1. /\ UNCHANGED <<given, chars, line, outcome>> /\ pc[f] \in Carrying
        /\ pc'[f] \in Carrying /\ \A g \in Frames \ {f} : pc'[g] = pc[g]
    BY <1>4 DEF RunProcessor, Format, TypeOK, Carrying
  <2>2. /\ text[f] \in Seq(Parts) /\ Wraps(text[f], given[f].text)
    BY <1>t, <2>1 DEF TextTypes, Carried
  <2>3. PICK x : /\ text' = [text EXCEPT ![f] = x]
                 /\ \/ x = <<"format">> \o text[f]
                    \/ x = Rewrite(Next1(f), msg[f], text[f])
                    \/ x = text[f]
    BY <1>4 DEF RunProcessor, Format
  <2>4. x \in Seq(Parts) /\ Wraps(x, given[f].text)
    <3>1. CASE x = <<"format">> \o text[f]
      BY <1>g, <2>2, <3>1, Prefixed DEF Parts, Breaks
    <3>2. CASE x = Rewrite(Next1(f), msg[f], text[f])
      BY <1>g, <2>2, <3>2, RewriteWraps
    <3>3. QED
      BY <2>2, <2>3, <3>1, <3>2
  <2>5. /\ text' \in [Frames -> Seq(Parts)] /\ text'[f] = x
        /\ \A g \in Frames \ {f} : text'[g] = text[g]
    BY <1>t, <2>3, <2>4 DEF TextTypes
  <2>6. Carried(f)'
    BY <1>t, <2>1, <2>4, <2>5 DEF Carried, Early, Carrying
  <2>7. QED
    BY <1>t, <2>1, <2>5, <2>6, CarriedKept DEF TextInv, TextTypes
<1>5. CASE Format(f) /\ life' # life
  <2>1. /\ UNCHANGED <<given, text, chars, line, outcome>>
        /\ pc'[f] = "panicked" /\ \A g \in Frames \ {f} : pc'[g] = pc[g]
    BY <1>5 DEF Format, TypeOK
  <2>2. Carried(f)'
    BY <1>t, <2>1 DEF Carried, Early, Carrying
  <2>3. QED
    BY <1>t, <2>1, <2>2, CarriedKept DEF TextInv, TextTypes
<1>6. CASE CallBack(f)
  <2> DEFINE i == Inner(f)
  <2>1. i \in Frames /\ i # f
    BY <1>6, FramesAre DEF CallBack, Calls
  <2>2. /\ pc[f] = "running" /\ Begin(i, Notice) /\ UNCHANGED line
        /\ pc' = [pc EXCEPT ![f] = "calling", ![i] = "dispatch"]
    BY <1>6 DEF CallBack
  <2> HIDE DEF i
  <2>3. /\ pc'[i] \in Early
        /\ \A g \in Frames \ {i} : pc'[g] = pc[g] \/ (pc[g] \in Carrying /\ pc'[g] \in Carrying)
    BY <2>1, <2>2 DEF TypeOK, Early, Carrying
  <2>4. QED
    BY <2>1, <2>2, <2>3, BeginCarried, PipelineAssumption
<1>7. CASE Emit(f)
  <2> DEFINE t == given[f].text
  <2>1. /\ UNCHANGED <<given, text, chars>> /\ pc[f] = "emit"
        /\ pc' = [pc EXCEPT ![f] = "leave"]
        /\ line' = [line EXCEPT ![f] = text[f] \o Reverse(chars[f])]
    BY <1>7 DEF Emit, Restore
  <2>2. \E result \in Outcomes : outcome' = [outcome EXCEPT ![f] = result]
    BY <1>7 DEF Emit
  <2>3. /\ text[f] \in Seq(Parts) /\ Wraps(text[f], t) /\ chars[f] = Reverse(Ending(t))
    BY <1>t, <2>1 DEF TextTypes, Carried, Carrying
  <2>4. line' = [line EXCEPT ![f] = text[f] \o Ending(t)]
    BY <1>g, <2>1, <2>3, StripTakes
  <2>5. /\ text[f] \o Ending(t) \in Seq(Parts)
        /\ Ending(text[f] \o Ending(t)) = Ending(t)
        /\ Surrounds(text[f] \o Ending(t), t)
    BY <1>g, <2>3, LineIs
  <2>6. /\ TextTypes' /\ line'[f] = text[f] \o Ending(t) /\ pc'[f] = "leave"
        /\ \A g \in Frames \ {f} :
              line'[g] = line[g] /\ outcome'[g] = outcome[g] /\ pc'[g] = pc[g]
    <3>1. /\ outcome' \in [Frames -> Verdicts]
          /\ \A g \in Frames \ {f} : outcome'[g] = outcome[g]
      BY <1>t, <2>2 DEF TextTypes, Outcomes, Verdicts
    <3>2. line' \in [Frames -> Seq(Parts)] /\ line'[f] = text[f] \o Ending(t)
      BY <1>t, <2>4, <2>5 DEF TextTypes
    <3>3. \A g \in Frames \ {f} : line'[g] = line[g]
      BY <1>t, <2>4 DEF TextTypes
    <3>4. pc'[f] = "leave" /\ \A g \in Frames \ {f} : pc'[g] = pc[g]
      BY <2>1 DEF TypeOK
    <3>5. QED
      BY <1>t, <2>1, <3>1, <3>2, <3>3, <3>4 DEF TextTypes
  <2>7. Carried(f)'
    BY <2>1, <2>5, <2>6 DEF Carried, Early, Carrying
  <2>8. QED
    BY <1>t, <2>1, <2>6, <2>7, CarriedKept DEF TextInv
<1>8. QED
  BY <1>1, <1>2, <1>3, <1>4, <1>5, <1>6, <1>7 DEF FrameStep

LEMMA TextKept == TypeOK /\ TextInv /\ [Next]_vars => TextInv'
<1> SUFFICES ASSUME TypeOK, TextInv, [Next]_vars PROVE TextInv'
  OBVIOUS
<1>1. ASSUME NEW w \in Writers, Log(w) \/ WriteDirectly(w) PROVE TextInv'
  <2> DEFINE f == <<w, 1>>
  <2>1. f \in Frames
    BY FramesAre
  <2>2. PICK label \in Early : Receive(w, label)
    BY <1>1 DEF Log, WriteDirectly, Early
  <2>3. PICK m \in Messages : Begin(f, m)
    BY <2>2 DEF Receive
  <2>4. pc' = [pc EXCEPT ![f] = label] /\ UNCHANGED line
    BY <2>2 DEF Receive
  <2> HIDE DEF f
  <2>5. pc'[f] \in Early /\ \A g \in Frames \ {f} : pc'[g] = pc[g]
    BY <2>1, <2>4 DEF TypeOK
  <2>6. QED
    BY <2>1, <2>3, <2>4, <2>5, BeginCarried, PipelineAssumption
<1>2. CASE Reconfigure \/ UNCHANGED vars
  <2>1. UNCHANGED <<given, text, chars, line, outcome, pc>>
    BY <1>2 DEF Reconfigure, SetMaxLevel, SetFormatter, AddProcessors, SetProcessors,
       SetStatus, Setenv, Reset, vars
  <2>2. QED
    BY <2>1, CarriedKept DEF TextInv, TextTypes
<1>3. QED
  BY <1>1, <1>2, FrameCarries DEF Next

\* What is written is the text of the message in one piece, with what processors
\* and formatter add around it, which breaks no line, and with the line breaks
\* of the message at its end, in their order (message/message.go: Strip,
\* Restore; output/output.go: write).
THEOREM LinesAreTrue == Spec => []LinesTrue
<1>1. Init => TypeOK /\ TextInv
  BY InitTypes, InitText
<1>2. TypeOK /\ TextInv /\ [Next]_vars => (TypeOK /\ TextInv)'
  BY NextTypes, TextKept
<1>3. TextInv => LinesTrue
  BY DEF TextInv, Carried, LinesTrue
<1>4. QED
  BY <1>1, <1>2, <1>3, PTL DEF Spec
=============================================================================
