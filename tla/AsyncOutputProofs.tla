------------------------- MODULE AsyncOutputProofs -------------------------
(***************************************************************************)
(* Safety of the asynchronous output for every number of goroutines, every *)
(* capacity and every bound on the writes.                                 *)
(***************************************************************************)
EXTENDS AsyncOutput, SequenceTheorems, TLAPS

\* The groups of variables, expanded in every proof that looks at a step.
USE DEF vars, bufferVars, workerVars, writerVars, dropVars, flushVars,
        onceVars, restVars, writersKeep, workerKeeps, flushersKeep,
        tickerKeeps, closersKeep

----------------------------------------------------------------------------
(* The two operations on the buffer.                                       *)

LEMMA AppendFacts ==
  ASSUME NEW S, NEW q \in Seq(S), NEW m \in S
  PROVE  /\ Append(q, m) \in Seq(S)
         /\ Append(q, m) # <<>>
         /\ Len(Append(q, m)) = Len(q) + 1
         /\ \A i \in 1..Len(q) : Append(q, m)[i] = q[i]
         /\ Append(q, m)[Len(q) + 1] = m
         /\ Len(q) \in Nat
  OBVIOUS

LEMMA TailFacts ==
  ASSUME NEW S, NEW q \in Seq(S), q # <<>>
  PROVE  /\ Len(q) \in Nat \ {0}
         /\ Head(q) = q[1]
         /\ q[1] \in S
         /\ Tail(q) \in Seq(S)
         /\ Len(Tail(q)) = Len(q) - 1
         /\ \A i \in 1..Len(q) - 1 : Tail(q)[i] = q[i + 1]
<1>1. Len(q) \in Nat \ {0}
  BY EmptySeq
<1>2. Head(q) = q[1]
  OBVIOUS
<1> QED BY <1>1, <1>2, HeadTailProperties, ElementOfSeq

----------------------------------------------------------------------------
(* What the goroutines of each kind leave alone.                           *)

LEMMA Frames ==
  /\ \A w \in Writers : WriteStep(w) => UNCHANGED writersKeep
  /\ WorkerStep => UNCHANGED workerKeeps
  /\ \A f \in Flushers : FlushStep(f) => UNCHANGED flushersKeep
  /\ FlusherStep => UNCHANGED tickerKeeps
  /\ \A c \in Closers : CloseAnyStep(c) => UNCHANGED closersKeep
<1>1. \A w \in Writers : WriteStep(w) => UNCHANGED writersKeep
  BY DEF WriteStep, WriteRefused, WriteEnqueue, WriteDropNewest,
         WriteDropOldest, WriteBlock, WriteBlockAgain, WriteResumeRefused,
         WriteResumeEnqueue, NotifyDrop, Refuse, Admit
<1>2. WorkerStep => UNCHANGED workerKeeps
  BY DEF WorkerStep, WorkerWait, WorkerTake, WorkerWrite, WorkerResolve,
         WorkerNotify, WorkerExit
<1>3. \A f \in Flushers : FlushStep(f) => UNCHANGED flushersKeep
  BY DEF FlushStep, FlushCall, FlushWaitAgain, FlushResume, FlushInner
<1>4. FlusherStep => UNCHANGED tickerKeeps
  BY DEF FlusherStep, FlusherTick, FlusherFlush, FlusherExit
<1>5. \A c \in Closers : CloseAnyStep(c) => UNCHANGED closersKeep
  BY DEF CloseAnyStep, CloseBegin, CloseRepeat, CloseRepeatReturn,
         CloseStopFlusher, CloseJoinFlusher, CloseJoinWorker, CloseFlushInner,
         CloseInner
<1> QED BY <1>1, <1>2, <1>3, <1>4, <1>5

----------------------------------------------------------------------------
(* Types, and the capacity of the buffer.                                  *)

LEMMA TypeInit == Init => TypeOK
<1> SUFFICES ASSUME Init PROVE TypeOK
  OBVIOUS
<1>1. BufferType
  BY EmptySeq, CapacityAssumption DEF Init, BufferType
<1>2. WorkerType /\ WriterType
  BY DEF Init, WorkerType, WriterType
<1>3. FlushType /\ CloseType
  BY DEF Init, FlushType, CloseType
<1>4. SharedType
  BY DEF Init, SharedType, Policies
<1> QED BY <1>1, <1>2, <1>3, <1>4 DEF TypeOK

\* What is known of a buffer that a message can be taken from.
LEMMA NonEmptyBuffer ==
  ASSUME BufferType, queue # <<>>
  PROVE  /\ Len(queue) \in Nat \ {0}
         /\ Head(queue) = queue[1]
         /\ Head(queue) \in Nat \ {0}
         /\ Tail(queue) \in Seq(Nat \ {0})
         /\ Len(Tail(queue)) = Len(queue) - 1
         /\ \A i \in 1..Len(queue) - 1 : Tail(queue)[i] = queue[i + 1]
<1>1. queue \in Seq(Nat \ {0})
  BY DEF BufferType
<1> QED BY <1>1, TailFacts

LEMMA FullIsNotEmpty ==
  ASSUME BufferType, Full
  PROVE  queue # <<>>
BY EmptySeq, CapacityAssumption DEF BufferType, Full

LEMMA BufferTypeStep == TypeOK /\ [Next]_vars => BufferType'
<1> SUFFICES ASSUME TypeOK, [Next]_vars PROVE BufferType'
  OBVIOUS
<1> USE CapacityAssumption DEF TypeOK, BufferType
<1>1. ASSUME NEW w \in Writers, WriteStep(w) PROVE BufferType'
  <2>1. ASSUME Admit(w) PROVE BufferType'
    BY <2>1, AppendFacts DEF Admit, Enqueue, Full
  <2>2. CASE WriteDropOldest(w)
    <3>1. /\ Tail(queue) \in Seq(Nat \ {0})
          /\ Len(Tail(queue)) = Len(queue) - 1
      BY <2>2, FullIsNotEmpty, NonEmptyBuffer DEF WriteDropOldest
    <3>2. /\ Append(Tail(queue), accepted + 1) \in Seq(Nat \ {0})
          /\ Len(Append(Tail(queue), accepted + 1)) = Len(queue)
      BY <3>1, AppendFacts
    <3> QED BY <2>2, <3>2 DEF WriteDropOldest, Enqueue
  <2>3. CASE UNCHANGED bufferVars
    BY <2>3
  <2> QED BY <1>1, <2>1, <2>2, <2>3
          DEF WriteStep, WriteRefused, WriteEnqueue, WriteDropNewest,
              WriteBlock, WriteBlockAgain, WriteResumeRefused,
              WriteResumeEnqueue, NotifyDrop, Refuse
<1>2. CASE WorkerStep
  <2>1. CASE WorkerTake
    BY <2>1, TailFacts DEF WorkerTake
  <2>2. CASE UNCHANGED bufferVars
    BY <2>2
  <2> QED BY <1>2, <2>1, <2>2
          DEF WorkerStep, WorkerWait, WorkerWrite, WorkerResolve,
              WorkerNotify, WorkerExit, workerKeeps
<1>3. CASE UNCHANGED bufferVars
  BY <1>3
<1> QED BY <1>1, <1>2, <1>3, Frames DEF Next

LEMMA WorkerTypeStep == TypeOK /\ [Next]_vars => WorkerType'
<1> SUFFICES ASSUME TypeOK, [Next]_vars PROVE WorkerType'
  OBVIOUS
<1> USE DEF TypeOK, WorkerType
<1>1. CASE WorkerStep
  <2>1. CASE WorkerTake
    <3>1. inHand' \in Nat /\ inFlightSeq' \in Nat
      BY <2>1, NonEmptyBuffer DEF WorkerTake, BufferType
    <3> QED BY <2>1, <3>1 DEF WorkerTake
  <2>2. CASE WorkerWrite
    BY <2>2 DEF WorkerWrite
  <2>3. CASE WorkerResolve
    BY <2>3 DEF WorkerResolve
  <2> QED BY <1>1, <2>1, <2>2, <2>3
          DEF WorkerStep, WorkerWait, WorkerNotify, WorkerExit
<1>2. CASE UNCHANGED <<workerVars, written>>
  BY <1>2
<1> QED BY <1>1, <1>2, Frames DEF Next

LEMMA WriterTypeStep == TypeOK /\ [Next]_vars => WriterType'
<1> SUFFICES ASSUME TypeOK, [Next]_vars PROVE WriterType'
  OBVIOUS
<1> USE DEF TypeOK, WriterType
<1>1. ASSUME NEW w \in Writers, WriteStep(w) PROVE WriterType'
  <2>1. CASE WriteDropOldest(w)
    <3>1. Head(queue) \in Nat
      BY <2>1, FullIsNotEmpty, NonEmptyBuffer DEF WriteDropOldest
    <3>2. lost' \subseteq Nat
      BY <2>1, <3>1 DEF WriteDropOldest
    <3>3. writerPc' \in [Writers -> {"idle", "blocked", "notifying", "refused"}]
      BY <2>1 DEF WriteDropOldest
    <3>4. total' \in [Writers -> Nat] /\ dropped' \in Nat
      BY <2>1 DEF WriteDropOldest
    <3> QED BY <2>1, <3>2, <3>3, <3>4 DEF WriteDropOldest
  <2>2. CASE NotifyDrop(w)
    BY <2>2 DEF NotifyDrop
  <2>3. CASE WriteDropNewest(w)
    BY <2>3 DEF WriteDropNewest
  <2>4. CASE WriteBlock(w) \/ WriteBlockAgain(w)
    BY <2>4 DEF WriteBlock, WriteBlockAgain
  <2>5. ASSUME Refuse(w) \/ Admit(w) PROVE WriterType'
    BY <2>5 DEF Refuse, Admit
  <2> QED BY <1>1, <2>1, <2>2, <2>3, <2>4, <2>5
          DEF WriteStep, WriteRefused, WriteEnqueue, WriteResumeRefused,
              WriteResumeEnqueue
<1>2. CASE UNCHANGED <<writerVars, dropVars>>
  BY <1>2
<1> QED BY <1>1, <1>2, Frames DEF Next

LEMMA FlushTypeStep == TypeOK /\ [Next]_vars => FlushType'
<1> SUFFICES ASSUME TypeOK, [Next]_vars PROVE FlushType'
  OBVIOUS
<1> USE DEF TypeOK, FlushType
<1>1. ASSUME NEW f \in Flushers, FlushStep(f) PROVE FlushType'
  BY <1>1 DEF FlushStep, FlushCall, FlushWaitAgain, FlushResume, FlushInner,
              FlushProceed, BufferType
<1>2. CASE UNCHANGED flushVars
  BY <1>2
<1> QED BY <1>1, <1>2, Frames DEF Next

LEMMA CloseTypeStep == TypeOK /\ [Next]_vars => CloseType'
<1> SUFFICES ASSUME TypeOK, [Next]_vars PROVE CloseType'
  OBVIOUS
<1> USE DEF TypeOK, CloseType
<1>1. ASSUME NEW c \in Closers, CloseAnyStep(c) PROVE CloseType'
  <2>1. CASE CloseBegin(c) \/ CloseRepeat(c) \/ CloseRepeatReturn(c)
    BY <2>1 DEF CloseBegin, CloseRepeat, CloseRepeatReturn, CloseStep
  <2>2. CASE CloseStopFlusher(c) \/ CloseJoinFlusher(c) \/ CloseJoinWorker(c)
    BY <2>2
    DEF CloseStopFlusher, CloseJoinFlusher, CloseJoinWorker, CloseStep,
        SharedType
  <2>3. CASE CloseFlushInner(c)
    BY <2>3 DEF CloseFlushInner, CloseStep
  <2>4. CASE CloseInner(c)
    BY <2>4 DEF CloseInner
  <2> QED BY <1>1, <2>1, <2>2, <2>3, <2>4 DEF CloseAnyStep
<1>2. CASE UNCHANGED <<onceVars, closePc, closed, flusherStop>>
  BY <1>2
<1> QED BY <1>1, <1>2, Frames DEF Next

LEMMA SharedTypeStep == TypeOK /\ [Next]_vars => SharedType'
<1> SUFFICES ASSUME TypeOK, [Next]_vars PROVE SharedType'
  OBVIOUS
<1> USE DEF TypeOK, SharedType, Broadcast, NoBroadcast
<1>1. ASSUME NEW w \in Writers, WriteStep(w) PROVE SharedType'
  BY <1>1 DEF WriteStep, WriteRefused, WriteEnqueue, WriteDropNewest,
              WriteDropOldest, WriteBlock, WriteBlockAgain,
              WriteResumeRefused, WriteResumeEnqueue, NotifyDrop, Refuse,
              Admit
<1>2. CASE WorkerStep
  BY <1>2 DEF WorkerStep, WorkerWait, WorkerTake, WorkerWrite, WorkerResolve,
              WorkerNotify, WorkerExit
<1>3. ASSUME NEW f \in Flushers, FlushStep(f) PROVE SharedType'
  BY <1>3 DEF FlushStep, FlushCall, FlushWaitAgain, FlushResume, FlushInner,
              FlushProceed, WorkerType
<1>4. CASE FlusherStep
  BY <1>4 DEF FlusherStep, FlusherTick, FlusherFlush, FlusherExit, WorkerType
<1>5. ASSUME NEW c \in Closers, CloseAnyStep(c) PROVE SharedType'
  BY <1>5 DEF CloseAnyStep, CloseBegin, CloseRepeat, CloseRepeatReturn,
              CloseStopFlusher, CloseJoinFlusher, CloseJoinWorker,
              CloseFlushInner, CloseInner, WorkerType
<1>6. CASE UNCHANGED vars
  BY <1>6
<1> QED BY <1>1, <1>2, <1>3, <1>4, <1>5, <1>6 DEF Next

LEMMA TypeStep == TypeOK /\ [Next]_vars => TypeOK'
BY BufferTypeStep, WorkerTypeStep, WriterTypeStep, FlushTypeStep,
   CloseTypeStep, SharedTypeStep DEF TypeOK

\* The state keeps its types, and the buffer never holds more than Capacity
\* messages (output/async.go:157-218).
THEOREM TypeCorrect == Spec => []TypeOK
BY TypeInit, TypeStep, PTL DEF Spec

----------------------------------------------------------------------------
(* The sequence numbers agree with the messages.                           *)

\* The steps that touch the buffer or the message in flight.
LEMMA BufferFrames ==
  ASSUME [Next]_vars
  PROVE  \/ \E w \in Writers : Admit(w)
         \/ \E w \in Writers : WriteDropOldest(w)
         \/ WorkerTake \/ WorkerWrite \/ WorkerResolve
         \/ /\ UNCHANGED <<bufferVars, inHand, inFlightSeq, written, lost>>
            /\ \/ workerPc' = workerPc
               \/ workerPc = "notifying" /\ workerPc' = "idle"
               \/ workerPc = "idle" /\ workerPc' = "exited"
<1>1. ASSUME NEW w \in Writers, WriteStep(w)
      PROVE  \/ Admit(w) \/ WriteDropOldest(w)
             \/ UNCHANGED <<bufferVars, workerVars, written, lost>>
  BY <1>1 DEF WriteStep, WriteRefused, WriteEnqueue, WriteDropNewest,
              WriteBlock, WriteBlockAgain, WriteResumeRefused,
              WriteResumeEnqueue, NotifyDrop, Refuse
<1>2. CASE WorkerStep
  BY <1>2 DEF WorkerStep, WorkerWait, WorkerNotify, WorkerExit
<1> QED BY <1>1, <1>2, Frames DEF Next

SeqInv == TypeOK /\ SeqAccounting

LEMMA SeqInit == Init => SeqAccounting
BY DEF Init, SeqAccounting

\* Taking the head of the buffer, by the worker or by the drop-oldest policy.
LEMMA HeadIsNext ==
  ASSUME SeqInv, queue # <<>>
  PROVE  /\ Head(queue) = headSeq
         /\ headSeq = accepted - Len(queue) + 1
         /\ Len(queue) \in 1..accepted
         /\ \A i \in 1..Len(queue) - 1 :
               Tail(queue)[i] = accepted - Len(queue) + 1 + i
         /\ Len(Tail(queue)) = Len(queue) - 1
         /\ Tail(queue) \in Seq(Nat \ {0})
         /\ Tail(queue) # <<>> => Tail(queue)[1] = headSeq + 1
<1>1. /\ Len(queue) \in Nat \ {0}
      /\ Head(queue) = queue[1]
      /\ Head(queue) \in Nat \ {0}
      /\ Tail(queue) \in Seq(Nat \ {0})
      /\ Len(Tail(queue)) = Len(queue) - 1
      /\ \A i \in 1..Len(queue) - 1 : Tail(queue)[i] = queue[i + 1]
  BY NonEmptyBuffer DEF SeqInv, TypeOK
<1>2. /\ accepted \in Nat
      /\ \A i \in 1..Len(queue) : queue[i] = accepted - Len(queue) + i
      /\ headSeq = queue[1]
  BY DEF SeqInv, TypeOK, BufferType, SeqAccounting
<1>3. \A i \in 1..Len(queue) - 1 :
         Tail(queue)[i] = accepted - Len(queue) + 1 + i
  BY <1>1, <1>2
<1>4. Tail(queue) # <<>> => Len(queue) - 1 \in Nat \ {0}
  BY <1>1, EmptySeq
<1>5. Tail(queue) # <<>> => Tail(queue)[1] = headSeq + 1
  BY <1>1, <1>2, <1>3, <1>4
<1> QED BY <1>1, <1>2, <1>3, <1>5

\* Enqueue keeps the buffer an interval that ends with the newest message.
LEMMA EnqueueInterval ==
  ASSUME SeqInv, NEW q \in Seq(Nat \ {0}), NEW h,
         \A i \in 1..Len(q) : q[i] = accepted - Len(q) + i,
         q # <<>> => h = q[1],
         Enqueue(q, h)
  PROVE  /\ enqueuedSeq' = accepted'
         /\ \A i \in 1..Len(queue') : queue'[i] = accepted' - Len(queue') + i
         /\ headSeq' = queue'[1]
<1>1. accepted \in Nat /\ enqueuedSeq = accepted
  BY DEF SeqInv, TypeOK, BufferType, SeqAccounting
<1>2. /\ queue' = Append(q, accepted + 1)
      /\ accepted' = accepted + 1
      /\ enqueuedSeq' = accepted + 1
      /\ headSeq' = IF q = <<>> THEN accepted + 1 ELSE h
  BY <1>1 DEF Enqueue
<1>3. /\ Len(q) \in Nat
      /\ Len(queue') = Len(q) + 1
      /\ \A i \in 1..Len(q) : queue'[i] = q[i]
      /\ queue'[Len(q) + 1] = accepted + 1
  BY <1>1, <1>2, AppendFacts
<1>4. \A i \in 1..Len(queue') : queue'[i] = accepted' - Len(queue') + i
  BY <1>1, <1>2, <1>3
<1>5. headSeq' = queue'[1]
  <2>1. CASE q = <<>>
    BY <2>1, <1>2, <1>3, EmptySeq
  <2>2. CASE q # <<>>
    <3>1. Len(q) \in Nat \ {0}
      BY <2>2, EmptySeq
    <3> QED BY <2>2, <3>1, <1>2, <1>3
  <2> QED BY <2>1, <2>2
<1> QED BY <1>2, <1>4, <1>5

LEMMA SeqStep == SeqInv /\ [Next]_vars => SeqAccounting'
<1> SUFFICES ASSUME SeqInv, [Next]_vars PROVE SeqAccounting'
  OBVIOUS
<1>1. ASSUME NEW w \in Writers, Admit(w) PROVE SeqAccounting'
  <2>1. /\ queue \in Seq(Nat \ {0})
        /\ \A i \in 1..Len(queue) : queue[i] = accepted - Len(queue) + i
        /\ queue # <<>> => headSeq = queue[1]
    BY DEF SeqInv, TypeOK, BufferType, SeqAccounting
  <2>2. Enqueue(queue, headSeq) /\ UNCHANGED workerVars
    BY <1>1 DEF Admit
  <2>3. /\ enqueuedSeq' = accepted'
        /\ \A i \in 1..Len(queue') : queue'[i] = accepted' - Len(queue') + i
        /\ headSeq' = queue'[1]
    BY <2>1, <2>2, EnqueueInterval
  <2> QED BY <2>2, <2>3 DEF SeqInv, SeqAccounting
<1>2. ASSUME NEW w \in Writers, WriteDropOldest(w) PROVE SeqAccounting'
  <2>1. queue # <<>>
    BY <1>2, FullIsNotEmpty DEF WriteDropOldest, SeqInv, TypeOK
  <2>2. /\ Tail(queue) \in Seq(Nat \ {0})
        /\ Len(queue) \in 1..accepted
        /\ Len(Tail(queue)) = Len(queue) - 1
        /\ \A i \in 1..Len(queue) - 1 :
              Tail(queue)[i] = accepted - Len(queue) + 1 + i
        /\ Tail(queue) # <<>> => headSeq + 1 = Tail(queue)[1]
        /\ accepted \in Nat
    BY <2>1, HeadIsNext DEF SeqInv, TypeOK, BufferType
  <2>3. \A i \in 1..Len(Tail(queue)) :
           Tail(queue)[i] = accepted - Len(Tail(queue)) + i
    BY <2>2
  <2>4. Enqueue(Tail(queue), headSeq + 1) /\ UNCHANGED workerVars
    BY <1>2 DEF WriteDropOldest
  <2>5. /\ enqueuedSeq' = accepted'
        /\ \A i \in 1..Len(queue') : queue'[i] = accepted' - Len(queue') + i
        /\ headSeq' = queue'[1]
    BY <2>2, <2>3, <2>4, EnqueueInterval
  <2> QED BY <2>4, <2>5 DEF SeqInv, SeqAccounting
<1>3. CASE WorkerTake
  <2>1. /\ Len(queue) \in 1..accepted
        /\ Head(queue) = headSeq
        /\ Len(Tail(queue)) = Len(queue) - 1
        /\ \A i \in 1..Len(queue) - 1 :
              Tail(queue)[i] = accepted - Len(queue) + 1 + i
        /\ Tail(queue) # <<>> => headSeq + 1 = Tail(queue)[1]
        /\ headSeq # 0
        /\ accepted \in Nat
    BY <1>3, HeadIsNext DEF WorkerTake, SeqInv, TypeOK, BufferType
  <2>2. \A i \in 1..Len(queue') : queue'[i] = accepted' - Len(queue') + i
    BY <1>3, <2>1 DEF WorkerTake
  <2>3. queue' # <<>> => headSeq' = queue'[1]
    BY <1>3, <2>1 DEF WorkerTake
  <2> QED BY <1>3, <2>1, <2>2, <2>3 DEF WorkerTake, SeqInv, SeqAccounting
<1>4. CASE WorkerWrite
  BY <1>4 DEF WorkerWrite, SeqInv, SeqAccounting
<1>5. CASE WorkerResolve
  BY <1>5 DEF WorkerResolve, SeqInv, SeqAccounting
<1>6. CASE /\ UNCHANGED <<bufferVars, inHand, inFlightSeq>>
           /\ \/ workerPc' = workerPc
              \/ workerPc = "notifying" /\ workerPc' = "idle"
              \/ workerPc = "idle" /\ workerPc' = "exited"
  BY <1>6 DEF SeqInv, SeqAccounting
<1> QED BY <1>1, <1>2, <1>3, <1>4, <1>5, <1>6, BufferFrames

LEMMA SeqInvInit == Init => SeqInv
BY TypeInit, SeqInit DEF SeqInv

LEMMA SeqInvStep == SeqInv /\ [Next]_vars => SeqInv'
BY TypeStep, SeqStep DEF SeqInv

\* The claim of output/async.go:127-131 about the sequences of the buffer.
THEOREM SequencesAgree == Spec => []SeqAccounting
<1>1. Init => SeqInv
  BY SeqInvInit
<1>2. SeqInv /\ [Next]_vars => SeqInv'
  BY SeqInvStep
<1>3. SeqInv => SeqAccounting
  BY DEF SeqInv
<1> QED BY <1>1, <1>2, <1>3, PTL DEF Spec

----------------------------------------------------------------------------
(* Every accepted message has one fate.                                    *)

\* The messages that are no longer in the buffer.
Left == 1..accepted - Len(queue)

FateParts ==
    /\ written \cup lost \cup Held = Left
    /\ written \cap lost = {}
    /\ Held \cap lost = {}
    /\ workerPc = "writing" => inHand \notin written
    /\ workerPc \in {"written", "failed"} => inHand \in written

FateInv == SeqInv /\ FateParts

LEMMA FateInit == Init => FateParts
<1> SUFFICES ASSUME Init PROVE FateParts
  OBVIOUS
<1>1. accepted = 0 /\ Len(queue) = 0
  BY EmptySeq DEF Init
<1> QED BY <1>1 DEF Init, FateParts, Held, Left

\* The head of the buffer is the first message after those that left it.
LEMMA HeadNotLeft ==
  ASSUME SeqInv, queue # <<>>
  PROVE  /\ Head(queue) = accepted - Len(queue) + 1
         /\ Head(queue) \in Nat \ {0}
         /\ Head(queue) \notin Left
         /\ 1..accepted - (Len(queue) - 1) = Left \cup {Head(queue)}
         /\ Len(Tail(queue)) = Len(queue) - 1
<1>1. /\ Head(queue) = accepted - Len(queue) + 1
      /\ Len(queue) \in 1..accepted
      /\ Len(Tail(queue)) = Len(queue) - 1
  BY HeadIsNext
<1>2. accepted \in Nat
  BY DEF SeqInv, TypeOK, BufferType
<1> QED BY <1>1, <1>2 DEF Left

LEMMA FateStep == FateInv /\ [Next]_vars => FateParts'
<1> SUFFICES ASSUME FateInv, [Next]_vars PROVE FateParts'
  OBVIOUS
<1>t. /\ SeqInv
      /\ queue \in Seq(Nat \ {0})
      /\ accepted \in Nat
      /\ inHand \in Nat
      /\ inHand # 0 <=> workerPc \in {"writing", "written", "failed"}
  BY DEF FateInv, SeqInv, TypeOK, BufferType, WorkerType, SeqAccounting
<1>1. ASSUME NEW w \in Writers, Admit(w) PROVE FateParts'
  <2>1. accepted' = accepted + 1 /\ Len(queue') = Len(queue) + 1
    BY <1>1, <1>t, AppendFacts DEF Admit, Enqueue
  <2>2. Left' = Left
    BY <2>1, <1>t, LenProperties DEF Left
  <2>3. UNCHANGED <<workerVars, written, lost>>
    BY <1>1 DEF Admit
  <2> QED BY <2>2, <2>3 DEF FateInv, FateParts, Held
<1>2. ASSUME NEW w \in Writers, WriteDropOldest(w) PROVE FateParts'
  <2>1. queue # <<>>
    BY <1>2, FullIsNotEmpty DEF WriteDropOldest, FateInv, SeqInv, TypeOK
  <2>2. /\ Head(queue) \notin Left
        /\ 1..accepted - (Len(queue) - 1) = Left \cup {Head(queue)}
        /\ Len(Tail(queue)) = Len(queue) - 1
        /\ Tail(queue) \in Seq(Nat \ {0})
        /\ Len(queue) \in Nat
    BY <2>1, <1>t, HeadNotLeft, HeadIsNext, LenProperties
  <2>3. accepted' = accepted + 1 /\ Len(queue') = Len(queue)
    BY <1>2, <2>2, <1>t, AppendFacts DEF WriteDropOldest, Enqueue
  <2>4. Left' = Left \cup {Head(queue)}
    BY <2>2, <2>3, <1>t DEF Left
  <2>5. UNCHANGED <<workerVars, written>> /\ lost' = lost \cup {Head(queue)}
    BY <1>2 DEF WriteDropOldest
  <2> QED BY <2>2, <2>4, <2>5 DEF FateInv, FateParts, Held
<1>3. CASE WorkerTake
  <2>1. /\ Head(queue) \notin Left
        /\ Head(queue) # 0
        /\ 1..accepted - (Len(queue) - 1) = Left \cup {Head(queue)}
        /\ Len(Tail(queue)) = Len(queue) - 1
    BY <1>3, <1>t, HeadNotLeft DEF WorkerTake
  <2>2. Left' = Left \cup {Head(queue)}
    BY <1>3, <2>1 DEF WorkerTake, Left
  <2>3. Held = {} /\ Held' = {Head(queue)}
    BY <1>3, <1>t, <2>1 DEF WorkerTake, Held
  <2> QED BY <1>3, <2>1, <2>2, <2>3 DEF WorkerTake, FateInv, FateParts
<1>4. CASE WorkerWrite
  <2>1. Held = {inHand} /\ Held' = Held /\ Left' = Left
    BY <1>4, <1>t DEF WorkerWrite, Held, Left
  <2> QED BY <1>4, <2>1 DEF WorkerWrite, FateInv, FateParts
<1>5. CASE WorkerResolve
  <2>1. Held = {inHand} /\ Held' = {} /\ Left' = Left
    BY <1>5, <1>t DEF WorkerResolve, Held, Left
  <2> QED BY <1>5, <2>1 DEF WorkerResolve, FateInv, FateParts
<1>6. CASE /\ UNCHANGED <<bufferVars, inHand, inFlightSeq, written, lost>>
           /\ \/ workerPc' = workerPc
              \/ workerPc = "notifying" /\ workerPc' = "idle"
              \/ workerPc = "idle" /\ workerPc' = "exited"
  BY <1>6 DEF FateInv, FateParts, Held, Left
<1> QED BY <1>1, <1>2, <1>3, <1>4, <1>5, <1>6, BufferFrames

LEMMA FateInvInit == Init => FateInv
BY SeqInvInit, FateInit DEF FateInv

LEMMA FateInvStep == FateInv /\ [Next]_vars => FateInv'
BY SeqInvStep, FateStep DEF FateInv

LEMMA FateInvImplies == FateInv => OneFateEach
<1> SUFFICES ASSUME FateInv PROVE OneFateEach
  OBVIOUS
<1>1. /\ queue \in Seq(Nat \ {0})
      /\ accepted \in Nat
      /\ \A i \in 1..Len(queue) : queue[i] = accepted - Len(queue) + i
      /\ Len(queue) \in Nat
      /\ Len(queue) <= accepted
  <2>1. queue # <<>> => Len(queue) \in 1..accepted
    BY HeadIsNext DEF FateInv
  <2>2. /\ queue \in Seq(Nat \ {0})
        /\ accepted \in Nat
        /\ \A i \in 1..Len(queue) : queue[i] = accepted - Len(queue) + i
    BY DEF FateInv, SeqInv, TypeOK, BufferType, SeqAccounting
  <2> QED BY <2>1, <2>2, EmptySeq, LenProperties
<1>2. Queued = (accepted - Len(queue) + 1)..accepted
  <2>1. ASSUME NEW n \in Queued
        PROVE n \in (accepted - Len(queue) + 1)..accepted
    BY <2>1, <1>1 DEF Queued
  <2>2. ASSUME NEW n \in (accepted - Len(queue) + 1)..accepted
        PROVE n \in Queued
    <3>1. n - (accepted - Len(queue)) \in 1..Len(queue)
      BY <1>1
    <3>2. queue[n - (accepted - Len(queue))] = n
      BY <3>1, <1>1
    <3> QED BY <3>1, <3>2 DEF Queued
  <2> QED BY <2>1, <2>2
<1>3. Left \cup Queued = 1..accepted /\ Left \cap Queued = {}
  BY <1>1, <1>2 DEF Left
<1> QED BY <1>3 DEF FateInv, FateParts, OneFateEach

\* No accepted message is forgotten, dropped after it was written, or written
\* twice: dequeueLocked and its two callers (output/async.go:179-197, 311-324,
\* 398-431).
THEOREM NothingForgotten == Spec => []OneFateEach
BY FateInvInit, FateInvStep, FateInvImplies, PTL DEF Spec

\* Both together: the bookkeeping that Flush relies on is true of the messages
\* (output/async.go:127-131).
THEOREM AccountsAreTrue == Spec => []Accounted
<1>1. SeqAccounting /\ OneFateEach => Accounted
  BY DEF Accounted
<1> QED BY <1>1, SequencesAgree, NothingForgotten, PTL

----------------------------------------------------------------------------
(* What a Flush waits for.                                                 *)

\* minUnresolvedSeqLocked returns what its comment says (output/async.go:
\* 326-329): everything below it is resolved, and it is not, if it exists.
LEMMA MinUnresolvedIsLeast ==
  ASSUME FateInv
  PROVE  /\ MinUnresolvedSeq \in Nat \ {0}
         /\ \A n \in 1..MinUnresolvedSeq - 1 : n \in Resolved
         /\ MinUnresolvedSeq <= accepted => MinUnresolvedSeq \notin Resolved
<1>t. /\ SeqInv
      /\ queue \in Seq(Nat \ {0})
      /\ accepted \in Nat
      /\ inHand \in Nat
      /\ enqueuedSeq = accepted
      /\ inFlightSeq = inHand
      /\ written \cup lost \cup Held = Left
      /\ Len(queue) \in Nat
  BY LenProperties
  DEF FateInv, FateParts, SeqInv, TypeOK, BufferType, WorkerType,
      SeqAccounting
<1>1. CASE inFlightSeq # 0
  <2>1. MinUnresolvedSeq = inHand /\ Held = {inHand}
    BY <1>1, <1>t DEF MinUnresolvedSeq, Held
  <2>2. inHand \in Left
    BY <2>1, <1>t
  <2>3. ASSUME NEW n \in 1..inHand - 1 PROVE n \in Resolved
    <3>1. n \in Left /\ n # inHand
      BY <1>t, <2>2 DEF Left
    <3> QED BY <3>1, <2>1, <1>t DEF Resolved
  <2> QED BY <1>1, <1>t, <2>1, <2>3 DEF Resolved
<1>2. CASE inFlightSeq = 0 /\ queue # <<>>
  <2>1. MinUnresolvedSeq = headSeq /\ Held = {}
    BY <1>2, <1>t DEF MinUnresolvedSeq, Held
  <2>2. /\ headSeq = accepted - Len(queue) + 1
        /\ Len(queue) \in 1..accepted
    BY <1>2, <1>t, HeadIsNext
  <2>3. 1..headSeq - 1 = Left /\ headSeq \notin Left /\ headSeq \in Nat \ {0}
    BY <2>2, <1>t DEF Left
  <2> QED BY <2>1, <2>3, <1>t DEF Resolved
<1>3. CASE inFlightSeq = 0 /\ queue = <<>>
  <2>1. MinUnresolvedSeq = accepted + 1 /\ Held = {}
    BY <1>3, <1>t DEF MinUnresolvedSeq, Held
  <2>2. Len(queue) = 0
    BY <1>3, EmptySeq
  <2>3. Left = 1..accepted
    BY <2>2, <1>t DEF Left
  <2> QED BY <2>1, <2>3, <1>t DEF Resolved
<1> QED BY <1>1, <1>2, <1>3

\* A resolved message stays resolved.
LEMMA ResolvedStays ==
  ASSUME FateInv, [Next]_vars
  PROVE  /\ Resolved \subseteq Resolved'
         /\ accepted \in Nat /\ accepted' \in Nat /\ accepted <= accepted'
<1>t. /\ SeqInv
      /\ accepted \in Nat
      /\ written \cup lost \cup Held = Left
      /\ inHand # 0 <=> workerPc \in {"writing", "written", "failed"}
  BY DEF FateInv, FateParts, SeqInv, TypeOK, BufferType, SeqAccounting
<1>1. ASSUME NEW w \in Writers, Admit(w) \/ WriteDropOldest(w)
      PROVE  /\ Resolved \subseteq Resolved'
             /\ accepted' = accepted + 1
  BY <1>1 DEF Admit, WriteDropOldest, Enqueue, Resolved, Held
<1>2. CASE WorkerTake
  <2>1. Head(queue) \notin Left /\ UNCHANGED <<written, lost, accepted>>
    BY <1>2, <1>t, HeadNotLeft DEF WorkerTake
  <2>2. Held' \subseteq {Head(queue)}
    BY <1>2 DEF WorkerTake, Held
  <2> QED BY <2>1, <2>2, <1>t DEF Resolved
<1>3. CASE WorkerWrite
  BY <1>3, <1>t DEF WorkerWrite, Resolved, Held
<1>4. CASE WorkerResolve
  BY <1>4, <1>t DEF WorkerResolve, Resolved, Held
<1>5. CASE UNCHANGED <<bufferVars, inHand, inFlightSeq, written, lost>>
  BY <1>5, <1>t DEF Resolved, Held
<1> QED BY <1>t, <1>1, <1>2, <1>3, <1>4, <1>5, BufferFrames

Past == {"flushing", "flushed", "failed", "skipped"}

\* A Flush waits for the messages of its snapshot, no more and no fewer.
FlushParts ==
    /\ \A f \in Flushers : target[f] = snapshot[f]
    /\ \A f \in Flushers : snapshot[f] <= accepted
    /\ FlushGuarantee

FlushInv == FateInv /\ FlushParts

LEMMA FlushStepOK == FlushInv /\ [Next]_vars => FlushParts'
<1> SUFFICES ASSUME FlushInv, [Next]_vars PROVE FlushParts'
  OBVIOUS
<1>t. /\ FateInv
      /\ flushPc \in [Flushers -> {"idle", "waiting", "flushing", "flushed",
                                   "failed", "skipped"}]
      /\ target \in [Flushers -> Nat]
      /\ snapshot \in [Flushers -> Nat]
      /\ enqueuedSeq = accepted
  BY DEF FlushInv, FateInv, SeqInv, TypeOK, FlushType, SeqAccounting
<1>r. /\ Resolved \subseteq Resolved'
      /\ accepted \in Nat /\ accepted' \in Nat /\ accepted <= accepted'
  BY <1>t, ResolvedStays
<1>m. ASSUME NEW t \in Nat, ~FlushMustWait(t) PROVE 1..t \subseteq Resolved
  <2>1. MinUnresolvedSeq \in Nat /\ t < MinUnresolvedSeq
    BY <1>m, <1>t, MinUnresolvedIsLeast DEF FlushMustWait
  <2>2. \A n \in 1..MinUnresolvedSeq - 1 : n \in Resolved
    BY <1>t, MinUnresolvedIsLeast
  <2> QED BY <2>1, <2>2
<1>1. ASSUME NEW f \in Flushers, FlushCall(f) PROVE FlushParts'
  <2>1. /\ target' = [target EXCEPT ![f] = accepted]
        /\ snapshot' = [snapshot EXCEPT ![f] = accepted]
        /\ accepted' = accepted
        /\ Resolved' = Resolved
    BY <1>1, <1>t DEF FlushCall, Resolved, Held
  <2>2. \A g \in Flushers \ {f} : flushPc'[g] = flushPc[g]
    BY <1>1, <1>t DEF FlushCall, FlushProceed
  <2>3. CASE FlushMustWait(accepted)
    <3>1. flushPc'[f] = "waiting"
      BY <1>1, <1>t, <2>3 DEF FlushCall
    <3> QED BY <3>1, <2>1, <2>2, <1>t, <1>r
            DEF FlushInv, FlushParts, FlushGuarantee
  <2>4. CASE ~FlushMustWait(accepted)
    <3>1. 1..accepted \subseteq Resolved
      BY <1>m, <1>r, <2>4
    <3> QED BY <3>1, <2>1, <2>2, <1>t, <1>r
            DEF FlushInv, FlushParts, FlushGuarantee
  <2> QED BY <2>3, <2>4
<1>2. ASSUME NEW f \in Flushers, FlushResume(f) PROVE FlushParts'
  <2>1. /\ UNCHANGED <<target, snapshot, accepted>>
        /\ Resolved' = Resolved
        /\ \A g \in Flushers \ {f} : flushPc'[g] = flushPc[g]
    BY <1>2, <1>t DEF FlushResume, FlushProceed, Resolved, Held
  <2>2. 1..snapshot[f] \subseteq Resolved
    BY <1>2, <1>m, <1>t DEF FlushResume, FlushInv, FlushParts
  <2> QED BY <2>1, <2>2, <1>t DEF FlushInv, FlushParts, FlushGuarantee
<1>3. ASSUME NEW f \in Flushers, FlushInner(f) PROVE FlushParts'
  BY <1>3, <1>t DEF FlushInner, FlushInv, FlushParts, FlushGuarantee,
                    Resolved, Held
<1>4. CASE UNCHANGED flushVars
  BY <1>4, <1>t, <1>r DEF FlushInv, FlushParts, FlushGuarantee
<1> QED BY <1>1, <1>2, <1>3, <1>4, Frames
        DEF Next, FlushStep, FlushWaitAgain

LEMMA FlushInvInit == Init => FlushInv
<1> SUFFICES ASSUME Init PROVE FlushInv
  OBVIOUS
<1>1. FateInv
  BY FateInvInit
<1>2. FlushParts
  BY DEF Init, FlushParts, FlushGuarantee
<1> QED BY <1>1, <1>2 DEF FlushInv

LEMMA FlushInvStep == FlushInv /\ [Next]_vars => FlushInv'
BY FateInvStep, FlushStepOK DEF FlushInv

\* Flush's snapshot guarantee (output/async.go:220-225): whatever the policy,
\* and whoever writes meanwhile, past its wait everything accepted before the
\* call has been written or dropped.
THEOREM FlushKeepsItsWord == Spec => []FlushGuarantee
<1>1. FlushInv => FlushGuarantee
  BY DEF FlushInv, FlushParts
<1> QED BY <1>1, FlushInvInit, FlushInvStep, PTL DEF Spec

----------------------------------------------------------------------------
(* Nobody sleeps through the event it waits for.                           *)

\* A parked goroutine is where cond.Wait is called.
WaitPlaces ==
    /\ \A w \in Writers \cap waiting : writerPc[w] = "blocked"
    /\ \A f \in Flushers \cap waiting : flushPc[f] = "waiting"
    /\ Worker \in waiting => workerPc = "idle"

WakeInv == FlushInv /\ WaitPlaces /\ NoLostWakeup

LEMMA WakeStep == WakeInv /\ [Next]_vars => WaitPlaces' /\ NoLostWakeup'
<1> SUFFICES ASSUME WakeInv, [Next]_vars
             PROVE  WaitPlaces' /\ NoLostWakeup'
  OBVIOUS
<1> DEFINE Goal == WaitPlaces' /\ NoLostWakeup'
<1>t. /\ FateInv
      /\ BufferType
      /\ waiting \subseteq Writers \cup Flushers \cup {Worker}
      /\ writerPc \in [Writers -> {"idle", "blocked", "notifying", "refused"}]
      /\ flushPc \in [Flushers -> {"idle", "waiting", "flushing", "flushed",
                                   "failed", "skipped"}]
      /\ snapshot \in [Flushers -> Nat]
      /\ target \in [Flushers -> Nat]
      /\ \A f \in Flushers : target[f] = snapshot[f]
      /\ enqueuedSeq = accepted
      /\ inHand # 0 <=> workerPc \in {"writing", "written", "failed"}
  BY DEF WakeInv, FlushInv, FlushParts, FateInv, SeqInv, SeqAccounting,
         TypeOK, FlushType, WriterType, SharedType
<1>m. ASSUME NEW t \in Nat, FlushMustWait(t), t <= accepted
      PROVE  \E n \in 1..t : n \notin Resolved
  <2>1. MinUnresolvedSeq \in 1..t /\ MinUnresolvedSeq \notin Resolved
    BY <1>m, <1>t, MinUnresolvedIsLeast DEF FlushMustWait, BufferType
  <2> QED BY <2>1
\* A broadcast leaves nobody to worry about.
<1>b. CASE Broadcast
  BY <1>b DEF Broadcast, WaitPlaces, NoLostWakeup
<1>1. ASSUME NEW w \in Writers, WriteStep(w), ~Broadcast PROVE Goal
  <2>1. UNCHANGED <<queue, closed, workerVars, flushVars>> /\ Resolved' = Resolved
    <3>1. UNCHANGED <<queue, lost>>
      BY <1>1 DEF WriteStep, WriteRefused, WriteEnqueue, WriteDropNewest,
                  WriteDropOldest, WriteBlock, WriteBlockAgain,
                  WriteResumeRefused, WriteResumeEnqueue, NotifyDrop, Refuse,
                  Admit
    <3>2. UNCHANGED writersKeep
      BY <1>1, Frames
    <3> QED BY <3>1, <3>2 DEF Resolved, Held
  <2>2. CASE WriteBlock(w) \/ WriteBlockAgain(w)
    <3>1. waiting' = waiting \cup {w} /\ Full /\ ~closed
      BY <2>2 DEF WriteBlock, WriteBlockAgain, WriterMustWait
    <3>2. Len(queue) = Capacity
      BY <3>1, <1>t, CapacityAssumption, LenProperties DEF Full, BufferType
    <3>3. /\ writerPc'[w] = "blocked"
          /\ \A v \in Writers \ {w} : writerPc'[v] = writerPc[v]
      BY <2>2, <1>t DEF WriteBlock, WriteBlockAgain, Woken
    <3> QED BY <2>1, <3>1, <3>2, <3>3, <1>t, ThreadsAssumption
            DEF WakeInv, WaitPlaces, NoLostWakeup
  <2>3. CASE ~(WriteBlock(w) \/ WriteBlockAgain(w))
    <3>1. /\ waiting' = waiting
          /\ \A v \in Writers : writerPc[v] = "blocked" /\ v \in waiting
                                   => writerPc'[v] = "blocked"
      BY <1>1, <2>3, <1>t
      DEF WriteStep, WriteRefused, WriteEnqueue, WriteDropNewest,
          WriteDropOldest, WriteResumeRefused, WriteResumeEnqueue, NotifyDrop,
          Refuse, Admit, CanCall, Woken, Broadcast
    <3> QED BY <2>1, <3>1 DEF WakeInv, WaitPlaces, NoLostWakeup
  <2> QED BY <2>2, <2>3
<1>2. ASSUME WorkerStep, ~Broadcast PROVE Goal
  <2>1. CASE WorkerWait
    BY <2>1, <1>t, ThreadsAssumption
    DEF WorkerWait, WorkerMustWait, WakeInv, WaitPlaces, NoLostWakeup,
        Resolved, Held
  <2>2. CASE WorkerWrite
    BY <2>2, <1>t
    DEF WorkerWrite, WakeInv, WaitPlaces, NoLostWakeup, Resolved, Held
  <2>3. CASE WorkerNotify \/ WorkerExit
    BY <2>3, <1>t DEF WorkerNotify, WorkerExit, WakeInv, WaitPlaces,
                      NoLostWakeup, Resolved, Held
  <2> QED BY <1>2, <2>1, <2>2, <2>3 DEF WorkerStep, WorkerTake, WorkerResolve
<1>3. ASSUME NEW f \in Flushers, FlushStep(f) PROVE Goal
  <2>1. UNCHANGED <<queue, closed, workerPc, writerPc>> /\ Resolved' = Resolved
    <3>1. UNCHANGED flushersKeep
      BY <1>3, Frames
    <3> QED BY <3>1 DEF Resolved, Held
  <2>2. CASE \/ FlushCall(f) /\ FlushMustWait(enqueuedSeq)
             \/ FlushWaitAgain(f)
    <3>1. /\ waiting' = waiting \cup {f}
          /\ flushPc'[f] = "waiting"
          /\ \A g \in Flushers \ {f} : /\ flushPc'[g] = flushPc[g]
                                       /\ snapshot'[g] = snapshot[g]
      BY <2>2, <1>t DEF FlushCall, FlushWaitAgain
    <3>2. \E n \in 1..snapshot'[f] : n \notin Resolved
      <4>1. CASE FlushCall(f) /\ FlushMustWait(enqueuedSeq)
        <5>1. snapshot'[f] = accepted
          BY <4>1, <1>t DEF FlushCall
        <5> QED BY <4>1, <5>1, <1>m, <1>t DEF BufferType
      <4>2. CASE FlushWaitAgain(f)
        <5>1. /\ snapshot'[f] = snapshot[f]
              /\ FlushMustWait(snapshot[f])
              /\ snapshot[f] <= accepted
          BY <4>2, <1>t DEF FlushWaitAgain, WakeInv, FlushInv, FlushParts
        <5> QED BY <5>1, <1>m, <1>t
      <4> QED BY <2>2, <4>1, <4>2
    <3> QED BY <2>1, <3>1, <3>2, <1>t, ThreadsAssumption
            DEF WakeInv, WaitPlaces, NoLostWakeup
  <2>3. CASE \/ FlushCall(f) /\ ~FlushMustWait(enqueuedSeq)
             \/ FlushResume(f) \/ FlushInner(f)
    <3>1. waiting' = waiting /\ f \notin waiting
      BY <2>3, <1>t DEF FlushCall, FlushResume, FlushInner, NoBroadcast,
                        WakeInv, WaitPlaces
    <3>2. \A g \in Flushers \ {f} : /\ flushPc'[g] = flushPc[g]
                                    /\ snapshot'[g] = snapshot[g]
      BY <2>3, <1>t DEF FlushCall, FlushResume, FlushInner, FlushProceed
    <3> QED BY <2>1, <3>1, <3>2, <1>t DEF WakeInv, WaitPlaces, NoLostWakeup
  <2> QED BY <1>3, <2>2, <2>3 DEF FlushStep
<1>4. CASE FlusherStep
  <2>1. UNCHANGED tickerKeeps
    BY <1>4, Frames
  <2> QED BY <2>1 DEF WakeInv, WaitPlaces, NoLostWakeup, Resolved, Held
<1>5. ASSUME NEW c \in Closers, CloseAnyStep(c), ~Broadcast PROVE Goal
  <2>1. UNCHANGED <<closersKeep, closed, waiting>>
    BY <1>5, Frames
    DEF CloseAnyStep, CloseBegin, CloseRepeat, CloseRepeatReturn,
        CloseStopFlusher, CloseJoinFlusher, CloseJoinWorker, CloseFlushInner,
        CloseInner
  <2> QED BY <2>1 DEF WakeInv, WaitPlaces, NoLostWakeup, Resolved, Held
<1>6. CASE UNCHANGED vars
  BY <1>6 DEF WakeInv, WaitPlaces, NoLostWakeup, Resolved, Held
<1> QED BY <1>b, <1>1, <1>2, <1>3, <1>4, <1>5, <1>6 DEF Next

LEMMA WakeInvInit == Init => WakeInv
<1> SUFFICES ASSUME Init PROVE WakeInv
  OBVIOUS
<1>1. FlushInv
  BY FlushInvInit
<1>2. WaitPlaces /\ NoLostWakeup
  BY DEF Init, WaitPlaces, NoLostWakeup
<1> QED BY <1>1, <1>2 DEF WakeInv

LEMMA WakeInvStep == WakeInv /\ [Next]_vars => WakeInv'
BY FlushInvStep, WakeStep DEF WakeInv

\* No change of the buffer, of the message in flight or of the closed flag
\* leaves a goroutine asleep that it concerns (the Broadcasts of
\* output/async.go:189, 213, 266, 421 and 428).
THEOREM NobodyOversleeps == Spec => []NoLostWakeup
<1>1. WakeInv => NoLostWakeup
  BY DEF WakeInv
<1> QED BY <1>1, WakeInvInit, WakeInvStep, PTL DEF Spec

----------------------------------------------------------------------------
(* Close.                                                                  *)

\* The phases of the one call that runs the body of the Once.
Active == {"stopping", "joining", "draining", "flushing", "closing",
           "closingAfterError"}

AfterFlusher == {"draining", "flushing", "closing", "closingAfterError"}

AfterWorker == {"flushing", "closing", "closingAfterError"}

CloseParts ==
    /\ closed <=> closeOnce # "new"
    /\ \A c \in Closers : closePc[c] \in Active => closeOnce = "running"
    /\ \A c, d \in Closers :
          closePc[c] \in Active /\ closePc[d] \in Active => c = d
    /\ \A c \in Closers :
          closePc[c] \in AfterFlusher => flusherPc \in {"none", "exited"}
    /\ \A c \in Closers : closePc[c] \in AfterWorker => workerPc = "exited"
    /\ innerCloses = IF closeOnce = "done" THEN 1 ELSE 0
    /\ closeOnce = "done" => /\ workerPc = "exited"
                             /\ flusherPc \in {"none", "exited"}
    /\ \A c \in Closers :
          closePc[c] \in {"returned", "panicked"} => closeOnce = "done"
    /\ workerPc = "exited" => closed /\ queue = <<>>

CloseInv == FateInv /\ CloseParts

LEMMA CloseStepOK == CloseInv /\ [Next]_vars => CloseParts'
<1> SUFFICES ASSUME CloseInv, [Next]_vars PROVE CloseParts'
  OBVIOUS
<1>t. /\ BufferType
      /\ closePc \in [Closers -> {"idle", "stopping", "joining", "draining",
                                  "flushing", "closing", "closingAfterError",
                                  "onceWait", "returned", "panicked"}]
      /\ closeOnce \in {"new", "running", "done"}
  BY DEF CloseInv, FateInv, SeqInv, TypeOK, CloseType
<1> USE DEF CloseInv, CloseParts
<1>1. ASSUME NEW w \in Writers, WriteStep(w) PROVE CloseParts'
  <2>1. UNCHANGED writersKeep
    BY <1>1, Frames
  <2>2. closed => UNCHANGED queue
    BY <1>1 DEF WriteStep, WriteRefused, WriteEnqueue, WriteDropNewest,
                WriteDropOldest, WriteBlock, WriteBlockAgain,
                WriteResumeRefused, WriteResumeEnqueue, NotifyDrop, Refuse,
                Admit
  <2> QED BY <2>1, <2>2
<1>2. CASE WorkerStep
  <2>1. UNCHANGED workerKeeps
    BY <1>2, Frames
  <2>2. /\ workerPc # "exited"
        /\ workerPc' = "exited" => closed /\ queue = <<>> /\ queue' = <<>>
    BY <1>2 DEF WorkerStep, WorkerWait, WorkerTake, WorkerWrite,
                WorkerResolve, WorkerNotify, WorkerExit
  <2> QED BY <2>1, <2>2
<1>3. CASE FlusherStep
  <2>1. UNCHANGED tickerKeeps
    BY <1>3, Frames
  <2>2. flusherPc \notin {"none", "exited"}
    BY <1>3 DEF FlusherStep, FlusherTick, FlusherFlush, FlusherExit
  <2> QED BY <2>1, <2>2
<1>4. ASSUME NEW c \in Closers, CloseAnyStep(c) PROVE CloseParts'
  <2>k. UNCHANGED closersKeep
    BY <1>4, Frames
  <2>o. \A d \in Closers \ {c} : closePc'[d] = closePc[d]
    BY <1>4, <1>t
    DEF CloseAnyStep, CloseBegin, CloseRepeat, CloseRepeatReturn,
        CloseStopFlusher, CloseJoinFlusher, CloseJoinWorker, CloseFlushInner,
        CloseInner, CloseStep
  <2>1. CASE CloseBegin(c)
    <3>1. closePc'[c] = "stopping"
      BY <2>1, <1>t DEF CloseBegin
    <3> QED BY <2>1, <2>k, <2>o, <3>1, <1>t
            DEF CloseBegin, Active, AfterFlusher, AfterWorker
  <2>2. CASE CloseRepeat(c)
    <3>1. closePc'[c] = "onceWait"
      BY <2>2, <1>t DEF CloseRepeat
    <3> QED BY <2>2, <2>k, <2>o, <3>1, <1>t
            DEF CloseRepeat, Active, AfterFlusher, AfterWorker
  <2>3. CASE CloseRepeatReturn(c)
    <3>1. closePc'[c] = "returned"
      BY <2>3, <1>t DEF CloseRepeatReturn, CloseStep
    <3> QED BY <2>3, <2>k, <2>o, <3>1, <1>t
            DEF CloseRepeatReturn, Active, AfterFlusher, AfterWorker
  <2>4. CASE CloseStopFlusher(c)
    <3>1. closePc[c] = "stopping" /\ closePc'[c] = "joining"
      BY <2>4, <1>t DEF CloseStopFlusher, CloseStep
    <3> QED BY <2>4, <2>k, <2>o, <3>1, <1>t
            DEF CloseStopFlusher, Active, AfterFlusher, AfterWorker
  <2>5. CASE CloseJoinFlusher(c)
    <3>1. closePc[c] = "joining" /\ closePc'[c] = "draining"
      BY <2>5, <1>t DEF CloseJoinFlusher, CloseStep
    <3> QED BY <2>5, <2>k, <2>o, <3>1, <1>t
            DEF CloseJoinFlusher, Active, AfterFlusher, AfterWorker
  <2>6. CASE CloseJoinWorker(c)
    <3>1. closePc[c] = "draining" /\ closePc'[c] = "flushing"
      BY <2>6, <1>t DEF CloseJoinWorker, CloseStep
    <3> QED BY <2>6, <2>k, <2>o, <3>1, <1>t
            DEF CloseJoinWorker, Active, AfterFlusher, AfterWorker
  <2>7. CASE CloseFlushInner(c)
    <3>1. /\ closePc[c] = "flushing"
          /\ closePc'[c] \in {"closing", "closingAfterError"}
      BY <2>7, <1>t DEF CloseFlushInner, CloseStep
    <3> QED BY <2>7, <2>k, <2>o, <3>1, <1>t
            DEF CloseFlushInner, Active, AfterFlusher, AfterWorker
  <2>8. CASE CloseInner(c)
    <3>1. /\ closePc[c] \in {"closing", "closingAfterError"}
          /\ closePc'[c] \in {"returned", "panicked"}
      BY <2>8, <1>t DEF CloseInner
    <3>2. closeOnce = "running" /\ workerPc = "exited"
      BY <3>1 DEF Active, AfterWorker
    <3>3. \A d \in Closers \ {c} : closePc[d] \notin Active
      BY <3>1 DEF Active
    <3> QED BY <2>8, <2>k, <2>o, <3>1, <3>2, <3>3, <1>t
            DEF CloseInner, Active, AfterFlusher, AfterWorker
  <2> QED BY <1>4, <2>1, <2>2, <2>3, <2>4, <2>5, <2>6, <2>7, <2>8
          DEF CloseAnyStep
<1>5. ASSUME NEW f \in Flushers, FlushStep(f) PROVE CloseParts'
  BY <1>5, Frames
<1>6. CASE UNCHANGED vars
  BY <1>6
<1> QED BY <1>1, <1>2, <1>3, <1>4, <1>5, <1>6 DEF Next

LEMMA CloseInvInit == Init => CloseInv
<1> SUFFICES ASSUME Init PROVE CloseInv
  OBVIOUS
<1>1. FateInv
  BY FateInvInit
<1>2. CloseParts
  BY DEF Init, CloseParts, Active, AfterFlusher, AfterWorker
<1> QED BY <1>1, <1>2 DEF CloseInv

LEMMA CloseInvStep == CloseInv /\ [Next]_vars => CloseInv'
BY FateInvStep, CloseStepOK DEF CloseInv

LEMMA CloseInvImplies == CloseInv => CloseGuarantee
<1> SUFFICES ASSUME CloseInv PROVE CloseGuarantee
  OBVIOUS
<1>1. ASSUME innerCloses = 1 PROVE written \cup lost = 1..accepted
  <2>1. workerPc = "exited" /\ queue = <<>>
    BY <1>1 DEF CloseInv, CloseParts
  <2>2. inHand = 0 /\ accepted \in Nat
    BY <2>1 DEF CloseInv, FateInv, SeqInv, SeqAccounting, TypeOK, BufferType
  <2>3. Len(queue) = 0
    BY <2>1, EmptySeq
  <2> QED BY <2>2, <2>3 DEF CloseInv, FateInv, FateParts, Held, Left
<1> QED BY <1>1 DEF CloseInv, CloseParts, CloseGuarantee

\* Close closes the inner output once, after both goroutines are gone and every
\* accepted message has met its fate, and no call of Close returns before that
\* (output/async.go:253-290).
THEOREM CloseIsComplete == Spec => []CloseGuarantee
BY CloseInvInit, CloseInvStep, CloseInvImplies, PTL DEF Spec

----------------------------------------------------------------------------
(* Nobody waits in a circle.                                               *)

\* What the joins of Close rest on: somebody runs the Once as long as it is
\* running, and has told the interval flusher, if there is one, to stop.
LifeParts ==
    /\ closeOnce = "running" => InOnce # {}
    /\ \A c \in Closers : closePc[c] = "onceWait" => closeOnce # "new"
    /\ \A c \in Closers : closePc[c] = "joining" => flusherStop = interval
    /\ flusherPc # "none" => interval

LEMMA LifeStep == TypeOK /\ LifeParts /\ [Next]_vars => LifeParts'
<1> SUFFICES ASSUME TypeOK, LifeParts, [Next]_vars PROVE LifeParts'
  OBVIOUS
<1>t. /\ closePc \in [Closers -> {"idle", "stopping", "joining", "draining",
                                  "flushing", "closing", "closingAfterError",
                                  "onceWait", "returned", "panicked"}]
      /\ closeOnce \in {"new", "running", "done"}
  BY DEF TypeOK, CloseType
<1>1. CASE UNCHANGED <<closePc, closeOnce, flusherStop, flusherPc, interval>>
  BY <1>1 DEF LifeParts, InOnce
<1>2. CASE FlusherStep
  <2>1. UNCHANGED tickerKeeps /\ flusherPc # "none"
    BY <1>2, Frames DEF FlusherStep, FlusherTick, FlusherFlush, FlusherExit
  <2> QED BY <2>1 DEF LifeParts, InOnce
<1>3. ASSUME NEW c \in Closers, CloseAnyStep(c) PROVE LifeParts'
  <2>k. UNCHANGED <<interval, flusherPc>>
    BY <1>3, Frames
  <2>1. /\ closePc'[c] # "idle"
        /\ \A d \in Closers \ {c} : closePc'[d] = closePc[d]
    BY <1>3, <1>t
    DEF CloseAnyStep, CloseBegin, CloseRepeat, CloseRepeatReturn,
        CloseStopFlusher, CloseJoinFlusher, CloseJoinWorker, CloseFlushInner,
        CloseInner, CloseStep
  <2>2. CASE CloseBegin(c)
    <3>1. /\ closePc'[c] = "stopping" /\ closeOnce' = "running"
          /\ flusherStop' = flusherStop
      BY <2>2, <1>t DEF CloseBegin
    <3> QED BY <2>k, <2>1, <3>1 DEF LifeParts, InOnce
  <2>3. CASE CloseRepeat(c) \/ CloseRepeatReturn(c)
    <3>1. /\ closePc[c] \in {"idle", "returned", "onceWait"}
          /\ closePc'[c] \in {"returned", "onceWait"}
          /\ closeOnce # "new" \/ closePc'[c] = "returned"
          /\ closeOnce' = closeOnce /\ flusherStop' = flusherStop
      BY <2>3, <1>t DEF CloseRepeat, CloseRepeatReturn, CloseStep, CanClose
    <3> QED BY <2>k, <2>1, <3>1 DEF LifeParts, InOnce
  <2>4. CASE CloseStopFlusher(c)
    <3>1. /\ closePc'[c] = "joining" /\ closeOnce' = closeOnce
          /\ flusherStop' = interval
      BY <2>4, <1>t DEF CloseStopFlusher, CloseStep
    <3> QED BY <2>k, <2>1, <3>1 DEF LifeParts, InOnce
  <2>5. CASE CloseJoinFlusher(c) \/ CloseJoinWorker(c) \/ CloseFlushInner(c)
    <3>1. /\ closePc'[c] \in {"draining", "flushing", "closing", "closingAfterError"}
          /\ closeOnce' = closeOnce /\ flusherStop' = flusherStop
      BY <2>5, <1>t DEF CloseJoinFlusher, CloseJoinWorker, CloseFlushInner, CloseStep
    <3> QED BY <2>k, <2>1, <3>1 DEF LifeParts, InOnce
  <2>6. CASE CloseInner(c)
    <3>1. /\ closePc'[c] \in {"returned", "panicked"} /\ closeOnce' = "done"
          /\ flusherStop' = flusherStop
      BY <2>6, <1>t DEF CloseInner
    <3> QED BY <2>k, <2>1, <3>1 DEF LifeParts, InOnce
  <2> QED BY <1>3, <2>2, <2>3, <2>4, <2>5, <2>6 DEF CloseAnyStep
<1>4. ASSUME \/ \E w \in Writers : WriteStep(w)
             \/ \E f \in Flushers : FlushStep(f)
             \/ WorkerStep
             \/ UNCHANGED vars
      PROVE  UNCHANGED <<closePc, closeOnce, flusherStop, flusherPc, interval>>
  BY <1>4, Frames
<1> QED BY <1>1, <1>2, <1>3, <1>4 DEF Next

\* A message that is not resolved is in the buffer or in the worker's hand, and
\* there is a worker for it.
LEMMA WorkerIsThere ==
    ASSUME CloseInv, WakeInv, waiting \ {Worker} # {}
    PROVE  WorkerCanGo
<1>1. /\ waiting \subseteq Writers \cup Flushers \cup {Worker}
      /\ queue \in Seq(Nat \ {0}) /\ accepted \in Nat
      /\ workerPc = "exited" => closed /\ queue = <<>>
      /\ inHand # 0 <=> workerPc \in {"writing", "written", "failed"}
      /\ Worker \in waiting => workerPc = "idle" /\ queue = <<>> /\ ~closed
  BY DEF CloseInv, CloseParts, FateInv, SeqInv, SeqAccounting, TypeOK, SharedType,
         BufferType, WakeInv, WaitPlaces, NoLostWakeup
<1>2. CASE \E w \in Writers : w \in waiting
  <2>1. Len(queue) = Capacity /\ ~closed
    BY <1>2 DEF WakeInv, NoLostWakeup
  <2>2. queue # <<>>
    BY <2>1, EmptySeq, CapacityAssumption
  <2> QED BY <1>1, <2>1, <2>2 DEF WorkerCanGo
<1>3. CASE \E f \in Flushers : f \in waiting
  <2>1. PICK f \in Flushers : f \in waiting
    BY <1>3
  <2>2. PICK n \in 1..snapshot[f] : n \notin Resolved
    BY <2>1 DEF WakeInv, NoLostWakeup
  <2>3. n \in 1..accepted
    <3>1. snapshot[f] \in Nat /\ snapshot[f] <= accepted
      BY DEF WakeInv, FlushInv, FlushParts, FateInv, SeqInv, TypeOK, FlushType
    <3> QED BY <1>1, <2>2, <3>1
  <2>4. n \in Queued \/ n \in Held
    <3>1. written \cup lost \cup Queued \cup Held = 1..accepted
      BY FateInvImplies DEF CloseInv, OneFateEach
    <3> QED BY <2>2, <2>3, <3>1 DEF Resolved
  <2>5. queue # <<>> \/ inHand # 0
    BY <2>4, EmptySeq DEF Queued, Held
  <2> QED BY <1>1, <2>5 DEF WorkerCanGo
<1> QED BY <1>1, <1>2, <1>3

LEMMA NoCircle == CloseInv /\ WakeInv /\ LifeParts => NoCircularWait
<1> SUFFICES ASSUME CloseInv, WakeInv, LifeParts PROVE NoCircularWait
  OBVIOUS
<1>1. ASSUME NEW c \in InOnce
      PROVE  \/ CloserCanGo(c)
             \/ closePc[c] = "joining" /\ FlusherCanGo
             \/ closePc[c] = "draining" /\ WorkerCanGo
  <2>1. /\ c \in Closers
        /\ closePc[c] \in {"stopping", "joining", "draining", "flushing", "closing",
                           "closingAfterError"}
    BY DEF InOnce, CloseInv, FateInv, SeqInv, TypeOK, CloseType
  <2>2. CASE closePc[c] = "joining"
    <3>1. flusherPc \in {"none", "exited"} \/ flusherStop
      BY <2>1, <2>2 DEF LifeParts
    <3>2. flusherPc \in {"none", "ticking", "flushing", "exited"}
      BY DEF CloseInv, FateInv, SeqInv, TypeOK, SharedType
    <3> QED BY <2>2, <3>1, <3>2 DEF CloserCanGo, FlusherCanGo
  <2>3. CASE closePc[c] = "draining"
    <3>1. closed
      BY <2>1, <2>3 DEF CloseInv, CloseParts, Active
    <3> QED BY <2>3, <3>1 DEF CloserCanGo, WorkerCanGo, WakeInv, NoLostWakeup
  <2> QED BY <2>1, <2>2, <2>3 DEF CloserCanGo
<1>2. ASSUME NEW c \in Closers, closePc[c] = "onceWait"
      PROVE  closeOnce = "done" \/ InOnce # {}
  BY <1>2 DEF LifeParts, CloseInv, FateInv, SeqInv, TypeOK, CloseType
<1> QED BY <1>1, <1>2, WorkerIsThere DEF NoCircularWait

\* Who waits, waits for somebody who can go: on the condition variable for the
\* worker, in the joins of Close for the flusher or the worker, in the Once for
\* the call that runs it - for any number of goroutines, and under every policy.
THEOREM NobodyWaitsInACircle == Spec => []WaitsEnd
<1>1. Init => LifeParts
  BY DEF Init, LifeParts, InOnce
<1>2. CloseInv => TypeOK
  BY DEF CloseInv, FateInv, SeqInv
<1>3. CloseInv /\ WakeInv /\ LifeParts => WaitsEnd
  BY NoCircle DEF WaitsEnd, WakeInv
<1> QED BY <1>1, <1>2, <1>3, LifeStep, CloseInvInit, CloseInvStep, WakeInvInit, WakeInvStep,
           PTL DEF Spec

----------------------------------------------------------------------------
(* The outcome of Close.                                                   *)

\* What the call that runs the Once knows, and what the others are told.
OutcomeParts ==
    /\ \A c \in Closers : closePc[c] = "closing" => covered = written
    /\ \/ \E c \in Closers : closePc[c] = "panicked"
       \/ /\ closeOnce = "done" /\ closeErr = "nil" => covered = written
          /\ \A c \in Closers : closePc[c] = "returned" => closeResult[c] = closeErr

\* Nothing but the body of the Once changes its outcome, and no inner flush
\* makes what was covered less.
LEMMA OutcomeKept ==
  ASSUME OutcomeParts, UNCHANGED <<closePc, closeOnce, closeErr, closeResult>>,
         covered' = covered \/ covered' = written,
         written' = written \/ (/\ closeOnce # "done"
                                /\ \A c \in Closers : closePc[c] # "closing")
  PROVE  OutcomeParts'
BY DEF OutcomeParts

LEMMA OutcomeStep == CloseInv /\ OutcomeParts /\ [Next]_vars => OutcomeParts'
<1> SUFFICES ASSUME CloseInv, OutcomeParts, [Next]_vars PROVE OutcomeParts'
  OBVIOUS
<1>t. /\ closePc \in [Closers -> {"idle", "stopping", "joining", "draining",
                                  "flushing", "closing", "closingAfterError",
                                  "onceWait", "returned", "panicked"}]
      /\ closeResult \in [Closers -> {"none", "nil", "error"}]
  BY DEF CloseInv, FateInv, SeqInv, TypeOK, CloseType
<1>1. ASSUME NEW w \in Writers, WriteStep(w) PROVE OutcomeParts'
  BY <1>1, Frames, OutcomeKept DEF writersKeep, onceVars
<1>2. CASE WorkerStep
  <2>1. workerPc # "exited"
    BY <1>2 DEF WorkerStep, WorkerWait, WorkerTake, WorkerWrite,
                WorkerResolve, WorkerNotify, WorkerExit
  <2>2. closeOnce # "done" /\ \A c \in Closers : closePc[c] # "closing"
    BY <2>1 DEF CloseInv, CloseParts, AfterWorker
  <2> QED BY <1>2, <2>2, Frames, OutcomeKept DEF workerKeeps, onceVars
<1>3. CASE FlusherStep
  <2>1. covered' = covered \/ covered' = written
    BY <1>3 DEF FlusherStep, FlusherTick, FlusherFlush, FlusherExit
  <2> QED BY <1>3, <2>1, Frames, OutcomeKept DEF tickerKeeps, onceVars
<1>4. ASSUME NEW c \in Closers, CloseAnyStep(c) PROVE OutcomeParts'
  <2>k. written' = written
    BY <1>4, Frames DEF closersKeep
  <2>o. \A d \in Closers \ {c} : closePc'[d] = closePc[d]
    BY <1>4, <1>t
    DEF CloseAnyStep, CloseBegin, CloseRepeat, CloseRepeatReturn,
        CloseStopFlusher, CloseJoinFlusher, CloseJoinWorker, CloseFlushInner,
        CloseInner, CloseStep
  <2>1. CASE CloseInner(c)
    <3>1. closePc[c] \in {"closing", "closingAfterError"} /\ covered' = covered
      BY <2>1 DEF CloseInner
    <3>2. closeOnce = "running"
      BY <3>1 DEF CloseInv, CloseParts, Active
    <3>3. \A d \in Closers : closePc[d] \notin {"returned", "panicked"}
      BY <3>2 DEF CloseInv, CloseParts
    <3>4. \A d \in Closers \ {c} : closePc[d] # "closing"
      BY <3>1 DEF CloseInv, CloseParts, Active
    <3>5. CASE closePc' = [closePc EXCEPT ![c] = "panicked"]
      BY <1>t, <2>o, <3>4, <3>5 DEF OutcomeParts
    <3>6. CASE /\ closeErr' \in IF closePc[c] = "closing" THEN {"nil", "error"}
                                                         ELSE {"error"}
               /\ closeResult' = [closeResult EXCEPT ![c] = closeErr']
               /\ closePc' = [closePc EXCEPT ![c] = "returned"]
      <4>1. /\ closePc'[c] = "returned" /\ closeResult'[c] = closeErr'
            /\ \A d \in Closers \ {c} : closePc'[d] \notin {"returned", "closing"}
        BY <1>t, <2>o, <3>3, <3>4, <3>6
      <4>2. closeErr' = "nil" => covered' = written'
        BY <2>k, <3>1, <3>6 DEF OutcomeParts
      <4> QED BY <4>1, <4>2 DEF OutcomeParts
    <3> QED BY <2>1, <3>5, <3>6 DEF CloseInner
  <2>2. CASE CloseFlushInner(c)
    <3>1. /\ closePc[c] = "flushing" /\ UNCHANGED <<closeOnce, closeErr, closeResult>>
          /\ closePc'[c] \in {"closing", "closingAfterError"}
          /\ closePc'[c] = "closing" => covered' = written
          /\ covered' = covered \/ covered' = written
      BY <2>2, <1>t DEF CloseFlushInner, CloseStep, onceVars
    <3> QED BY <2>k, <2>o, <3>1 DEF OutcomeParts
  <2>3. CASE CloseRepeatReturn(c)
    <3>1. /\ closePc[c] = "onceWait" /\ closePc'[c] = "returned"
          /\ closeResult'[c] = closeErr
          /\ \A d \in Closers \ {c} : closeResult'[d] = closeResult[d]
          /\ UNCHANGED <<closeOnce, closeErr, covered>>
      BY <2>3, <1>t DEF CloseRepeatReturn, CloseStep
    <3> QED BY <2>k, <2>o, <3>1 DEF OutcomeParts
  <2>4. CASE CloseBegin(c)
    <3>1. /\ closeOnce = "new" /\ closeOnce' = "running" /\ closePc'[c] = "stopping"
          /\ UNCHANGED <<closeErr, closeResult, covered>>
      BY <2>4, <1>t DEF CloseBegin
    <3>2. \A d \in Closers : closePc[d] \notin {"returned", "panicked"}
      BY <3>1 DEF CloseInv, CloseParts
    <3> QED BY <2>k, <2>o, <3>1, <3>2 DEF OutcomeParts
  <2>5. CASE CloseRepeat(c) \/ CloseStopFlusher(c) \/ CloseJoinFlusher(c) \/ CloseJoinWorker(c)
    <3>1. /\ closePc[c] # "panicked"
          /\ closePc'[c] \in {"onceWait", "joining", "draining", "flushing"}
          /\ UNCHANGED <<closeOnce, closeErr, closeResult, covered>>
      BY <2>5, <1>t DEF CloseRepeat, CanClose, CloseStopFlusher, CloseJoinFlusher,
                        CloseJoinWorker, CloseStep, onceVars
    <3> QED BY <2>k, <2>o, <3>1 DEF OutcomeParts
  <2> QED BY <1>4, <2>1, <2>2, <2>3, <2>4, <2>5 DEF CloseAnyStep
<1>5. ASSUME NEW f \in Flushers, FlushStep(f) PROVE OutcomeParts'
  <2>1. covered' = covered \/ covered' = written
    BY <1>5 DEF FlushStep, FlushCall, FlushWaitAgain, FlushResume, FlushInner
  <2> QED BY <1>5, <2>1, Frames, OutcomeKept DEF flushersKeep, onceVars
<1>6. CASE UNCHANGED vars
  BY <1>6, OutcomeKept DEF vars, onceVars, restVars
<1> QED BY <1>1, <1>2, <1>3, <1>4, <1>5, <1>6 DEF Next

\* Close is complete, happens once and tells every caller the same; nil means
\* that the final flush covered everything written, unless the inner Close
\* panicked (output/async.go:253-290).
THEOREM CloseHoldsAlways == Spec => []CloseHolds
<1>1. Init => CloseInv /\ OutcomeParts
  BY CloseInvInit DEF Init, OutcomeParts
<1>2. CloseInv /\ OutcomeParts /\ [Next]_vars => CloseInv' /\ OutcomeParts'
  BY CloseInvStep, OutcomeStep
<1>3. CloseInv /\ OutcomeParts => CloseHolds
  <2>1. ASSUME CloseInv, OutcomeParts PROVE CloseOutcome
    BY <2>1 DEF CloseInv, CloseParts, OutcomeParts, CloseOutcome
  <2> QED BY <2>1, CloseInvImplies DEF CloseHolds
<1> QED BY <1>1, <1>2, <1>3, PTL DEF Spec

----------------------------------------------------------------------------
(* A successful Flush leaves nothing of its snapshot behind.               *)

DurableInv == FlushInv /\ FlushIsDurable /\ covered \subseteq written

LEMMA DurableStep ==
  DurableInv /\ [Next]_vars => FlushIsDurable' /\ covered' \subseteq written'
<1> SUFFICES ASSUME DurableInv, [Next]_vars
             PROVE  FlushIsDurable' /\ covered' \subseteq written'
  OBVIOUS
<1> DEFINE Goal == FlushIsDurable' /\ covered' \subseteq written'
<1>t. /\ flushPc \in [Flushers -> {"idle", "waiting", "flushing", "flushed",
                                   "failed", "skipped"}]
      /\ snapshot \in [Flushers -> Nat]
  BY DEF DurableInv, FlushInv, FateInv, SeqInv, TypeOK, FlushType
<1>1. ASSUME NEW w \in Writers, WriteStep(w) PROVE Goal
  BY <1>1, Frames DEF DurableInv, FlushIsDurable
<1>2. CASE WorkerStep
  <2>1. UNCHANGED workerKeeps
    BY <1>2, Frames
  <2>2. CASE WorkerWrite
    <3>1. inHand # 0 /\ written' = written \cup {inHand}
      BY <2>2 DEF WorkerWrite, DurableInv, FlushInv, FateInv, SeqInv,
                  SeqAccounting
    <3>2. \A f \in Flushers : flushPc[f] = "flushed" => inHand \notin 1..snapshot[f]
      BY <3>1 DEF DurableInv, FlushInv, FlushParts, FlushGuarantee, Resolved,
                  Held
    <3> QED BY <2>1, <3>1, <3>2 DEF DurableInv, FlushIsDurable
  <2>3. CASE written' = written
    BY <2>1, <2>3 DEF DurableInv, FlushIsDurable
  <2> QED BY <1>2, <2>2, <2>3
          DEF WorkerStep, WorkerWait, WorkerTake, WorkerResolve, WorkerNotify,
              WorkerExit
<1>3. ASSUME NEW f \in Flushers, FlushStep(f) PROVE Goal
  <2>1. UNCHANGED flushersKeep
    BY <1>3, Frames
  <2>2. /\ \A g \in Flushers \ {f} : /\ flushPc'[g] = flushPc[g]
                                     /\ snapshot'[g] = snapshot[g]
        /\ flushPc'[f] = "flushed" => covered' = written
        /\ covered' \in {covered, written}
    BY <1>3, <1>t DEF FlushStep, FlushCall, FlushWaitAgain, FlushResume,
                      FlushInner, FlushProceed
  <2> QED BY <2>1, <2>2 DEF DurableInv, FlushIsDurable
<1>4. CASE FlusherStep
  <2>1. UNCHANGED tickerKeeps /\ covered' \in {covered, written}
    BY <1>4, Frames DEF FlusherStep, FlusherTick, FlusherFlush, FlusherExit
  <2> QED BY <2>1 DEF DurableInv, FlushIsDurable
<1>5. ASSUME NEW c \in Closers, CloseAnyStep(c) PROVE Goal
  <2>1. UNCHANGED closersKeep /\ covered' \in {covered, written}
    BY <1>5, Frames
    DEF CloseAnyStep, CloseBegin, CloseRepeat, CloseRepeatReturn,
        CloseStopFlusher, CloseJoinFlusher, CloseJoinWorker, CloseFlushInner,
        CloseInner
  <2> QED BY <2>1 DEF DurableInv, FlushIsDurable
<1>6. CASE UNCHANGED vars
  BY <1>6 DEF DurableInv, FlushIsDurable
<1> QED BY <1>1, <1>2, <1>3, <1>4, <1>5, <1>6 DEF Next

LEMMA DurableInvInit == Init => DurableInv
<1> SUFFICES ASSUME Init PROVE DurableInv
  OBVIOUS
<1>1. FlushInv
  BY FlushInvInit
<1>2. FlushIsDurable /\ covered \subseteq written
  BY DEF Init, FlushIsDurable
<1> QED BY <1>1, <1>2 DEF DurableInv

LEMMA DurableInvStep == DurableInv /\ [Next]_vars => DurableInv'
BY FlushInvStep, DurableStep DEF DurableInv

\* A Flush that flushed the inner output and returned nil flushed it after all
\* the writes of its snapshot (output/async.go:231-251).
THEOREM FlushedMeansDurable == Spec => []FlushIsDurable
<1>1. DurableInv => FlushIsDurable
  BY DEF DurableInv
<1> QED BY <1>1, DurableInvInit, DurableInvStep, PTL DEF Spec

\* A Flush leaves the inner flush to Close only when Close has begun.
SkipsKnown == \A f \in Flushers : flushPc[f] = "skipped" => closed

LEMMA SkipsStep == CloseInv /\ SkipsKnown /\ [Next]_vars => SkipsKnown'
<1> SUFFICES ASSUME CloseInv, SkipsKnown, [Next]_vars, NEW f \in Flushers,
                    flushPc'[f] = "skipped"
             PROVE  closed'
  BY DEF SkipsKnown
<1>t. flushPc \in [Flushers -> {"idle", "waiting", "flushing", "flushed",
                                "failed", "skipped"}]
  BY DEF CloseInv, FateInv, SeqInv, TypeOK, FlushType
<1>1. ASSUME NEW g \in Flushers, FlushStep(g) PROVE closed'
  <2>1. closed' = closed  BY <1>1, Frames DEF flushersKeep
  <2>2. flushPc[f] = "skipped" \/ closed
    BY <1>t, <1>1
    DEF FlushStep, FlushCall, FlushWaitAgain, FlushResume, FlushInner,
        FlushProceed, flushVars
  <2> QED  BY <2>1, <2>2 DEF SkipsKnown
<1>2. ASSUME NEW c \in Closers, CloseAnyStep(c) PROVE closed'
  <2>1. flushPc' = flushPc  BY <1>2, Frames DEF closersKeep, flushVars
  <2>2. closed' \/ closed' = closed
    BY <1>2
    DEF CloseAnyStep, CloseBegin, CloseRepeat, CloseRepeatReturn,
        CloseStopFlusher, CloseJoinFlusher, CloseJoinWorker, CloseFlushInner,
        CloseInner
  <2> QED  BY <2>1, <2>2 DEF SkipsKnown
<1>3. ASSUME UNCHANGED <<closed, flushPc>> PROVE closed'
  BY <1>3 DEF SkipsKnown
<1>4. ASSUME NEW w \in Writers, WriteStep(w) PROVE closed'
  BY <1>3, <1>4, Frames DEF writersKeep, flushVars
<1>5. CASE WorkerStep \/ FlusherStep
  BY <1>3, <1>5, Frames DEF workerKeeps, tickerKeeps, flushVars
<1>6. CASE UNCHANGED vars
  BY <1>3, <1>6 DEF vars, flushVars, restVars
<1> QED BY <1>1, <1>2, <1>4, <1>5, <1>6 DEF Next

\* What a Flush that is a no-op relies on: the body of Close is before its
\* inner flush, or has made it, for everything written.
LEMMA NoOps ==
  CloseInv /\ OutcomeParts /\ LifeParts /\ SkipsKnown => NoOpIsCovered
<1> SUFFICES ASSUME CloseInv, OutcomeParts, LifeParts, SkipsKnown,
                    NEW f \in Flushers, flushPc[f] = "skipped"
             PROVE  \/ (1..snapshot[f]) \cap written \subseteq covered
                    \/ \E c \in Closers :
                          closePc[c] \in {"stopping", "joining", "draining", "flushing"}
                    \/ \E c \in Closers :
                          closePc[c] \in {"closingAfterError", "panicked"}
                    \/ closeErr = "error"
  BY DEF NoOpIsCovered
<1>1. closeOnce \in {"running", "done"} /\ closeErr \in {"nil", "error"}
  BY DEF SkipsKnown, CloseInv, CloseParts, FateInv, SeqInv, TypeOK, CloseType
<1>2. CASE closeOnce = "running"
  <2>1. PICK c \in Closers :
            closePc[c] \notin {"idle", "onceWait", "returned", "panicked"}
    BY <1>2 DEF LifeParts, InOnce
  <2>2. closePc[c] \in Active
    BY <2>1 DEF Active, CloseInv, FateInv, SeqInv, TypeOK, CloseType
  <2>3. closePc[c] = "closing" => covered = written  BY DEF OutcomeParts
  <2> QED  BY <2>2, <2>3 DEF Active
<1>3. CASE closeOnce = "done"
  BY <1>1, <1>3 DEF OutcomeParts
<1> QED  BY <1>1, <1>2, <1>3

\* What Flush promises, of the writes and of the inner flush, also when it
\* leaves that to Close (output/async.go:220-251).
THEOREM FlushHoldsAlways == Spec => []FlushHolds
<1>1. Init => LifeParts /\ SkipsKnown /\ OutcomeParts
  BY DEF Init, LifeParts, InOnce, SkipsKnown, OutcomeParts
<1>2. CloseInv => TypeOK
  BY DEF CloseInv, FateInv, SeqInv
<1>3. FlushGuarantee /\ FlushIsDurable /\ NoOpIsCovered => FlushHolds
  BY DEF FlushHolds
<1> QED
  BY <1>1, <1>2, <1>3, NoOps, LifeStep, OutcomeStep, SkipsStep, CloseInvInit,
     CloseInvStep, FlushKeepsItsWord, FlushedMeansDurable, PTL DEF Spec

----------------------------------------------------------------------------
(* The wrapper implements the bounded pipe of LossyFifo.                   *)

LEMMA FifoInitOK == Init => Promise!FifoInit
<1> SUFFICES ASSUME Init PROVE Promise!FifoInit
  OBVIOUS
<1>1. Pending = <<>>
  BY DEF Init, Pending
<1> QED BY <1>1 DEF Init, Promise!FifoInit

\* While the worker holds an unwritten message, that one comes first.
LEMMA PendingFacts ==
  ASSUME TypeOK, SeqAccounting
  PROVE  /\ workerPc # "writing" => Pending = queue
         /\ workerPc = "writing" => Pending = <<inHand>> \o queue
         /\ inHand \in Nat
         /\ workerPc = "writing" => inHand \in Nat \ {0}
         /\ queue \in Seq(Nat \ {0})
         /\ Len(queue) \in Nat
<1>1. queue \in Seq(Nat \ {0}) /\ inHand \in Nat
  BY DEF TypeOK, BufferType, WorkerType
<1>2. workerPc # "writing" => Pending = queue
  BY <1>1, ConcatEmptySeq DEF Pending
<1>3. workerPc = "writing" => Pending = <<inHand>> \o queue /\ inHand # 0
  BY DEF Pending, SeqAccounting
<1> QED BY <1>1, <1>2, <1>3, LenProperties

LEMMA AppendBehind ==
  ASSUME NEW S, NEW q \in Seq(S), NEW m \in S, NEW h \in S
  PROVE  Append(<<h>> \o q, m) = <<h>> \o Append(q, m)
OBVIOUS

LEMMA HeadInFront ==
  ASSUME NEW S, NEW q \in Seq(S), NEW h \in S
  PROVE  /\ Head(<<h>> \o q) = h
         /\ Tail(<<h>> \o q) = q
         /\ <<h>> \o q # <<>>
         /\ Len(<<h>> \o q) = Len(q) + 1
OBVIOUS

\* Removing the first or the second element, as Displace writes it.
LEMMA DisplaceFirst ==
  ASSUME NEW S, NEW q \in Seq(S), q # <<>>
  PROVE  SubSeq(q, 1, 0) \o SubSeq(q, 2, Len(q)) = Tail(q)
<1>1. SubSeq(q, 1, 0) = <<>>
  BY SubSeqEmpty
<1>2. SubSeq(q, 2, Len(q)) = Tail(q) /\ Tail(q) \in Seq(S)
  BY TailIsSubSeq, HeadTailProperties
<1> QED BY <1>1, <1>2, ConcatEmptySeq

LEMMA DisplaceSecond ==
  ASSUME NEW S, NEW q \in Seq(S), q # <<>>, NEW h \in S
  PROVE  LET p == <<h>> \o q
         IN  /\ p[2] = Head(q)
             /\ SubSeq(p, 1, 1) \o SubSeq(p, 3, Len(p)) = <<h>> \o Tail(q)
<1> DEFINE p == <<h>> \o q
<1>1. /\ p \in Seq(S)
      /\ Len(p) = Len(q) + 1
      /\ \A i \in 1..Len(q) + 1 : p[i] = IF i <= 1 THEN h ELSE q[i - 1]
      /\ Len(q) \in Nat \ {0}
      /\ q[1] = Head(q)
  BY ConcatProperties, TailFacts
<1>2. p[2] = Head(q)
  BY <1>1
<1>3. SubSeq(p, 1, 1) = <<h>>
  <2>1. /\ SubSeq(p, 1, 1) \in Seq(S)
        /\ Len(SubSeq(p, 1, 1)) = 1
        /\ SubSeq(p, 1, 1)[1] = h
    BY <1>1, SubSeqProperties, ElementOfSeq
  <2>2. <<h>> \in Seq(S) /\ Len(<<h>>) = 1 /\ <<h>>[1] = h
    OBVIOUS
  <2>3. \A i \in 1..Len(<<h>>) : SubSeq(p, 1, 1)[i] = <<h>>[i]
    BY <2>1, <2>2
  <2> QED BY <2>1, <2>2, <2>3, SeqEqual
<1>4. SubSeq(p, 3, Len(p)) = Tail(q)
  <2>1. /\ SubSeq(p, 3, Len(p)) \in Seq(S)
        /\ Len(SubSeq(p, 3, Len(p))) = Len(q) - 1
        /\ \A i \in 1..Len(q) - 1 : SubSeq(p, 3, Len(p))[i] = q[i + 1]
    BY <1>1, SubSeqProperties, ElementOfSeq
  <2>2. /\ Tail(q) \in Seq(S)
        /\ Len(Tail(q)) = Len(q) - 1
        /\ \A i \in 1..Len(q) - 1 : Tail(q)[i] = q[i + 1]
    BY TailFacts
  <2> QED BY <2>1, <2>2, SeqEqual
<1> QED BY <1>2, <1>3, <1>4

LEMMA FifoStepOK == CloseInv /\ [Next]_vars => [Promise!FifoNext]_(Promise!fifoVars)
<1> SUFFICES ASSUME CloseInv, [Next]_vars
             PROVE  Promise!FifoNext \/ UNCHANGED Promise!fifoVars
  OBVIOUS
<1> DEFINE Goal == Promise!FifoNext \/ UNCHANGED Promise!fifoVars
<1>t. /\ workerPc # "writing" => Pending = queue
      /\ workerPc = "writing" => Pending = <<inHand>> \o queue
      /\ workerPc = "writing" => inHand \in Nat \ {0}
      /\ queue \in Seq(Nat \ {0})
      /\ Len(queue) \in Nat
      /\ accepted + 1 \in Nat \ {0}
      /\ Capacity \in Nat \ {0}
  BY PendingFacts, CapacityAssumption
  DEF CloseInv, FateInv, SeqInv, TypeOK, BufferType
<1>1. ASSUME NEW w \in Writers, Admit(w) PROVE Promise!Take
  <2>1. /\ ~closed /\ Len(queue) < Capacity
        /\ queue' = Append(queue, accepted + 1)
        /\ accepted' = accepted + 1
        /\ UNCHANGED <<workerPc, inHand, written, lost, closed>>
    BY <1>1, <1>t DEF Admit, Full, Enqueue
  <2>2. CASE workerPc = "writing"
    <3>1. Pending' = <<inHand>> \o Append(queue, accepted + 1)
      BY <2>1, <2>2 DEF Pending
    <3>2. Pending' = Append(Pending, accepted + 1) /\ Len(Pending) < Capacity + 1
      BY <2>1, <2>2, <3>1, <1>t, AppendBehind, HeadInFront
    <3> QED BY <2>1, <3>2 DEF Promise!Take
  <2>3. CASE workerPc # "writing"
    <3>1. Pending' = Append(queue, accepted + 1)
      BY <2>1, <2>3, <1>t, AppendFacts, ConcatEmptySeq DEF Pending
    <3>2. Len(Pending) < Capacity + 1
      BY <2>1, <2>3, <1>t
    <3> QED BY <2>1, <2>3, <3>1, <3>2, <1>t DEF Promise!Take
  <2> QED BY <2>2, <2>3
<1>2. ASSUME NEW w \in Writers, WriteDropOldest(w)
      PROVE  Promise!Displace(1) \/ Promise!Displace(2)
  <2>1. /\ ~closed
        /\ queue' = Append(Tail(queue), accepted + 1)
        /\ accepted' = accepted + 1
        /\ lost' = lost \cup {Head(queue)}
        /\ UNCHANGED <<workerPc, inHand, written, closed>>
    BY <1>2 DEF WriteDropOldest, Enqueue
  <2>2. /\ queue # <<>>
        /\ Len(queue) \in Nat \ {0}
        /\ Head(queue) = queue[1]
        /\ Tail(queue) \in Seq(Nat \ {0})
    BY <1>2, <1>t, FullIsNotEmpty, TailFacts
    DEF WriteDropOldest, CloseInv, FateInv, SeqInv, TypeOK
  <2>3. CASE workerPc = "writing"
    <3>1. Pending' = <<inHand>> \o Append(Tail(queue), accepted + 1)
      BY <2>1, <2>3 DEF Pending
    <3>2. Pending' = Append(<<inHand>> \o Tail(queue), accepted + 1)
      BY <3>1, <2>2, <2>3, <1>t, AppendBehind
    <3>0. Pending = <<inHand>> \o queue
      BY <2>3, <1>t
    <3>3. /\ Pending[2] = Head(queue)
          /\ SubSeq(Pending, 1, 1) \o SubSeq(Pending, 3, Len(Pending))
                = <<inHand>> \o Tail(queue)
      <4> DEFINE p == <<inHand>> \o queue
      <4>1. /\ p[2] = Head(queue)
            /\ SubSeq(p, 1, 1) \o SubSeq(p, 3, Len(p)) = <<inHand>> \o Tail(queue)
        BY <2>2, <2>3, <1>t, DisplaceSecond
      <4> HIDE DEF p
      <4>2. Pending = p
        BY <3>0 DEF p
      <4>. QED BY <4>1, <4>2
    <3>4. Len(Pending) = Len(queue) + 1
      BY <2>3, <1>t, HeadInFront
    <3>5. 2 \in 1..Len(Pending)
      BY <2>2, <3>4
    <3>6. lost' = lost \cup {Pending[2]}
      BY <2>1, <3>3
    <3>7. Pending' = Append(SubSeq(Pending, 1, 2 - 1)
                             \o SubSeq(Pending, 2 + 1, Len(Pending)),
                           accepted + 1)
      BY <3>2, <3>3
    <3> QED BY <2>1, <3>5, <3>6, <3>7 DEF Promise!Displace
  <2>4. CASE workerPc # "writing"
    <3>1. Pending' = Append(Tail(queue), accepted + 1)
      BY <2>1, <2>2, <2>4, <1>t, AppendFacts, ConcatEmptySeq DEF Pending
    <3>2. SubSeq(Pending, 1, 0) \o SubSeq(Pending, 2, Len(Pending)) = Tail(queue)
      BY <2>2, <2>4, <1>t, DisplaceFirst
    <3>3. 1 \in 1..Len(Pending) /\ Pending[1] = Head(queue)
      BY <2>2, <2>4, <1>t
    <3>4. lost' = lost \cup {Pending[1]}
      BY <2>1, <3>3
    <3>5. Pending' = Append(SubSeq(Pending, 1, 1 - 1)
                             \o SubSeq(Pending, 1 + 1, Len(Pending)),
                           accepted + 1)
      <4>1. 1 - 1 = 0 /\ 1 + 1 = 2
        OBVIOUS
      <4> QED BY <3>1, <3>2, <4>1, Zenon
    <3> QED BY <2>1, <3>3, <3>4, <3>5 DEF Promise!Displace
  <2> QED BY <2>3, <2>4
<1>3. CASE WorkerTake
  <2>1. /\ Pending = queue /\ queue # <<>>
        /\ workerPc' = "writing" /\ inHand' = Head(queue)
        /\ queue' = Tail(queue)
        /\ UNCHANGED <<accepted, written, lost, closed>>
    BY <1>3, <1>t DEF WorkerTake, workerKeeps
  <2>2. Pending' = <<Head(queue)>> \o Tail(queue)
    BY <2>1 DEF Pending
  <2>3. <<Head(queue)>> \o Tail(queue) = queue
    <3>1. /\ Head(queue) \in Nat \ {0}
          /\ Tail(queue) \in Seq(Nat \ {0})
          /\ Len(Tail(queue)) = Len(queue) - 1
          /\ Head(queue) = queue[1]
          /\ Len(queue) \in Nat \ {0}
          /\ \A i \in 1..Len(queue) - 1 : Tail(queue)[i] = queue[i + 1]
      BY <2>1, <1>t, TailFacts
    <3> DEFINE p == <<Head(queue)>> \o Tail(queue)
    <3>2. /\ p \in Seq(Nat \ {0})
          /\ Len(p) = Len(queue)
          /\ \A i \in 1..Len(queue) :
                p[i] = IF i <= 1 THEN Head(queue) ELSE Tail(queue)[i - 1]
      BY <3>1, ConcatProperties
    <3>3. \A i \in 1..Len(p) : p[i] = queue[i]
      BY <3>1, <3>2
    <3> QED BY <3>2, <3>3, <1>t, SeqEqual
  <2> QED BY <2>1, <2>2, <2>3 DEF Promise!fifoVars
<1>4. CASE WorkerWrite
  <2>1. /\ Pending = <<inHand>> \o queue
        /\ inHand \in Nat \ {0}
        /\ workerPc' # "writing"
        /\ written' = written \cup {inHand}
        /\ UNCHANGED <<queue, accepted, lost, closed>>
    BY <1>4, <1>t DEF WorkerWrite
  <2>2. Pending' = queue
    BY <2>1, <1>t, ConcatEmptySeq DEF Pending
  <2>3. Head(Pending) = inHand /\ Tail(Pending) = queue /\ Pending # <<>>
    BY <2>1, <1>t, HeadInFront
  <2>4. Promise!HandOver
    BY <2>1, <2>2, <2>3 DEF Promise!HandOver
  <2> QED BY <2>4 DEF Promise!FifoNext
<1>5. ASSUME NEW c \in Closers, CloseBegin(c) PROVE Promise!ShutDown
  <2>1. /\ ~closed /\ closed'
        /\ UNCHANGED <<queue, workerPc, inHand, accepted, written, lost>>
    BY <1>5 DEF CloseBegin, CloseInv, CloseParts
  <2> QED BY <2>1 DEF Promise!ShutDown, Pending
<1>6. CASE /\ UNCHANGED <<queue, accepted, inHand, written, lost, closed>>
           /\ workerPc = "writing" <=> workerPc' = "writing"
  BY <1>6 DEF Pending, Promise!fifoVars
<1>7. ASSUME NEW w \in Writers, WriteStep(w) PROVE Goal
  BY <1>7, <1>1, <1>2, <1>6
  DEF WriteStep, WriteRefused, WriteEnqueue, WriteDropNewest, WriteBlock,
      WriteBlockAgain, WriteResumeRefused, WriteResumeEnqueue, NotifyDrop,
      Refuse, Promise!FifoNext
<1>8. CASE WorkerStep
  <2>1. CASE WorkerResolve
    <3>1. Pending' = queue' /\ UNCHANGED <<queue, accepted, written, lost, closed>>
      BY <2>1, <1>t, ConcatEmptySeq DEF WorkerResolve, Pending
    <3> QED BY <2>1, <3>1, <1>t DEF WorkerResolve, Promise!fifoVars
  <2> QED BY <1>8, <2>1, <1>3, <1>4, <1>6
          DEF WorkerStep, WorkerWait, WorkerNotify, WorkerExit
<1>9. ASSUME NEW c \in Closers, CloseAnyStep(c) PROVE Goal
  <2>1. CASE CloseBegin(c)
    BY <2>1, <1>5 DEF Promise!FifoNext
  <2>2. CASE ~CloseBegin(c)
    <3>1. UNCHANGED <<closersKeep, closed>>
      BY <1>9, <2>2, Frames
      DEF CloseAnyStep, CloseRepeat, CloseRepeatReturn, CloseStopFlusher,
          CloseJoinFlusher, CloseJoinWorker, CloseFlushInner, CloseInner
    <3> QED BY <3>1, <1>6
  <2> QED BY <2>1, <2>2
<1> QED BY <1>6, <1>7, <1>8, <1>9, Frames DEF Next

\* The safety half of KeepsPromise: every behaviour of the wrapper is one of a
\* bounded first-in-first-out pipe that loses messages only by displacing the
\* oldest one nobody has taken, and takes none after it is shut.  The liveness
\* half is checked by TLC.
THEOREM ImplementsLossyFifo ==
  Spec => Promise!FifoInit /\ [][Promise!FifoNext]_(Promise!fifoVars)
BY FifoInitOK, FifoStepOK, CloseInvInit, CloseInvStep, PTL DEF Spec
----------------------------------------------------------------------------
(* Drop notifications.                                                     *)

NoticesInv == TypeOK /\ NoticesOnce

LEMMA NoticesStep == NoticesInv /\ [Next]_vars => NoticesOnce'
<1> SUFFICES ASSUME NoticesInv, [Next]_vars PROVE NoticesOnce'
  OBVIOUS
<1> DEFINE Notifying == {w \in Writers : writerPc[w] = "notifying"}
           OnTheirWay == {total[w] : w \in Notifying}
<1>t. /\ writerPc \in [Writers -> {"idle", "blocked", "notifying", "refused"}]
      /\ total \in [Writers -> Nat]
      /\ dropped \in Nat
      /\ notices \cup OnTheirWay = 1..dropped
      /\ notices \cap OnTheirWay = {}
      /\ \A v, w \in Notifying : total[v] = total[w] => v = w
  BY DEF NoticesInv, NoticesOnce, TypeOK, WriterType
\* A drop: the writer takes the next total to the handler.
<1>1. ASSUME NEW w \in Writers, WriteDropNewest(w) \/ WriteDropOldest(w)
      PROVE  NoticesOnce'
  <2>1. /\ dropped' = dropped + 1
        /\ notices' = notices
        /\ w \notin Notifying
        /\ total' = [total EXCEPT ![w] = dropped + 1]
        /\ Notifying' = Notifying \cup {w}
    BY <1>1, <1>t DEF WriteDropNewest, WriteDropOldest, CanCall
  <2>2. \A v \in Notifying : total'[v] = total[v] /\ total[v] # dropped + 1
    BY <2>1, <1>t
  <2>3. OnTheirWay' = OnTheirWay \cup {dropped + 1}
    BY <2>1, <2>2, <1>t
  <2>4. 1..dropped' = 1..dropped \cup {dropped + 1} /\ dropped + 1 \notin 1..dropped
    BY <2>1, <1>t
  <2>5. notices' \cup OnTheirWay' = 1..dropped' /\ notices' \cap OnTheirWay' = {}
    BY <2>1, <2>3, <2>4, <1>t
  <2>6. \A u, v \in Notifying' : total'[u] = total'[v] => u = v
    BY <2>1, <2>2, <1>t
  <2> QED BY <2>5, <2>6 DEF NoticesOnce
<1>2. ASSUME NEW w \in Writers, NotifyDrop(w) PROVE NoticesOnce'
  <2>1. /\ dropped' = dropped
        /\ total' = total
        /\ w \in Notifying
        /\ notices' = notices \cup {total[w]}
        /\ Notifying' = Notifying \ {w}
    BY <1>2, <1>t DEF NotifyDrop
  <2>2. OnTheirWay' = OnTheirWay \ {total[w]}
    BY <2>1, <1>t
  <2>3. notices' \cup OnTheirWay' = 1..dropped' /\ notices' \cap OnTheirWay' = {}
    BY <2>1, <2>2, <1>t
  <2> QED BY <2>1, <2>3, <1>t DEF NoticesOnce
<1>3. CASE UNCHANGED <<dropped, notices, total>> /\ Notifying' = Notifying
  BY <1>3, <1>t DEF NoticesOnce
<1>4. ASSUME NEW w \in Writers, WriteStep(w),
             ~(WriteDropNewest(w) \/ WriteDropOldest(w) \/ NotifyDrop(w))
      PROVE  UNCHANGED <<dropped, notices, total>> /\ Notifying' = Notifying
  BY <1>4, <1>t
  DEF WriteStep, WriteRefused, WriteEnqueue, WriteBlock, WriteBlockAgain,
      WriteResumeRefused, WriteResumeEnqueue, Refuse, Admit, CanCall, Woken
<1> QED BY <1>1, <1>2, <1>3, <1>4, Frames DEF Next

LEMMA NoticesInit == Init => NoticesOnce
<1> SUFFICES ASSUME Init PROVE NoticesOnce
  OBVIOUS
<1>1. {w \in Writers : writerPc[w] = "notifying"} = {} /\ dropped = 0 /\ notices = {}
  BY DEF Init
<1> QED BY <1>1 DEF NoticesOnce

\* Every drop is reported once, with a total of its own, in spite of the
\* handler running outside the mutex (output/async.go:167-197, 380-393).
THEOREM EveryDropIsReportedOnce == Spec => []NoticesOnce
<1>1. Init => NoticesInv
  BY TypeInit, NoticesInit DEF NoticesInv
<1>2. NoticesInv /\ [Next]_vars => NoticesInv'
  BY TypeStep, NoticesStep DEF NoticesInv
<1>3. NoticesInv => NoticesOnce
  BY DEF NoticesInv
<1> QED BY <1>1, <1>2, <1>3, PTL DEF Spec
=============================================================================
