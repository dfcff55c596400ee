---------------------------- MODULE AsyncOutput ----------------------------
(***************************************************************************)
(* The asynchronous output wrapper of output/async.go.                     *)
(*                                                                         *)
(* Writers enqueue into a bounded buffer; one worker goroutine drains it   *)
(* to the wrapped ("inner") output; Flush waits for a snapshot of the      *)
(* buffer; Close drains, flushes and closes the inner output.  All of them *)
(* share one mutex and one condition variable.  A critical section of the  *)
(* code is one action: it calls nothing outside the wrapper.  Calls of the *)
(* inner output and of the error handler happen outside the mutex and are  *)
(* actions of their own.                                                   *)
(*                                                                         *)
(* A message is identified by its rank among the accepted messages, which  *)
(* the history variable "accepted" counts; the code's own sequence numbers *)
(* are separate variables, so that their arithmetic can be wrong.          *)
(***************************************************************************)
EXTENDS Integers, Sequences, FiniteSets

CONSTANTS
    Writers,        \* goroutines that call Write
    Flushers,       \* goroutines that call Flush
    Closers,        \* goroutines that call Close
    Worker,         \* the worker goroutine
    Capacity,       \* size of the buffer
    MaxWrites       \* bound: how many messages the writers offer

ASSUME CapacityAssumption == Capacity \in Nat \ {0}

ASSUME ThreadsAssumption ==
    /\ Writers \cap Flushers = {}
    /\ Worker \notin Writers \cup Flushers

ASSUME MaxWritesAssumption == MaxWrites \in Nat

VARIABLES
    \* Fixed by the options of the constructor.
    policy, interval,
    \* Fields guarded by the mutex.
    closed, dropped, queue, enqueuedSeq, headSeq, inFlightSeq,
    waiting,        \* goroutines parked in cond.Wait
    \* Fields of Close and of the goroutines' life cycle.
    closeOnce, closeErr, flusherStop,
    \* Where each goroutine is, and its local variables.
    workerPc, inHand, flusherPc,
    writerPc, total, flushPc, target, closePc, closeResult,
    \* History.
    accepted,       \* messages accepted so far
    written,        \* messages whose inner Write has returned
    lost,           \* messages given up by the drop-oldest policy
    turnedAway,     \* messages refused by the drop-newest policy
    notices,        \* drop totals delivered to the error handler
    snapshot,       \* per Flush call: messages accepted when it was called
    covered,        \* messages written before the latest inner flush
    innerCloses     \* calls of the inner output's Close

bufferVars == <<queue, enqueuedSeq, headSeq, accepted>>
workerVars == <<workerPc, inHand, inFlightSeq>>
writerVars == <<writerPc, total>>
dropVars   == <<dropped, lost, turnedAway, notices>>
flushVars  == <<flushPc, target, snapshot>>
onceVars   == <<closeOnce, closeErr, closeResult, innerCloses>>
restVars   == <<policy, interval, closed, waiting, flusherStop, flusherPc,
                closePc, written, covered>>

vars == <<bufferVars, workerVars, writerVars, dropVars, flushVars, onceVars,
          restVars>>

\* What the steps of each kind of goroutine never change.
writersKeep  == <<policy, interval, closed, workerVars, flushVars, onceVars,
                  closePc, flusherStop, flusherPc, written, covered>>
workerKeeps  == <<policy, interval, closed, enqueuedSeq, accepted, writerVars,
                  dropVars, flushVars, onceVars, closePc, flusherStop,
                  flusherPc, covered>>
flushersKeep == <<policy, interval, closed, bufferVars, workerVars, writerVars,
                  dropVars, onceVars, closePc, flusherStop, flusherPc, written>>
tickerKeeps  == <<policy, interval, closed, waiting, bufferVars, workerVars,
                  writerVars, dropVars, flushVars, onceVars, closePc,
                  flusherStop, written>>
closersKeep  == <<policy, interval, flusherPc, bufferVars, workerVars,
                  writerVars, dropVars, flushVars, written>>

Policies == {"Block", "DropNewest", "DropOldest"}

----------------------------------------------------------------------------
(* The buffer and its sequence numbers.                                    *)

\* Faulty variant: an off-by-one at the capacity.
FullOffByOne == Len(queue) > Capacity

Full == Len(queue) >= Capacity

\* The waits of the three kinds of goroutine: the loop conditions around
\* cond.Wait.
WriterMustWait == Full /\ ~closed

WorkerMustWait == queue = <<>> /\ ~closed

MinUnresolvedSeq ==
    IF inFlightSeq # 0 THEN inFlightSeq
    ELSE IF queue # <<>> THEN headSeq
    ELSE enqueuedSeq + 1

FlushMustWait(t) == MinUnresolvedSeq <= t

NoBroadcast == UNCHANGED waiting

\* Faulty variant: cond.Signal, which wakes some one goroutine.
Signal ==
    \/ waiting = {} /\ waiting' = {}
    \/ \E g \in waiting : waiting' = waiting \ {g}

Broadcast == waiting' = {}

\* Append the message to the buffer contents q whose head has number h.
Enqueue(q, h) ==
    /\ enqueuedSeq' = enqueuedSeq + 1
    /\ headSeq' = IF q = <<>> THEN enqueuedSeq + 1 ELSE h
    /\ queue' = Append(q, accepted + 1)
    /\ accepted' = accepted + 1

----------------------------------------------------------------------------
(* Write.                                                                  *)

\* Bound on the exploration: how many more messages writers may offer.
BlockedWriters == {w \in Writers : writerPc[w] = "blocked"}

MayOffer == accepted + turnedAway + Cardinality(BlockedWriters) < MaxWrites

CanCall(w) == writerPc[w] \in {"idle", "refused"}

\* A goroutine parked in the Block case that has been woken.
Woken(w) == writerPc[w] = "blocked" /\ w \notin waiting

\* Return ErrAsyncClosed.
Refuse(w) ==
    /\ closed
    /\ writerPc' = [writerPc EXCEPT ![w] = "refused"]
    /\ UNCHANGED <<writersKeep, bufferVars, dropVars, total, waiting>>

\* The end of Write: an open buffer with room.
Admit(w) ==
    /\ ~closed
    /\ ~Full
    /\ Enqueue(queue, headSeq)
    /\ Broadcast
    /\ writerPc' = [writerPc EXCEPT ![w] = "idle"]
    /\ UNCHANGED <<writersKeep, dropVars, total>>

WriteRefused(w) == CanCall(w) /\ Refuse(w)

WriteEnqueue(w) == CanCall(w) /\ MayOffer /\ Admit(w)

WriteDropNewest(w) ==
    /\ CanCall(w)
    /\ MayOffer
    /\ ~closed
    /\ policy = "DropNewest"
    /\ Full
    /\ dropped' = dropped + 1
    /\ turnedAway' = turnedAway + 1
    /\ total' = [total EXCEPT ![w] = dropped + 1]
    /\ writerPc' = [writerPc EXCEPT ![w] = "notifying"]
    /\ UNCHANGED <<writersKeep, bufferVars, lost, waiting, notices>>

WriteDropOldest(w) ==
    /\ CanCall(w)
    /\ MayOffer
    /\ ~closed
    /\ policy = "DropOldest"
    /\ Full
    /\ lost' = lost \cup {Head(queue)}
    /\ dropped' = dropped + 1
    /\ Enqueue(Tail(queue), headSeq + 1)
    /\ Broadcast
    /\ total' = [total EXCEPT ![w] = dropped + 1]
    /\ writerPc' = [writerPc EXCEPT ![w] = "notifying"]
    /\ UNCHANGED <<writersKeep, turnedAway, notices>>

WriteBlock(w) ==
    /\ CanCall(w)
    /\ MayOffer
    /\ policy = "Block"
    /\ WriterMustWait
    /\ writerPc' = [writerPc EXCEPT ![w] = "blocked"]
    /\ waiting' = waiting \cup {w}
    /\ UNCHANGED <<writersKeep, bufferVars, dropVars, total>>

\* A woken writer checks its condition again under the mutex.
WriteBlockAgain(w) ==
    /\ Woken(w)
    /\ WriterMustWait
    /\ waiting' = waiting \cup {w}
    /\ UNCHANGED <<writersKeep, bufferVars, writerVars, dropVars>>

WriteResumeRefused(w) == Woken(w) /\ Refuse(w)

WriteResumeEnqueue(w) == Woken(w) /\ Admit(w)

\* Faulty variant: the total is read after the unlock.
NotifyDropLate(w) ==
    /\ writerPc[w] = "notifying"
    /\ notices' = notices \cup {dropped}
    /\ writerPc' = [writerPc EXCEPT ![w] = "idle"]
    /\ UNCHANGED <<writersKeep, bufferVars, total, dropped, lost, turnedAway,
                   waiting>>

\* The handler runs outside the mutex, with the total read under it.
NotifyDrop(w) ==
    /\ writerPc[w] = "notifying"
    /\ notices' = notices \cup {total[w]}
    /\ writerPc' = [writerPc EXCEPT ![w] = "idle"]
    /\ UNCHANGED <<writersKeep, bufferVars, total, dropped, lost, turnedAway,
                   waiting>>

----------------------------------------------------------------------------
(* The worker.                                                             *)

WorkerWait ==
    /\ workerPc = "idle"
    /\ Worker \notin waiting
    /\ WorkerMustWait
    /\ waiting' = waiting \cup {Worker}
    /\ UNCHANGED <<workerKeeps, workerVars, queue, headSeq, written>>

\* Faulty variant: the buffer is cut, and not shifted.
WorkerTakeUnshifted ==
    /\ workerPc = "idle"
    /\ Worker \notin waiting
    /\ queue # <<>>
    /\ inHand' = Head(queue)
    /\ inFlightSeq' = headSeq
    /\ headSeq' = headSeq + 1
    /\ queue' = SubSeq(queue, 1, Len(queue) - 1)
    /\ Broadcast
    /\ workerPc' = "writing"
    /\ UNCHANGED <<workerKeeps, written>>

WorkerTake ==
    /\ workerPc = "idle"
    /\ Worker \notin waiting
    /\ queue # <<>>
    /\ inHand' = Head(queue)
    /\ inFlightSeq' = headSeq
    /\ headSeq' = headSeq + 1
    /\ queue' = Tail(queue)
    /\ Broadcast
    /\ workerPc' = "writing"
    /\ UNCHANGED <<workerKeeps, written>>

\* The inner Write returns: with nil, an error, or a panic that writeInner
\* turns into an error.  All three resolve the message; an error is what the
\* worker then reports.
WorkerWrite ==
    /\ workerPc = "writing"
    /\ written' = written \cup {inHand}
    /\ workerPc' \in {"written", "failed"}
    /\ UNCHANGED <<workerKeeps, queue, headSeq, inHand, inFlightSeq, waiting>>

\* Faulty variant: nobody is told that the message is resolved.
WorkerResolveQuietly ==
    /\ workerPc \in {"written", "failed"}
    /\ inFlightSeq' = 0
    /\ inHand' = 0
    /\ NoBroadcast
    /\ workerPc' = IF workerPc = "failed" THEN "notifying" ELSE "idle"
    /\ UNCHANGED <<workerKeeps, queue, headSeq, written>>

WorkerResolve ==
    /\ workerPc \in {"written", "failed"}
    /\ inFlightSeq' = 0
    /\ inHand' = 0
    /\ Broadcast
    /\ workerPc' = IF workerPc = "failed" THEN "notifying" ELSE "idle"
    /\ UNCHANGED <<workerKeeps, queue, headSeq, written>>

\* The error handler has been called, outside the mutex.
WorkerNotify ==
    /\ workerPc = "notifying"
    /\ workerPc' = "idle"
    /\ UNCHANGED <<workerKeeps, queue, headSeq, inHand, inFlightSeq, waiting,
                   written>>

\* Faulty variant: the worker leaves messages behind.
WorkerExitEarly ==
    /\ workerPc = "idle"
    /\ Worker \notin waiting
    /\ closed
    /\ workerPc' = "exited"
    /\ UNCHANGED <<workerKeeps, queue, headSeq, inHand, inFlightSeq, waiting,
                   written>>

WorkerExit ==
    /\ workerPc = "idle"
    /\ Worker \notin waiting
    /\ queue = <<>>
    /\ closed
    /\ workerPc' = "exited"
    /\ UNCHANGED <<workerKeeps, queue, headSeq, inHand, inFlightSeq, waiting,
                   written>>

----------------------------------------------------------------------------
(* Flush.                                                                  *)

\* Past the wait: after Close the inner output is not flushed again.
FlushProceed(f) ==
    flushPc' = [flushPc EXCEPT ![f] = IF closed THEN "skipped" ELSE "flushing"]

FlushCall(f) ==
    /\ flushPc[f] \in {"idle", "skipped", "flushed", "failed"}
    /\ target' = [target EXCEPT ![f] = enqueuedSeq]
    /\ snapshot' = [snapshot EXCEPT ![f] = accepted]
    /\ IF FlushMustWait(enqueuedSeq)
         THEN /\ waiting' = waiting \cup {f}
              /\ flushPc' = [flushPc EXCEPT ![f] = "waiting"]
         ELSE /\ FlushProceed(f)
              /\ NoBroadcast
    /\ UNCHANGED <<flushersKeep, covered>>

FlushWaitAgain(f) ==
    /\ flushPc[f] = "waiting"
    /\ f \notin waiting
    /\ FlushMustWait(target[f])
    /\ waiting' = waiting \cup {f}
    /\ UNCHANGED <<flushersKeep, flushVars, covered>>

FlushResume(f) ==
    /\ flushPc[f] = "waiting"
    /\ f \notin waiting
    /\ ~FlushMustWait(target[f])
    /\ FlushProceed(f)
    /\ UNCHANGED <<flushersKeep, target, snapshot, waiting, covered>>

\* Faulty variant: the error of the inner flush is swallowed.
FlushInnerSwallowing(f) ==
    /\ flushPc[f] = "flushing"
    /\ flushPc' = [flushPc EXCEPT ![f] = "flushed"]
    /\ covered' \in {covered, written}
    /\ UNCHANGED <<flushersKeep, target, snapshot, waiting>>

\* flushInner: nil, or an error (a panic becomes one).
FlushInner(f) ==
    /\ flushPc[f] = "flushing"
    /\ \/ /\ flushPc' = [flushPc EXCEPT ![f] = "flushed"]
          /\ covered' = written
       \/ /\ flushPc' = [flushPc EXCEPT ![f] = "failed"]
          /\ UNCHANGED covered
    /\ UNCHANGED <<flushersKeep, target, snapshot, waiting>>

----------------------------------------------------------------------------
(* The interval flusher.                                                   *)

FlusherTick ==
    /\ flusherPc = "ticking"
    /\ flusherPc' = "flushing"
    /\ UNCHANGED <<tickerKeeps, covered>>

\* The flush, and the report of its error.
FlusherFlush ==
    /\ flusherPc = "flushing"
    /\ flusherPc' = "ticking"
    /\ covered' \in {covered, written}
    /\ UNCHANGED tickerKeeps

FlusherExit ==
    /\ flusherPc = "ticking"
    /\ flusherStop
    /\ flusherPc' = "exited"
    /\ UNCHANGED <<tickerKeeps, covered>>

----------------------------------------------------------------------------
(* Close.                                                                  *)

CanClose(c) == closePc[c] \in {"idle", "returned"}

CloseStep(c, from, to) ==
    /\ closePc[c] = from
    /\ closePc' = [closePc EXCEPT ![c] = to]

CloseBegin(c) ==
    /\ CanClose(c)
    /\ closeOnce = "new"
    /\ closeOnce' = "running"
    /\ closed' = TRUE
    /\ Broadcast
    /\ closePc' = [closePc EXCEPT ![c] = "stopping"]
    /\ UNCHANGED <<closersKeep, closeResult, closeErr, flusherStop,
                   innerCloses, covered>>

\* Faulty variant: a flag instead of the Once.
CloseRepeatEarly(c) ==
    /\ CanClose(c)
    /\ closeOnce # "new"
    /\ closePc' = [closePc EXCEPT ![c] = "returned"]
    /\ closeResult' = [closeResult EXCEPT ![c] = closeErr]
    /\ UNCHANGED <<closersKeep, closeOnce, closeErr, flusherStop,
                   innerCloses, closed, waiting, covered>>

\* Every later call waits for the first one to end and returns its outcome.
CloseRepeat(c) ==
    /\ CanClose(c)
    /\ closeOnce # "new"
    /\ closePc' = [closePc EXCEPT ![c] = "onceWait"]
    /\ UNCHANGED <<closersKeep, onceVars, flusherStop, closed, waiting,
                   covered>>

CloseRepeatReturn(c) ==
    /\ CloseStep(c, "onceWait", "returned")
    /\ closeOnce = "done"
    /\ closeResult' = [closeResult EXCEPT ![c] = closeErr]
    /\ UNCHANGED <<closersKeep, closeOnce, closeErr, flusherStop,
                   innerCloses, closed, waiting, covered>>

CloseStopFlusher(c) ==
    /\ CloseStep(c, "stopping", "joining")
    /\ flusherStop' = interval
    /\ UNCHANGED <<closersKeep, onceVars, closed, waiting, covered>>

CloseJoinFlusher(c) ==
    /\ CloseStep(c, "joining", "draining")
    /\ flusherPc \in {"none", "exited"}
    /\ UNCHANGED <<closersKeep, onceVars, flusherStop, closed, waiting,
                   covered>>

CloseJoinWorker(c) ==
    /\ CloseStep(c, "draining", "flushing")
    /\ workerPc = "exited"
    /\ UNCHANGED <<closersKeep, onceVars, flusherStop, closed, waiting,
                   covered>>

CloseFlushInner(c) ==
    /\ \/ /\ CloseStep(c, "flushing", "closing")
          /\ covered' = written
       \/ /\ CloseStep(c, "flushing", "closingAfterError")
          /\ UNCHANGED covered
    /\ UNCHANGED <<closersKeep, onceVars, flusherStop, closed, waiting>>

\* The inner Close returns nil or an error; nothing converts its panic, which
\* leaves closeErr unset and the Once done.
CloseInner(c) ==
    /\ closePc[c] \in {"closing", "closingAfterError"}
    /\ innerCloses' = innerCloses + 1
    /\ closeOnce' = "done"
    /\ \/ /\ closeErr' \in IF closePc[c] = "closing" THEN {"nil", "error"}
                                                  ELSE {"error"}
          /\ closeResult' = [closeResult EXCEPT ![c] = closeErr']
          /\ closePc' = [closePc EXCEPT ![c] = "returned"]
       \/ /\ closePc' = [closePc EXCEPT ![c] = "panicked"]
          /\ UNCHANGED <<closeErr, closeResult>>
    /\ UNCHANGED <<closersKeep, flusherStop, closed, waiting, covered>>

----------------------------------------------------------------------------
Init ==
    /\ policy \in Policies
    /\ interval \in BOOLEAN
    /\ closed = FALSE
    /\ dropped = 0
    /\ queue = <<>>
    /\ enqueuedSeq = 0
    /\ headSeq = 0
    /\ inFlightSeq = 0
    /\ waiting = {}
    /\ closeOnce = "new"
    /\ closeErr = "nil"
    /\ flusherStop = FALSE
    /\ workerPc = "idle"
    /\ inHand = 0
    /\ flusherPc = IF interval THEN "ticking" ELSE "none"
    /\ writerPc = [w \in Writers |-> "idle"]
    /\ total = [w \in Writers |-> 0]
    /\ flushPc = [f \in Flushers |-> "idle"]
    /\ target = [f \in Flushers |-> 0]
    /\ closePc = [c \in Closers |-> "idle"]
    /\ closeResult = [c \in Closers |-> "none"]
    /\ accepted = 0
    /\ written = {}
    /\ lost = {}
    /\ turnedAway = 0
    /\ notices = {}
    /\ snapshot = [f \in Flushers |-> 0]
    /\ covered = {}
    /\ innerCloses = 0

WriteStep(w) ==
    \/ WriteRefused(w) \/ WriteEnqueue(w) \/ WriteDropNewest(w)
    \/ WriteDropOldest(w) \/ WriteBlock(w) \/ WriteBlockAgain(w)
    \/ WriteResumeRefused(w) \/ WriteResumeEnqueue(w) \/ NotifyDrop(w)

WorkerStep ==
    \/ WorkerWait \/ WorkerTake \/ WorkerWrite \/ WorkerResolve
    \/ WorkerNotify \/ WorkerExit

FlushStep(f) ==
    FlushCall(f) \/ FlushWaitAgain(f) \/ FlushResume(f) \/ FlushInner(f)

FlusherStep == FlusherTick \/ FlusherFlush \/ FlusherExit

CloseAnyStep(c) ==
    \/ CloseBegin(c) \/ CloseRepeat(c) \/ CloseRepeatReturn(c)
    \/ CloseStopFlusher(c) \/ CloseJoinFlusher(c) \/ CloseJoinWorker(c)
    \/ CloseFlushInner(c) \/ CloseInner(c)

Next ==
    \/ WorkerStep
    \/ FlusherStep
    \/ \E w \in Writers : WriteStep(w)
    \/ \E f \in Flushers : FlushStep(f)
    \/ \E c \in Closers : CloseAnyStep(c)

Spec == Init /\ [][Next]_vars

(* The calls of Write, Flush and Close are the environment's choice.  A    *)
(* call under way goes on: goroutines are scheduled, the mutex is          *)
(* starvation-free, and the inner output and the handler return.  The      *)
(* select of the interval flusher picks at random among ready cases, so it *)
(* does not ignore a closed stop channel for ever.                         *)
WriteContinues(w) ==
    \/ WriteBlockAgain(w) \/ WriteResumeRefused(w) \/ WriteResumeEnqueue(w)
    \/ NotifyDrop(w)

FlushContinues(f) == FlushWaitAgain(f) \/ FlushResume(f) \/ FlushInner(f)

CloseContinues(c) ==
    \/ CloseRepeatReturn(c) \/ CloseStopFlusher(c) \/ CloseJoinFlusher(c)
    \/ CloseJoinWorker(c) \/ CloseFlushInner(c) \/ CloseInner(c)

Fairness ==
    /\ WF_vars(WorkerStep)
    /\ WF_vars(FlusherFlush)
    /\ SF_vars(FlusherExit)
    /\ \A w \in Writers : WF_vars(WriteContinues(w))
    /\ \A f \in Flushers : WF_vars(FlushContinues(f))
    /\ \A c \in Closers : WF_vars(CloseContinues(c))

FairSpec == Spec /\ Fairness

----------------------------------------------------------------------------
(* Properties.                                                               *)

Queued == {queue[i] : i \in 1..Len(queue)}

Held == IF inHand = 0 THEN {} ELSE {inHand}

\* What the code calls RESOLVED (output/async.go:129-131): written or given
\* up, and no longer marked as in flight.
Resolved == (written \cup lost) \ Held

BufferType ==
    /\ queue \in Seq(Nat \ {0})
    /\ Len(queue) <= Capacity
    /\ enqueuedSeq \in Nat
    /\ headSeq \in Nat
    /\ accepted \in Nat

WorkerType ==
    /\ workerPc \in {"idle", "writing", "written", "failed", "notifying",
                     "exited"}
    /\ inHand \in Nat
    /\ inFlightSeq \in Nat
    /\ written \subseteq Nat

WriterType ==
    /\ writerPc \in [Writers -> {"idle", "blocked", "notifying", "refused"}]
    /\ total \in [Writers -> Nat]
    /\ dropped \in Nat
    /\ turnedAway \in Nat
    /\ lost \subseteq Nat
    /\ notices \subseteq Nat

FlushType ==
    /\ flushPc \in [Flushers -> {"idle", "waiting", "flushing", "flushed",
                                 "failed", "skipped"}]
    /\ target \in [Flushers -> Nat]
    /\ snapshot \in [Flushers -> Nat]

CloseType ==
    /\ closePc \in [Closers -> {"idle", "stopping", "joining", "draining",
                                "flushing", "closing", "closingAfterError",
                                "onceWait", "returned", "panicked"}]
    /\ closeResult \in [Closers -> {"none", "nil", "error"}]
    /\ closeOnce \in {"new", "running", "done"}
    /\ closeErr \in {"nil", "error"}
    /\ closed \in BOOLEAN
    /\ flusherStop \in BOOLEAN
    /\ innerCloses \in Nat

SharedType ==
    /\ policy \in Policies
    /\ interval \in BOOLEAN
    /\ flusherPc \in {"none", "ticking", "flushing", "exited"}
    /\ waiting \subseteq Writers \cup Flushers \cup {Worker}
    /\ covered \subseteq Nat

\* The shape of the state.  The one bound that matters is that the buffer
\* never exceeds its capacity, under every policy (output/async.go:157-218).
TypeOK ==
    /\ BufferType /\ WorkerType /\ WriterType
    /\ FlushType /\ CloseType /\ SharedType

\* The bookkeeping agrees with the messages: the buffer holds exactly the most
\* recent accepted messages, in order, its head has the number headSeq, and
\* the number marked in flight is that of the message the worker holds.
\* output/async.go:127-131 claims it of enqueueLocked and dequeueLocked.
SeqAccounting ==
    /\ enqueuedSeq = accepted
    /\ \A i \in 1..Len(queue) : queue[i] = accepted - Len(queue) + i
    /\ queue # <<>> => headSeq = queue[1]
    /\ inFlightSeq = inHand
    /\ inHand # 0 <=> workerPc \in {"writing", "written", "failed"}

\* No message is duplicated or forgotten: every accepted message is in exactly
\* one place, except that the worker still holds what it has just written.
OneFateEach ==
    /\ written \cup lost \cup Queued \cup Held = 1..accepted
    /\ written \cap lost = {}
    /\ Queued \cap (written \cup lost \cup Held) = {}
    /\ Held \cap lost = {}
    /\ workerPc = "writing" => inHand \notin written

\* Accounted: every accepted message has one fate, and the sequence numbers
\* that Flush relies on tell which.
Accounted == SeqAccounting /\ OneFateEach

\* Flush's guarantee (output/async.go:220-225): past its wait, everything
\* accepted before the call has been written to the inner output or dropped.
FlushGuarantee ==
    \A f \in Flushers :
        flushPc[f] \in {"flushing", "flushed", "failed", "skipped"} =>
            1..snapshot[f] \subseteq Resolved

\* A parked goroutine has a reason to be parked: no change of the buffer, the
\* in-flight mark or the closed flag goes by without waking those it concerns,
\* and a Flush waits for nothing accepted after it was called.
NoLostWakeup ==
    /\ \A w \in Writers \cap waiting : Len(queue) = Capacity /\ ~closed
    /\ Worker \in waiting => queue = <<>> /\ ~closed
    /\ \A f \in Flushers \cap waiting :
            \E n \in 1..snapshot[f] : n \notin Resolved

\* The goroutines that wait for nothing, or for what is there already.
WorkerCanGo == workerPc # "exited" /\ Worker \notin waiting

FlusherCanGo ==
    \/ flusherPc = "flushing"
    \/ flusherPc = "ticking" /\ flusherStop

CloserCanGo(c) ==
    \/ closePc[c] \in {"stopping", "flushing", "closing", "closingAfterError"}
    \/ closePc[c] = "joining" /\ flusherPc \in {"none", "exited"}
    \/ closePc[c] = "draining" /\ workerPc = "exited"

\* The calls of Close that run the body of the Once: one, as long as it runs.
InOnce == {c \in Closers : closePc[c] \notin {"idle", "onceWait", "returned", "panicked"}}

\* Nobody waits in a circle: who is parked waits for the worker, which can go;
\* the call that runs the Once can go, or waits for the flusher or the worker,
\* which can; and the other calls of Close wait for that call, or for nobody.
\* (the three waits on one condition variable, the joins of Close, and the
\* Once, output/async.go:200-290)
NoCircularWait ==
    /\ waiting \ {Worker} # {} => WorkerCanGo
    /\ \A c \in InOnce : \/ CloserCanGo(c)
                         \/ closePc[c] = "joining" /\ FlusherCanGo
                         \/ closePc[c] = "draining" /\ WorkerCanGo
    /\ (\E c \in Closers : closePc[c] = "onceWait") => closeOnce = "done" \/ InOnce # {}

\* WaitsEnd: nobody sleeps through the event it waits for, and the event can
\* come.
WaitsEnd == NoLostWakeup /\ NoCircularWait

\* Every drop reaches the error handler once, with a total of its own: the
\* totals delivered and those on their way are 1..dropped, without repetition
\* (output/async.go:170-178, 184-196, 380).
NoticesOnce ==
    LET Notifying == {w \in Writers : writerPc[w] = "notifying"}
        OnTheirWay == {total[w] : w \in Notifying}
    IN  /\ notices \cup OnTheirWay = 1..dropped
        /\ notices \cap OnTheirWay = {}
        /\ \A v, w \in Notifying : total[v] = total[w] => v = w

\* A Flush that flushed the inner output and returned nil left nothing of its
\* snapshot behind: the inner flush came after those writes.
FlushIsDurable ==
    \A f \in Flushers :
        flushPc[f] = "flushed" => (1..snapshot[f]) \cap written \subseteq covered

\* A Flush that finds the closed flag set returns nil without an inner flush,
\* since Close makes one (output/async.go:224-225, 242-248): it has been made, or
\* is still to come, or has failed.  The flag alone does not tell which.
NoOpIsCovered ==
    \A f \in Flushers :
        flushPc[f] = "skipped" =>
            \/ (1..snapshot[f]) \cap written \subseteq covered
            \/ \E c \in Closers :
                  closePc[c] \in {"stopping", "joining", "draining", "flushing"}
            \/ \E c \in Closers : closePc[c] \in {"closingAfterError", "panicked"}
            \/ closeErr = "error"

\* FlushHolds: what Flush promises of the writes before it, and of the inner
\* flush, holds whenever it returns nil, also when it leaves that to Close.
FlushHolds == FlushGuarantee /\ FlushIsDurable /\ NoOpIsCovered

\* The inner output is closed at most once, and only when both goroutines are
\* gone and every accepted message has met its fate; no call of Close returns
\* before that (output/async.go:253-290).
CloseGuarantee ==
    /\ innerCloses <= 1
    /\ innerCloses = 1 =>
          /\ closed
          /\ workerPc = "exited"
          /\ flusherPc \in {"none", "exited"}
          /\ written \cup lost = 1..accepted
    /\ \A c \in Closers :
          closePc[c] \in {"returned", "panicked"} => innerCloses = 1

\* Every call of Close that returns has the outcome of the first one, and nil
\* means that the final flush covered everything written - as long as the
\* inner Close did not panic.
CloseOutcome ==
    \/ \E c \in Closers : closePc[c] = "panicked"
    \/ \A c \in Closers : closePc[c] = "returned" =>
          /\ closeResult[c] = closeErr
          /\ closeResult[c] = "nil" => covered = written

\* CloseHolds: Close is complete, happens once, and tells everybody the same.
CloseHolds == CloseGuarantee /\ CloseOutcome

\* Flush returns: a waiting call gets past its wait.
FlushReturns ==
    \A f \in Flushers : flushPc[f] = "waiting" ~> flushPc[f] # "waiting"

\* Close returns once begun, whatever the buffer holds and whoever waits.
CloseReturns == closeOnce = "running" ~> closeOnce = "done"

\* Close releases the writers blocked on a full buffer; each gets
\* ErrAsyncClosed or had been let in before.
CloseReleasesWriters ==
    \A w \in Writers :
        closed /\ writerPc[w] = "blocked" ~> writerPc[w] # "blocked"

\* CallsReturn: no call of Write, Flush or Close waits for ever, although all
\* of them wait on one condition variable.
CallsReturn == FlushReturns /\ CloseReturns /\ CloseReleasesWriters

\* The wrapper keeps the promise of LossyFifo: what the worker holds and has
\* not written yet is the head of the pending messages.
Pending == (IF workerPc = "writing" THEN <<inHand>> ELSE <<>>) \o queue

Promise == INSTANCE LossyFifo WITH
    Room <- Capacity + 1, taken <- accepted, pending <- Pending,
    handedOver <- written, displaced <- lost, shut <- closed

\* Refinement of the bounded pipe, its liveness included.
KeepsPromise == Promise!FifoSpec
=============================================================================
