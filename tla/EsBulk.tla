------------------------------- MODULE EsBulk -------------------------------
(***************************************************************************)
(* The Elasticsearch bulk output of es/bulk.go: one mutex around a bulk    *)
(* indexer which Flush drains and replaces.                                *)
(*                                                                         *)
(* The mutex is held while the indexer's Add blocks on a full queue, and   *)
(* while a drain waits for the workers, so it is a variable.  The indexer  *)
(* is a library, modelled from what bulk.go relies on: a bounded queue,    *)
(* workers that send or fail an item, a Close that drains until a timeout  *)
(* and must not be followed by an Add.  Each indexer built has a number;   *)
(* 0 is the nil indexer.                                                   *)
(***************************************************************************)
EXTENDS Integers, Sequences, FiniteSets

CONSTANTS
    Threads,        \* goroutines that call Write, Flush and Close
    Room,           \* items that the queue of an indexer holds
    MaxWrites,      \* bound: calls of Write
    MaxFlushes      \* bound: calls of Flush

ASSUME BulkAssumption ==
    /\ IsFiniteSet(Threads)
    /\ "free" \notin Threads
    /\ Room \in Nat \ {0}
    /\ MaxWrites \in Nat
    /\ MaxFlushes \in Nat

VARIABLES
    \* Fields of ElasticSearchBulk.
    mu, closed, closeErr, indexer,
    \* The indexers: the queue, the item that a worker has taken, and how far
    \* their life has come.
    queue, hand, phase,
    \* The calls: where they are, and errs, the errors joined so far.
    pc, result, errs,
    \* History.
    built,          \* indexers built so far
    accepted,       \* items added so far; an item is its number
    sent,           \* items sent
    failed,         \* items whose failure went to the error callback
    home,           \* the indexer that each accepted item was added to
    told,           \* indexers whose failed drain some call has returned
    covers,         \* items accepted before the call
    writes, flushes

fieldVars == <<closed, closeErr, indexer, built>>
indexerVars == <<queue, hand, phase>>
itemVars == <<accepted, home>>
fateVars == <<sent, failed>>
boundVars == <<writes, flushes>>

vars == <<mu, fieldVars, indexerVars, pc, result, errs, itemVars, fateVars,
          told, covers, boundVars>>

Indexers == 1..(MaxFlushes + 1)

\* The states of a call that is not under way.
Resting == {"idle", "wrote", "flushed", "closed"}

Return(t, place, r) ==
    /\ pc' = [pc EXCEPT ![t] = place]
    /\ result' = [result EXCEPT ![t] = r]

Locks(t, place) ==
    /\ mu = "free"
    /\ mu' = t
    /\ pc' = [pc EXCEPT ![t] = place]

\* The end of a call that holds the mutex.
Unlocks(t, place, r) ==
    /\ mu' = "free"
    /\ Return(t, place, r)

----------------------------------------------------------------------------
(* Write.                                                                  *)

\* A document that is no JSON, or that takes several lines and cannot be
\* compacted, goes no further.
WriteCall(t) ==
    /\ pc[t] \in Resting
    /\ writes < MaxWrites
    /\ writes' = writes + 1
    /\ \/ Return(t, "wrote", "error")
       \/ Return(t, "writing", "none")
    /\ UNCHANGED <<mu, fieldVars, indexerVars, errs, itemVars, fateVars, told,
                   covers, flushes>>

WriteRefused(t) ==
    /\ pc[t] = "writing"
    /\ mu = "free"
    /\ closed \/ indexer = 0
    /\ Return(t, "wrote", "error")
    /\ UNCHANGED <<mu, fieldVars, indexerVars, errs, itemVars, fateVars, told,
                   covers, boundVars>>

WriteLock(t) ==
    /\ pc[t] = "writing"
    /\ ~closed
    /\ indexer # 0
    /\ Locks(t, "adding")
    /\ UNCHANGED <<fieldVars, indexerVars, result, errs, itemVars, fateVars, told,
                   covers, boundVars>>

\* Add waits for room in the queue, or fails.
WriteAdd(t) ==
    /\ pc[t] = "adding"
    /\ Len(queue[indexer]) < Room
    /\ queue' = [queue EXCEPT ![indexer] = Append(@, accepted + 1)]
    /\ accepted' = accepted + 1
    /\ home' = Append(home, indexer)
    /\ Unlocks(t, "wrote", "nil")
    /\ UNCHANGED <<fieldVars, hand, phase, errs, fateVars, told, covers, boundVars>>

\* Faulty variant: the error path leaves the mutex locked.
WriteAddFailsLocked(t) ==
    /\ pc[t] = "adding"
    /\ Return(t, "wrote", "error")
    /\ UNCHANGED <<mu, fieldVars, indexerVars, errs, itemVars, fateVars, told, covers,
                   boundVars>>

WriteAddFails(t) ==
    /\ pc[t] = "adding"
    /\ Unlocks(t, "wrote", "error")
    /\ UNCHANGED <<fieldVars, indexerVars, errs, itemVars, fateVars, told, covers,
                   boundVars>>

----------------------------------------------------------------------------
(* The indexer's Close, as Flush and Close call it: it returns when all    *)
(* items are through, or fails at the latest when the time is up.          *)

DrainBegins == phase' = [phase EXCEPT ![indexer] = "draining"]

Drained == queue[indexer] = <<>> /\ hand[indexer] = 0

DrainEnds(t, to) ==
    /\ \/ /\ Drained
          /\ phase' = [phase EXCEPT ![indexer] = "drained"]
          /\ errs' = [errs EXCEPT ![t] = "nil"]
       \/ /\ phase' = [phase EXCEPT ![indexer] = "abandoned"]
          /\ errs' = [errs EXCEPT ![t] = "error"]
    /\ pc' = [pc EXCEPT ![t] = to]
    /\ UNCHANGED <<mu, fieldVars, queue, hand, result, itemVars, fateVars, told,
                   covers, boundVars>>

\* The error of a drain is returned to the caller.
Tell(t) == told' = told \cup {i \in {indexer} : errs[t] = "error"}

----------------------------------------------------------------------------
(* Flush.                                                                  *)

FlushCall(t) ==
    /\ pc[t] \in Resting
    /\ flushes < MaxFlushes
    /\ flushes' = flushes + 1
    /\ Return(t, "toFlush", "none")
    /\ covers' = [covers EXCEPT ![t] = 1..accepted]
    /\ UNCHANGED <<mu, fieldVars, indexerVars, errs, itemVars, fateVars, told, writes>>

FlushSkip(t) ==
    /\ pc[t] = "toFlush"
    /\ mu = "free"
    /\ closed
    /\ Return(t, "flushed", "nil")
    /\ UNCHANGED <<mu, fieldVars, indexerVars, errs, itemVars, fateVars, told,
                   covers, boundVars>>

FlushBegins(t) ==
    /\ pc[t] = "toFlush"
    /\ ~closed
    /\ \/ /\ indexer # 0
          /\ Locks(t, "draining")
          /\ DrainBegins
       \/ /\ indexer = 0
          /\ Locks(t, "rebuilding")
          /\ UNCHANGED phase
    /\ errs' = [errs EXCEPT ![t] = "nil"]
    /\ UNCHANGED <<fieldVars, queue, hand, result, itemVars, fateVars, told,
                   covers, boundVars>>

FlushDrains(t) == pc[t] = "draining" /\ DrainEnds(t, "rebuilding")

\* Faulty variant: the error of the drain is forgotten.
FlushRebuildsSilently(t) ==
    /\ pc[t] = "rebuilding"
    /\ indexer' = built + 1
    /\ built' = built + 1
    /\ Unlocks(t, "flushed", "nil")
    /\ UNCHANGED <<closed, closeErr, indexerVars, errs, itemVars, fateVars, told,
                   covers, boundVars>>

\* The new indexer takes the place of the old one even if the drain failed.
FlushRebuilds(t) ==
    /\ pc[t] = "rebuilding"
    /\ indexer' = built + 1
    /\ built' = built + 1
    /\ Tell(t)
    /\ Unlocks(t, "flushed", errs[t])
    /\ UNCHANGED <<closed, closeErr, indexerVars, errs, itemVars, fateVars, covers,
                   boundVars>>

\* Faulty variant: the drained indexer stays.
FlushKeepsOld(t) ==
    /\ pc[t] = "rebuilding"
    /\ Tell(t)
    /\ Unlocks(t, "flushed", "error")
    /\ UNCHANGED <<fieldVars, indexerVars, errs, itemVars, fateVars, covers, boundVars>>

FlushRebuildFails(t) ==
    /\ pc[t] = "rebuilding"
    /\ indexer' = 0
    /\ Tell(t)
    /\ Unlocks(t, "flushed", "error")
    /\ UNCHANGED <<closed, closeErr, built, indexerVars, errs, itemVars, fateVars,
                   covers, boundVars>>

----------------------------------------------------------------------------
(* Close.                                                                  *)

CloseCall(t) ==
    /\ pc[t] \in Resting
    /\ Return(t, "toClose", "none")
    /\ covers' = [covers EXCEPT ![t] = 1..accepted]
    /\ UNCHANGED <<mu, fieldVars, indexerVars, errs, itemVars, fateVars, told, boundVars>>

CloseAgain(t) ==
    /\ pc[t] = "toClose"
    /\ mu = "free"
    /\ closed
    /\ Return(t, "closed", closeErr)
    /\ UNCHANGED <<mu, fieldVars, indexerVars, errs, itemVars, fateVars, told,
                   covers, boundVars>>

CloseNothing(t) ==
    /\ pc[t] = "toClose"
    /\ mu = "free"
    /\ ~closed
    /\ indexer = 0
    /\ closed' = TRUE
    /\ Return(t, "closed", "nil")
    /\ UNCHANGED <<mu, closeErr, indexer, built, indexerVars, errs, itemVars,
                   fateVars, told, covers, boundVars>>

CloseBegins(t) ==
    /\ pc[t] = "toClose"
    /\ ~closed
    /\ indexer # 0
    /\ closed' = TRUE
    /\ Locks(t, "closing")
    /\ DrainBegins
    /\ UNCHANGED <<closeErr, indexer, built, queue, hand, result, errs, itemVars,
                   fateVars, told, covers, boundVars>>

CloseDrains(t) == pc[t] = "closing" /\ DrainEnds(t, "ending")

\* Faulty variant: the outcome is returned, but not kept.
CloseForgets(t) ==
    /\ pc[t] = "ending"
    /\ Tell(t)
    /\ Unlocks(t, "closed", errs[t])
    /\ UNCHANGED <<fieldVars, indexerVars, errs, itemVars, fateVars, covers, boundVars>>

CloseEnds(t) ==
    /\ pc[t] = "ending"
    /\ closeErr' = errs[t]
    /\ Tell(t)
    /\ Unlocks(t, "closed", errs[t])
    /\ UNCHANGED <<closed, indexer, built, indexerVars, errs, itemVars, fateVars,
                   covers, boundVars>>

----------------------------------------------------------------------------
(* A worker of the indexer i, whose drain it may outlive.                  *)

WorkerTakes(i) ==
    /\ hand[i] = 0
    /\ queue[i] # <<>>
    /\ hand' = [hand EXCEPT ![i] = Head(queue[i])]
    /\ queue' = [queue EXCEPT ![i] = Tail(@)]
    /\ UNCHANGED <<mu, fieldVars, phase, pc, result, errs, itemVars, fateVars, told,
                   covers, boundVars>>

\* The item is sent, or reportItemFailure gives its failure to the callback,
\* which the configuration is assumed to have (es/bulk.go:288-290).
WorkerSends(i) ==
    /\ hand[i] # 0
    /\ hand' = [hand EXCEPT ![i] = 0]
    /\ \/ sent' = sent \cup {hand[i]} /\ UNCHANGED failed
       \/ failed' = failed \cup {hand[i]} /\ UNCHANGED sent
    /\ UNCHANGED <<mu, fieldVars, queue, phase, pc, result, errs, itemVars, told,
                   covers, boundVars>>

Worker(i) == WorkerTakes(i) \/ WorkerSends(i)

----------------------------------------------------------------------------
Init ==
    /\ mu = "free"
    /\ closed = FALSE
    /\ closeErr = "nil"
    /\ indexer = 1
    /\ queue = [i \in Indexers |-> <<>>]
    /\ hand = [i \in Indexers |-> 0]
    /\ phase = [i \in Indexers |-> "open"]
    /\ pc = [t \in Threads |-> "idle"]
    /\ result = [t \in Threads |-> "none"]
    /\ errs = [t \in Threads |-> "nil"]
    /\ built = 1
    /\ accepted = 0
    /\ sent = {}
    /\ failed = {}
    /\ home = <<>>
    /\ told = {}
    /\ covers = [t \in Threads |-> {}]
    /\ writes = 0
    /\ flushes = 0

Calls(t) == WriteCall(t) \/ FlushCall(t) \/ CloseCall(t)

\* The steps that need the mutex to be free, and those of the call that holds it.
Enters(t) ==
    \/ WriteRefused(t) \/ WriteLock(t)
    \/ FlushSkip(t) \/ FlushBegins(t)
    \/ CloseAgain(t) \/ CloseNothing(t) \/ CloseBegins(t)

Finishes(t) ==
    \/ WriteAdd(t)
    \/ FlushDrains(t) \/ FlushRebuilds(t) \/ FlushRebuildFails(t)
    \/ CloseDrains(t) \/ CloseEnds(t)

Next ==
    \/ \E t \in Threads : Calls(t) \/ Enters(t) \/ Finishes(t) \/ WriteAddFails(t)
    \/ \E i \in Indexers : Worker(i)

Spec == Init /\ [][Next]_vars

\* Goroutines are scheduled, Go's mutex is starvation-free, drains time out;
\* workers go on, and their callbacks return, so that a full queue gets room:
\* that Add fails is not relied on.
Fairness ==
    /\ \A t \in Threads : SF_vars(Enters(t)) /\ WF_vars(Finishes(t))
    /\ \A i \in Indexers : WF_vars(Worker(i))

FairSpec == Spec /\ Fairness

----------------------------------------------------------------------------
(* Properties.                                                             *)

OutputType ==
    /\ mu \in Threads \cup {"free"}
    /\ closed \in BOOLEAN
    /\ closeErr \in {"nil", "error"}
    /\ indexer \in 0..built
    /\ built \in 1..(flushes + 1)
    /\ flushes \in 0..MaxFlushes
    /\ writes \in Nat

IndexerType ==
    /\ queue \in [Indexers -> Seq(1..accepted)]
    /\ \A i \in Indexers : Len(queue[i]) <= Room
    /\ hand \in [Indexers -> 0..accepted]
    /\ phase \in [Indexers -> {"open", "draining", "drained", "abandoned"}]
    /\ told \subseteq Indexers

CallType ==
    /\ pc \in [Threads -> Resting \cup {"writing", "adding", "toFlush", "draining",
                                        "rebuilding", "toClose", "closing", "ending"}]
    /\ result \in [Threads -> {"none", "nil", "error"}]
    /\ errs \in [Threads -> {"nil", "error"}]
    /\ covers \in [Threads -> SUBSET (1..accepted)]

ItemType ==
    /\ accepted \in Nat
    /\ home \in [1..accepted -> Indexers]
    /\ sent \subseteq 1..accepted
    /\ failed \subseteq 1..accepted

Holding == {"adding", "draining", "rebuilding", "closing", "ending"}

\* Every variable keeps its type; the mutex is held by the one call that is
\* inside its critical section; no queue exceeds its room, and no more
\* indexers are built than Flush was called.
TypeOK ==
    /\ OutputType /\ IndexerType /\ CallType /\ ItemType
    /\ \A t \in Threads : pc[t] \in Holding <=> mu = t

\* An Add never meets an indexer that has been told to close, which "would
\* panic" (es/bulk.go:228-229), whichever of its drain and its replacement
\* failed; outside Flush and Close the output has an open indexer or none.
NeverAddToClosed ==
    /\ \A t \in Threads : pc[t] = "adding" => indexer # 0 /\ phase[indexer] = "open"
    /\ mu = "free" /\ ~closed /\ indexer # 0 => phase[indexer] = "open"

Settled == sent \cup failed

Waiting(i) == {queue[i][n] : n \in 1..Len(queue[i])} \cup ({hand[i]} \ {0})

\* Each accepted item has one place, the indexer it was added to, until it is
\* sent or its failure is reported to OnError, which is set; it is left behind there only when the
\* drain failed, and then a call has returned, or will return, that error.
LossesTold ==
    /\ sent \cap failed = {}
    /\ \A i \in Indexers :
          /\ Waiting(i) = {d \in 1..accepted : home[d] = i} \ Settled
          /\ i # indexer /\ Waiting(i) # {} => phase[i] = "abandoned" /\ i \in told
          /\ phase[i] = "abandoned" =>
                i \in told \/ \E t \in Threads :
                    mu = t /\ i = indexer /\ errs[t] = "error"

\* A Flush or a Close that returns nil leaves no item behind that was accepted
\* before it, except where another call has returned that the drain failed.
\* (es/bulk.go:197-200, 245-246)
NilCovers ==
    \A t \in Threads :
        pc[t] \in {"flushed", "closed"} /\ result[t] = "nil" =>
            \A d \in covers[t] : d \in Settled \/ home[d] \in told

\* NothingLostSilently: an item that is neither sent nor reported as failed was
\* given up by a call that says so.
NothingLostSilently == LossesTold /\ NilCovers

\* All calls of Close return the outcome of the first one; with nil nothing at
\* all is left behind in the indexer it closed.  (es/bulk.go:246-249)
CloseAgrees ==
    \A t \in Threads : pc[t] = "closed" =>
        /\ closed
        /\ result[t] = closeErr
        /\ result[t] = "nil" /\ indexer # 0 => Waiting(indexer) = {}

\* A step of the call is enabled, other than the failure of an Add.
CanGo(t) ==
    /\ pc[t] \in {"writing", "toFlush", "toClose"} => mu = "free"
    /\ pc[t] = "adding" => Len(queue[indexer]) < Room

\* Whoever waits for the mutex, or for room with the mutex held, waits for a
\* call that can go on or for a worker that can; never for a full queue that
\* nobody empties, as that of an indexer which is gone.
NobodyLockedOut ==
    \A t \in Threads : pc[t] \notin Resting =>
        \/ CanGo(t)
        \/ mu \in Threads /\ CanGo(mu)
        \/ indexer \in Indexers /\ (hand[indexer] # 0 \/ queue[indexer] # <<>>)

\* CloseHolds: what is closed stays closed, every caller hears how it ended, and
\* no call is locked out by another that cannot end.
CloseHolds == NeverAddToClosed /\ CloseAgrees /\ NobodyLockedOut

\* Every call comes back: Write although it waits for room with the mutex
\* held, Flush and Close although the drain may hang.
CallsEnd == \A t \in Threads : pc[t] \notin Resting ~> pc[t] \in Resting
=============================================================================
