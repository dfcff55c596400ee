---------------------------- MODULE EsBulkProofs ----------------------------
(***************************************************************************)
(* Theorems about the Elasticsearch bulk output, for any number of callers *)
(* and calls and any room in the queues.                                   *)
(***************************************************************************)
EXTENDS EsBulk, FiniteSetTheorems, SequenceTheorems, TLAPS

\* The calls of Flush that may still build an indexer.
Flushing == {"toFlush", "draining", "rebuilding"}
Pending == {t \in Threads : pc[t] \in Flushing}

\* No Flush builds more than one indexer: this keeps built within its bound.
Numbered == built + Cardinality(Pending) <= flushes + 1

\* Who uses the indexer has one.
HasIndexer ==
    \A t \in Threads :
        \/ pc[t] \in {"adding", "draining", "closing", "ending"}
        \/ pc[t] = "rebuilding" /\ errs[t] = "error"
        => indexer # 0

TypeInv == TypeOK /\ Numbered /\ HasIndexer

LEMMA PendingCounted ==
    /\ IsFiniteSet(Pending) /\ Cardinality(Pending) \in Nat
    /\ Cardinality(Pending') \in Nat
<1>1. IsFiniteSet(Pending)
  BY FS_Subset, BulkAssumption DEF Pending
<1>2. IsFiniteSet(Pending')
  BY FS_Subset, BulkAssumption DEF Pending
<1>3. QED
  BY <1>1, <1>2, FS_CardinalityType

\* How a step of the call of t changes the number of pending ones.
LEMMA PendingMoves ==
    ASSUME TypeOK, NEW t \in Threads, \A u \in Threads \ {t} : pc'[u] = pc[u]
    PROVE  /\ Cardinality(Pending') <= Cardinality(Pending) + 1
           /\ pc[t] \in Flushing \/ pc'[t] \notin Flushing =>
                Cardinality(Pending') <= Cardinality(Pending)
           /\ pc[t] \in Flushing /\ pc'[t] \notin Flushing =>
                Cardinality(Pending') = Cardinality(Pending) - 1
<1>1. IsFiniteSet(Pending) /\ Cardinality(Pending) \in Nat
  BY PendingCounted
<1>2. t \in Pending <=> pc[t] \in Flushing
  BY DEF Pending
<1>3. CASE pc'[t] \in Flushing
  <2>1. Pending' = Pending \cup {t}
    BY <1>3 DEF Pending
  <2>2. Cardinality(Pending') =
          IF t \in Pending THEN Cardinality(Pending) ELSE Cardinality(Pending) + 1
    BY <1>1, <2>1, FS_AddElement
  <2>3. QED
    BY <1>1, <1>2, <1>3, <2>2
<1>4. CASE pc'[t] \notin Flushing
  <2>1. Pending' = Pending \ {t}
    BY <1>4 DEF Pending
  <2>2. Cardinality(Pending') =
          IF t \in Pending THEN Cardinality(Pending) - 1 ELSE Cardinality(Pending)
    BY <1>1, <2>1, FS_RemoveElement
  <2>3. QED
    BY <1>1, <1>2, <1>4, <2>2
<1>5. QED
  BY <1>3, <1>4


\* A step of a call that starts no Flush and builds no indexer.
LEMMA NumberedKept ==
    ASSUME TypeOK, Numbered, NEW t \in Threads,
           \A u \in Threads \ {t} : pc'[u] = pc[u],
           pc[t] \in Flushing \/ pc'[t] \notin Flushing,
           built' = built, flushes' = flushes
    PROVE  Numbered'
<1>1. Cardinality(Pending) \in Nat /\ Cardinality(Pending') <= Cardinality(Pending)
  BY PendingCounted, PendingMoves
<1>2. built \in Nat /\ flushes \in Nat
  BY DEF TypeOK, OutputType
<1>3. QED
  BY <1>1, <1>2, PendingCounted DEF Numbered

LEMMA IndexerBuilt == TypeOK /\ indexer # 0 => indexer \in Indexers
  BY BulkAssumption DEF TypeOK, OutputType, Indexers

LEMMA InitTypes == Init => TypeInv
<1> SUFFICES ASSUME Init PROVE TypeInv
  OBVIOUS
<1>1. TypeOK
  <2>1. OutputType
    <3>1. flushes \in 0..MaxFlushes /\ built \in 1..(flushes + 1) /\ indexer \in 0..built
      BY BulkAssumption DEF Init
    <3>2. QED
      BY <3>1 DEF Init, OutputType
  <2>2. IndexerType
    BY BulkAssumption DEF Init, IndexerType, Indexers
  <2>3. CallType
    BY DEF Init, CallType, Resting
  <2>4. ItemType
    BY DEF Init, ItemType
  <2>5. \A t \in Threads : pc[t] \in Holding <=> mu = t
    BY BulkAssumption DEF Init, Holding
  <2>6. QED
    BY <2>1, <2>2, <2>3, <2>4, <2>5 DEF TypeOK
<1>2. Pending = {}
  BY DEF Init, Pending, Flushing
<1>3. Numbered
  BY <1>2, FS_EmptySet DEF Init, Numbered
<1>4. HasIndexer
  BY DEF Init, HasIndexer
<1>5. QED
  BY <1>1, <1>3, <1>4 DEF TypeInv

LEMMA TypesKept == TypeInv /\ [Next]_vars => TypeInv'
<1> SUFFICES ASSUME TypeInv, [Next]_vars PROVE TypeInv'
  OBVIOUS
<1> USE BulkAssumption DEF TypeInv, TypeOK, Return, Locks, Unlocks, fieldVars,
        indexerVars, itemVars, fateVars, boundVars
<1>1. ASSUME NEW t \in Threads, WriteCall(t) PROVE TypeInv'
  <2>1. OutputType'
    BY <1>1 DEF OutputType, Numbered, WriteCall
  <2>2. IndexerType'
    BY <1>1 DEF IndexerType, Indexers, OutputType, HasIndexer, WriteCall
  <2>3. CallType'
    BY <1>1 DEF CallType, Resting, OutputType, ItemType, WriteCall
  <2>4. ItemType'
    BY <1>1
    DEF ItemType, OutputType, IndexerType, Indexers, HasIndexer, WriteCall
  <2>5. (\A u \in Threads : pc[u] \in Holding <=> mu = u)'
    BY <1>1 DEF Holding, CallType, Resting, OutputType, WriteCall
  <2>6. Numbered'
    <3>1. /\ \A u \in Threads \ {t} : pc'[u] = pc[u]
          /\ pc[t] \in Flushing \/ pc'[t] \notin Flushing
      BY <1>1 DEF CallType, Flushing, Resting, WriteCall
    <3>2. QED
      BY <1>1, <3>1, NumberedKept DEF WriteCall
  <2>7. HasIndexer'
    BY <1>1 DEF HasIndexer, Holding, CallType, OutputType, Resting, WriteCall
  <2>8. QED
    BY <2>1, <2>2, <2>3, <2>4, <2>5, <2>6, <2>7
<1>2. ASSUME NEW t \in Threads, FlushCall(t) PROVE TypeInv'
  <2>1. OutputType'
    BY <1>2 DEF OutputType, Numbered, FlushCall
  <2>2. IndexerType'
    BY <1>2 DEF IndexerType, Indexers, OutputType, HasIndexer, FlushCall
  <2>3. CallType'
    BY <1>2 DEF CallType, Resting, OutputType, ItemType, FlushCall
  <2>4. ItemType'
    BY <1>2
    DEF ItemType, OutputType, IndexerType, Indexers, HasIndexer, FlushCall
  <2>5. (\A u \in Threads : pc[u] \in Holding <=> mu = u)'
    BY <1>2 DEF Holding, CallType, Resting, OutputType, FlushCall
  <2>6. Numbered'
    <3>1. \A u \in Threads \ {t} : pc'[u] = pc[u]
      BY <1>2 DEF FlushCall, CallType
    <3>2. Cardinality(Pending) \in Nat /\ Cardinality(Pending') <= Cardinality(Pending) + 1
      BY <3>1, PendingCounted, PendingMoves
    <3>3. QED
      BY <1>2, <3>2, PendingCounted DEF FlushCall, Numbered, OutputType
  <2>7. HasIndexer'
    BY <1>2 DEF HasIndexer, Holding, CallType, OutputType, Resting, FlushCall
  <2>8. QED
    BY <2>1, <2>2, <2>3, <2>4, <2>5, <2>6, <2>7
<1>3. ASSUME NEW t \in Threads, CloseCall(t) PROVE TypeInv'
  <2>1. OutputType'
    BY <1>3 DEF OutputType, Numbered, CloseCall
  <2>2. IndexerType'
    BY <1>3 DEF IndexerType, Indexers, OutputType, HasIndexer, CloseCall
  <2>3. CallType'
    BY <1>3 DEF CallType, Resting, OutputType, ItemType, CloseCall
  <2>4. ItemType'
    BY <1>3
    DEF ItemType, OutputType, IndexerType, Indexers, HasIndexer, CloseCall
  <2>5. (\A u \in Threads : pc[u] \in Holding <=> mu = u)'
    BY <1>3 DEF Holding, CallType, Resting, OutputType, CloseCall
  <2>6. Numbered'
    <3>1. /\ \A u \in Threads \ {t} : pc'[u] = pc[u]
          /\ pc[t] \in Flushing \/ pc'[t] \notin Flushing
      BY <1>3 DEF CallType, Flushing, Resting, CloseCall
    <3>2. QED
      BY <1>3, <3>1, NumberedKept DEF CloseCall
  <2>7. HasIndexer'
    BY <1>3 DEF HasIndexer, Holding, CallType, OutputType, Resting, CloseCall
  <2>8. QED
    BY <2>1, <2>2, <2>3, <2>4, <2>5, <2>6, <2>7
<1>4. ASSUME NEW t \in Threads, WriteRefused(t) PROVE TypeInv'
  <2>1. OutputType'
    BY <1>4 DEF OutputType, Numbered, WriteRefused
  <2>2. IndexerType'
    BY <1>4 DEF IndexerType, Indexers, OutputType, HasIndexer, WriteRefused
  <2>3. CallType'
    BY <1>4 DEF CallType, Resting, OutputType, ItemType, WriteRefused
  <2>4. ItemType'
    BY <1>4
    DEF ItemType, OutputType, IndexerType, Indexers, HasIndexer, WriteRefused
  <2>5. (\A u \in Threads : pc[u] \in Holding <=> mu = u)'
    BY <1>4 DEF Holding, CallType, Resting, OutputType, WriteRefused
  <2>6. Numbered'
    <3>1. /\ \A u \in Threads \ {t} : pc'[u] = pc[u]
          /\ pc[t] \in Flushing \/ pc'[t] \notin Flushing
      BY <1>4 DEF CallType, Flushing, Resting, WriteRefused
    <3>2. QED
      BY <1>4, <3>1, NumberedKept DEF WriteRefused
  <2>7. HasIndexer'
    BY <1>4
    DEF HasIndexer, Holding, CallType, OutputType, Resting, WriteRefused
  <2>8. QED
    BY <2>1, <2>2, <2>3, <2>4, <2>5, <2>6, <2>7
<1>5. ASSUME NEW t \in Threads, WriteLock(t) PROVE TypeInv'
  <2>1. OutputType'
    BY <1>5 DEF OutputType, Numbered, WriteLock
  <2>2. IndexerType'
    BY <1>5 DEF IndexerType, Indexers, OutputType, HasIndexer, WriteLock
  <2>3. CallType'
    BY <1>5 DEF CallType, Resting, OutputType, ItemType, WriteLock
  <2>4. ItemType'
    BY <1>5
    DEF ItemType, OutputType, IndexerType, Indexers, HasIndexer, WriteLock
  <2>5. (\A u \in Threads : pc[u] \in Holding <=> mu = u)'
    BY <1>5 DEF Holding, CallType, Resting, OutputType, WriteLock
  <2>6. Numbered'
    <3>1. /\ \A u \in Threads \ {t} : pc'[u] = pc[u]
          /\ pc[t] \in Flushing \/ pc'[t] \notin Flushing
      BY <1>5 DEF CallType, Flushing, Resting, WriteLock
    <3>2. QED
      BY <1>5, <3>1, NumberedKept DEF WriteLock
  <2>7. HasIndexer'
    BY <1>5 DEF HasIndexer, Holding, CallType, OutputType, Resting, WriteLock
  <2>8. QED
    BY <2>1, <2>2, <2>3, <2>4, <2>5, <2>6, <2>7
<1>6. ASSUME NEW t \in Threads, FlushSkip(t) PROVE TypeInv'
  <2>1. OutputType'
    BY <1>6 DEF OutputType, Numbered, FlushSkip
  <2>2. IndexerType'
    BY <1>6 DEF IndexerType, Indexers, OutputType, HasIndexer, FlushSkip
  <2>3. CallType'
    BY <1>6 DEF CallType, Resting, OutputType, ItemType, FlushSkip
  <2>4. ItemType'
    BY <1>6
    DEF ItemType, OutputType, IndexerType, Indexers, HasIndexer, FlushSkip
  <2>5. (\A u \in Threads : pc[u] \in Holding <=> mu = u)'
    BY <1>6 DEF Holding, CallType, Resting, OutputType, FlushSkip
  <2>6. Numbered'
    <3>1. /\ \A u \in Threads \ {t} : pc'[u] = pc[u]
          /\ pc[t] \in Flushing \/ pc'[t] \notin Flushing
      BY <1>6 DEF CallType, Flushing, Resting, FlushSkip
    <3>2. QED
      BY <1>6, <3>1, NumberedKept DEF FlushSkip
  <2>7. HasIndexer'
    BY <1>6 DEF HasIndexer, Holding, CallType, OutputType, Resting, FlushSkip
  <2>8. QED
    BY <2>1, <2>2, <2>3, <2>4, <2>5, <2>6, <2>7
<1>7. ASSUME NEW t \in Threads, FlushBegins(t) PROVE TypeInv'
  <2>1. OutputType'
    BY <1>7 DEF OutputType, Numbered, FlushBegins, DrainBegins
  <2>2. IndexerType'
    BY <1>7
    DEF IndexerType, Indexers, OutputType, HasIndexer, FlushBegins,
        DrainBegins
  <2>3. CallType'
    BY <1>7
    DEF CallType, Resting, OutputType, ItemType, FlushBegins, DrainBegins
  <2>4. ItemType'
    BY <1>7
    DEF ItemType, OutputType, IndexerType, Indexers, HasIndexer, FlushBegins,
        DrainBegins
  <2>5. (\A u \in Threads : pc[u] \in Holding <=> mu = u)'
    BY <1>7
    DEF Holding, CallType, Resting, OutputType, FlushBegins, DrainBegins
  <2>6. Numbered'
    <3>1. /\ \A u \in Threads \ {t} : pc'[u] = pc[u]
          /\ pc[t] \in Flushing \/ pc'[t] \notin Flushing
      BY <1>7 DEF CallType, Flushing, Resting, FlushBegins, DrainBegins
    <3>2. QED
      BY <1>7, <3>1, NumberedKept DEF FlushBegins, DrainBegins
  <2>7. HasIndexer'
    BY <1>7
    DEF HasIndexer, Holding, CallType, OutputType, Resting, FlushBegins,
        DrainBegins
  <2>8. QED
    BY <2>1, <2>2, <2>3, <2>4, <2>5, <2>6, <2>7
<1>8. ASSUME NEW t \in Threads, CloseAgain(t) PROVE TypeInv'
  <2>1. OutputType'
    BY <1>8 DEF OutputType, Numbered, CloseAgain
  <2>2. IndexerType'
    BY <1>8 DEF IndexerType, Indexers, OutputType, HasIndexer, CloseAgain
  <2>3. CallType'
    BY <1>8 DEF CallType, Resting, OutputType, ItemType, CloseAgain
  <2>4. ItemType'
    BY <1>8
    DEF ItemType, OutputType, IndexerType, Indexers, HasIndexer, CloseAgain
  <2>5. (\A u \in Threads : pc[u] \in Holding <=> mu = u)'
    BY <1>8 DEF Holding, CallType, Resting, OutputType, CloseAgain
  <2>6. Numbered'
    <3>1. /\ \A u \in Threads \ {t} : pc'[u] = pc[u]
          /\ pc[t] \in Flushing \/ pc'[t] \notin Flushing
      BY <1>8 DEF CallType, Flushing, Resting, CloseAgain
    <3>2. QED
      BY <1>8, <3>1, NumberedKept DEF CloseAgain
  <2>7. HasIndexer'
    BY <1>8 DEF HasIndexer, Holding, CallType, OutputType, Resting, CloseAgain
  <2>8. QED
    BY <2>1, <2>2, <2>3, <2>4, <2>5, <2>6, <2>7
<1>9. ASSUME NEW t \in Threads, CloseNothing(t) PROVE TypeInv'
  <2>1. OutputType'
    BY <1>9 DEF OutputType, Numbered, CloseNothing
  <2>2. IndexerType'
    BY <1>9 DEF IndexerType, Indexers, OutputType, HasIndexer, CloseNothing
  <2>3. CallType'
    BY <1>9 DEF CallType, Resting, OutputType, ItemType, CloseNothing
  <2>4. ItemType'
    BY <1>9
    DEF ItemType, OutputType, IndexerType, Indexers, HasIndexer, CloseNothing
  <2>5. (\A u \in Threads : pc[u] \in Holding <=> mu = u)'
    BY <1>9 DEF Holding, CallType, Resting, OutputType, CloseNothing
  <2>6. Numbered'
    <3>1. /\ \A u \in Threads \ {t} : pc'[u] = pc[u]
          /\ pc[t] \in Flushing \/ pc'[t] \notin Flushing
      BY <1>9 DEF CallType, Flushing, Resting, CloseNothing
    <3>2. QED
      BY <1>9, <3>1, NumberedKept DEF CloseNothing
  <2>7. HasIndexer'
    BY <1>9
    DEF HasIndexer, Holding, CallType, OutputType, Resting, CloseNothing
  <2>8. QED
    BY <2>1, <2>2, <2>3, <2>4, <2>5, <2>6, <2>7
<1>10. ASSUME NEW t \in Threads, CloseBegins(t) PROVE TypeInv'
  <2>1. OutputType'
    BY <1>10 DEF OutputType, Numbered, CloseBegins, DrainBegins
  <2>2. IndexerType'
    BY <1>10
    DEF IndexerType, Indexers, OutputType, HasIndexer, CloseBegins,
        DrainBegins
  <2>3. CallType'
    BY <1>10
    DEF CallType, Resting, OutputType, ItemType, CloseBegins, DrainBegins
  <2>4. ItemType'
    BY <1>10
    DEF ItemType, OutputType, IndexerType, Indexers, HasIndexer, CloseBegins,
        DrainBegins
  <2>5. (\A u \in Threads : pc[u] \in Holding <=> mu = u)'
    BY <1>10
    DEF Holding, CallType, Resting, OutputType, CloseBegins, DrainBegins
  <2>6. Numbered'
    <3>1. /\ \A u \in Threads \ {t} : pc'[u] = pc[u]
          /\ pc[t] \in Flushing \/ pc'[t] \notin Flushing
      BY <1>10 DEF CallType, Flushing, Resting, CloseBegins, DrainBegins
    <3>2. QED
      BY <1>10, <3>1, NumberedKept DEF CloseBegins, DrainBegins
  <2>7. HasIndexer'
    BY <1>10
    DEF HasIndexer, Holding, CallType, OutputType, Resting, CloseBegins,
        DrainBegins
  <2>8. QED
    BY <2>1, <2>2, <2>3, <2>4, <2>5, <2>6, <2>7
<1>11. ASSUME NEW t \in Threads, WriteAdd(t) PROVE TypeInv'
  <2>1. OutputType'
    BY <1>11 DEF OutputType, Numbered, WriteAdd
  <2>2. IndexerType'
    <3>1. indexer \in Indexers /\ accepted \in Nat
      BY <1>11, IndexerBuilt DEF WriteAdd, HasIndexer, ItemType
    <3>2. ASSUME NEW i \in Indexers
          PROVE  queue'[i] \in Seq(1..accepted') /\ Len(queue'[i]) <= Room
      <4>1. queue[i] \in Seq(1..accepted') /\ accepted' = accepted + 1
        BY <1>11, <3>1, SeqMonotonic DEF WriteAdd, IndexerType
      <4>2. CASE i = indexer
        <5>1. queue'[i] = Append(queue[i], accepted') /\ Len(queue[i]) < Room
          BY <1>11, <4>1, <4>2 DEF WriteAdd, IndexerType
        <5>2. QED
          BY <3>1, <4>1, <5>1
      <4>3. CASE i # indexer
        BY <1>11, <4>1, <4>3 DEF WriteAdd, IndexerType
      <4>4. QED
        BY <4>2, <4>3
    <3>3. DOMAIN queue' = Indexers /\ queue' = [i \in Indexers |-> queue'[i]]
      BY <1>11 DEF WriteAdd, IndexerType
    <3>4. hand' \in [Indexers -> 0..accepted']
      BY <1>11, <3>1 DEF WriteAdd, IndexerType
    <3>5. QED
      BY <1>11, <3>2, <3>3, <3>4 DEF WriteAdd, IndexerType
  <2>3. CallType'
    BY <1>11 DEF CallType, Resting, OutputType, ItemType, WriteAdd
  <2>4. ItemType'
    <3>1. indexer \in Indexers /\ accepted \in Nat
      BY <1>11, IndexerBuilt DEF WriteAdd, HasIndexer, ItemType
    <3>2. home \in Seq(Indexers) /\ Len(home) = accepted
      BY <3>1 DEF ItemType
    <3>3. home' \in [1..(accepted + 1) -> Indexers]
      <4>1. home' = Append(home, indexer)
        BY <1>11 DEF WriteAdd
      <4>2. home' \in Seq(Indexers) /\ Len(home') = accepted + 1
        BY <3>1, <3>2, <4>1, AppendProperties
      <4>3. QED
        BY <3>1, <4>2
    <3>4. QED
      BY <1>11, <3>1, <3>3 DEF WriteAdd, ItemType
  <2>5. (\A u \in Threads : pc[u] \in Holding <=> mu = u)'
    BY <1>11 DEF Holding, CallType, Resting, OutputType, WriteAdd
  <2>6. Numbered'
    <3>1. /\ \A u \in Threads \ {t} : pc'[u] = pc[u]
          /\ pc[t] \in Flushing \/ pc'[t] \notin Flushing
      BY <1>11 DEF CallType, Flushing, Resting, WriteAdd
    <3>2. QED
      BY <1>11, <3>1, NumberedKept DEF WriteAdd
  <2>7. HasIndexer'
    BY <1>11 DEF HasIndexer, Holding, CallType, OutputType, Resting, WriteAdd
  <2>8. QED
    BY <2>1, <2>2, <2>3, <2>4, <2>5, <2>6, <2>7
<1>12. ASSUME NEW t \in Threads, FlushDrains(t) PROVE TypeInv'
  <2>1. OutputType'
    BY <1>12 DEF OutputType, Numbered, FlushDrains, DrainEnds, Drained
  <2>2. IndexerType'
    BY <1>12
    DEF IndexerType, Indexers, OutputType, HasIndexer, FlushDrains, DrainEnds,
        Drained
  <2>3. CallType'
    BY <1>12
    DEF CallType, Resting, OutputType, ItemType, FlushDrains, DrainEnds,
        Drained
  <2>4. ItemType'
    BY <1>12
    DEF ItemType, OutputType, IndexerType, Indexers, HasIndexer, FlushDrains,
        DrainEnds, Drained
  <2>5. (\A u \in Threads : pc[u] \in Holding <=> mu = u)'
    BY <1>12
    DEF Holding, CallType, Resting, OutputType, FlushDrains, DrainEnds,
        Drained
  <2>6. Numbered'
    <3>1. /\ \A u \in Threads \ {t} : pc'[u] = pc[u]
          /\ pc[t] \in Flushing \/ pc'[t] \notin Flushing
      BY <1>12
      DEF CallType, Flushing, Resting, FlushDrains, DrainEnds, Drained
    <3>2. QED
      BY <1>12, <3>1, NumberedKept DEF FlushDrains, DrainEnds, Drained
  <2>7. HasIndexer'
    BY <1>12
    DEF HasIndexer, Holding, CallType, OutputType, Resting, FlushDrains,
        DrainEnds, Drained
  <2>8. QED
    BY <2>1, <2>2, <2>3, <2>4, <2>5, <2>6, <2>7
<1>13. ASSUME NEW t \in Threads, FlushRebuilds(t) PROVE TypeInv'
  <2>1. OutputType'
    <3>1. pc[t] \in Flushing
      BY <1>13 DEF FlushRebuilds, Flushing
    <3>2. Pending # {}
      BY <3>1 DEF Pending
    <3>3. Cardinality(Pending) >= 1
      BY <3>2, PendingCounted, FS_EmptySet
    <3>4. built + 1 <= flushes + 1
      BY <3>3, PendingCounted DEF Numbered, OutputType
    <3>5. QED
      BY <1>13, <3>4 DEF FlushRebuilds, OutputType
  <2>2. IndexerType'
    <3>1. errs[t] = "error" => indexer \in Indexers
      BY <1>13, IndexerBuilt DEF FlushRebuilds, HasIndexer
    <3>2. QED
      BY <1>13, <3>1 DEF FlushRebuilds, Tell, IndexerType
  <2>3. CallType'
    BY <1>13 DEF CallType, Resting, OutputType, ItemType, FlushRebuilds, Tell
  <2>4. ItemType'
    BY <1>13
    DEF ItemType, OutputType, IndexerType, Indexers, HasIndexer,
        FlushRebuilds, Tell
  <2>5. (\A u \in Threads : pc[u] \in Holding <=> mu = u)'
    BY <1>13 DEF Holding, CallType, Resting, OutputType, FlushRebuilds, Tell
  <2>6. Numbered'
    <3>1. /\ \A u \in Threads \ {t} : pc'[u] = pc[u]
          /\ pc[t] \in Flushing /\ pc'[t] \notin Flushing
      BY <1>13 DEF FlushRebuilds, CallType, Flushing
    <3>2. Cardinality(Pending') = Cardinality(Pending) - 1
      BY <3>1, PendingMoves
    <3>3. QED
      BY <1>13, <3>2, PendingCounted DEF FlushRebuilds, Numbered, OutputType
  <2>7. HasIndexer'
    BY <1>13
    DEF HasIndexer, Holding, CallType, OutputType, Resting, FlushRebuilds,
        Tell
  <2>8. QED
    BY <2>1, <2>2, <2>3, <2>4, <2>5, <2>6, <2>7
<1>14. ASSUME NEW t \in Threads, FlushRebuildFails(t) PROVE TypeInv'
  <2>1. OutputType'
    BY <1>14 DEF OutputType, Numbered, FlushRebuildFails, Tell
  <2>2. IndexerType'
    <3>1. errs[t] = "error" => indexer \in Indexers
      BY <1>14, IndexerBuilt DEF FlushRebuildFails, HasIndexer
    <3>2. QED
      BY <1>14, <3>1 DEF FlushRebuildFails, Tell, IndexerType
  <2>3. CallType'
    BY <1>14
    DEF CallType, Resting, OutputType, ItemType, FlushRebuildFails, Tell
  <2>4. ItemType'
    BY <1>14
    DEF ItemType, OutputType, IndexerType, Indexers, HasIndexer,
        FlushRebuildFails, Tell
  <2>5. (\A u \in Threads : pc[u] \in Holding <=> mu = u)'
    BY <1>14
    DEF Holding, CallType, Resting, OutputType, FlushRebuildFails, Tell
  <2>6. Numbered'
    <3>1. /\ \A u \in Threads \ {t} : pc'[u] = pc[u]
          /\ pc[t] \in Flushing \/ pc'[t] \notin Flushing
      BY <1>14 DEF CallType, Flushing, Resting, FlushRebuildFails, Tell
    <3>2. QED
      BY <1>14, <3>1, NumberedKept DEF FlushRebuildFails, Tell
  <2>7. HasIndexer'
    BY <1>14
    DEF HasIndexer, Holding, CallType, OutputType, Resting, FlushRebuildFails,
        Tell
  <2>8. QED
    BY <2>1, <2>2, <2>3, <2>4, <2>5, <2>6, <2>7
<1>15. ASSUME NEW t \in Threads, CloseDrains(t) PROVE TypeInv'
  <2>1. OutputType'
    BY <1>15 DEF OutputType, Numbered, CloseDrains, DrainEnds, Drained
  <2>2. IndexerType'
    BY <1>15
    DEF IndexerType, Indexers, OutputType, HasIndexer, CloseDrains, DrainEnds,
        Drained
  <2>3. CallType'
    BY <1>15
    DEF CallType, Resting, OutputType, ItemType, CloseDrains, DrainEnds,
        Drained
  <2>4. ItemType'
    BY <1>15
    DEF ItemType, OutputType, IndexerType, Indexers, HasIndexer, CloseDrains,
        DrainEnds, Drained
  <2>5. (\A u \in Threads : pc[u] \in Holding <=> mu = u)'
    BY <1>15
    DEF Holding, CallType, Resting, OutputType, CloseDrains, DrainEnds,
        Drained
  <2>6. Numbered'
    <3>1. /\ \A u \in Threads \ {t} : pc'[u] = pc[u]
          /\ pc[t] \in Flushing \/ pc'[t] \notin Flushing
      BY <1>15
      DEF CallType, Flushing, Resting, CloseDrains, DrainEnds, Drained
    <3>2. QED
      BY <1>15, <3>1, NumberedKept DEF CloseDrains, DrainEnds, Drained
  <2>7. HasIndexer'
    BY <1>15
    DEF HasIndexer, Holding, CallType, OutputType, Resting, CloseDrains,
        DrainEnds, Drained
  <2>8. QED
    BY <2>1, <2>2, <2>3, <2>4, <2>5, <2>6, <2>7
<1>16. ASSUME NEW t \in Threads, CloseEnds(t) PROVE TypeInv'
  <2>1. OutputType'
    BY <1>16 DEF CloseEnds, OutputType, CallType
  <2>2. IndexerType'
    <3>1. errs[t] = "error" => indexer \in Indexers
      BY <1>16, IndexerBuilt DEF CloseEnds, HasIndexer
    <3>2. QED
      BY <1>16, <3>1 DEF CloseEnds, Tell, IndexerType
  <2>3. CallType'
    BY <1>16 DEF CallType, Resting, OutputType, ItemType, CloseEnds, Tell
  <2>4. ItemType'
    BY <1>16
    DEF ItemType, OutputType, IndexerType, Indexers, HasIndexer, CloseEnds,
        Tell
  <2>5. (\A u \in Threads : pc[u] \in Holding <=> mu = u)'
    BY <1>16 DEF Holding, CallType, Resting, OutputType, CloseEnds, Tell
  <2>6. Numbered'
    <3>1. /\ \A u \in Threads \ {t} : pc'[u] = pc[u]
          /\ pc[t] \in Flushing \/ pc'[t] \notin Flushing
      BY <1>16 DEF CallType, Flushing, Resting, CloseEnds, Tell
    <3>2. QED
      BY <1>16, <3>1, NumberedKept DEF CloseEnds, Tell
  <2>7. HasIndexer'
    BY <1>16
    DEF HasIndexer, Holding, CallType, OutputType, Resting, CloseEnds, Tell
  <2>8. QED
    BY <2>1, <2>2, <2>3, <2>4, <2>5, <2>6, <2>7
<1>17. ASSUME NEW t \in Threads, WriteAddFails(t) PROVE TypeInv'
  <2>1. OutputType'
    BY <1>17 DEF OutputType, Numbered, WriteAddFails
  <2>2. IndexerType'
    BY <1>17 DEF IndexerType, Indexers, OutputType, HasIndexer, WriteAddFails
  <2>3. CallType'
    BY <1>17 DEF CallType, Resting, OutputType, ItemType, WriteAddFails
  <2>4. ItemType'
    BY <1>17
    DEF ItemType, OutputType, IndexerType, Indexers, HasIndexer, WriteAddFails
  <2>5. (\A u \in Threads : pc[u] \in Holding <=> mu = u)'
    BY <1>17 DEF Holding, CallType, Resting, OutputType, WriteAddFails
  <2>6. Numbered'
    <3>1. /\ \A u \in Threads \ {t} : pc'[u] = pc[u]
          /\ pc[t] \in Flushing \/ pc'[t] \notin Flushing
      BY <1>17 DEF CallType, Flushing, Resting, WriteAddFails
    <3>2. QED
      BY <1>17, <3>1, NumberedKept DEF WriteAddFails
  <2>7. HasIndexer'
    BY <1>17
    DEF HasIndexer, Holding, CallType, OutputType, Resting, WriteAddFails
  <2>8. QED
    BY <2>1, <2>2, <2>3, <2>4, <2>5, <2>6, <2>7
<1>18. ASSUME NEW i \in Indexers, WorkerTakes(i) PROVE TypeInv'
  <2>1. OutputType'
    BY <1>18 DEF OutputType, Numbered, WorkerTakes
  <2>2. IndexerType'
    <3>1. /\ Head(queue[i]) \in 1..accepted
          /\ Tail(queue[i]) \in Seq(1..accepted)
          /\ Len(Tail(queue[i])) <= Room
      <4>1. queue[i] \in Seq(1..accepted) /\ queue[i] # <<>> /\ Len(queue[i]) <= Room
        BY <1>18 DEF WorkerTakes, IndexerType
      <4>2. Len(queue[i]) \in Nat
        BY <4>1
      <4>3. /\ Head(queue[i]) \in 1..accepted
            /\ Tail(queue[i]) \in Seq(1..accepted)
            /\ Len(Tail(queue[i])) = Len(queue[i]) - 1
        BY <4>1, HeadTailProperties
      <4>4. QED
        BY <4>1, <4>2, <4>3
    <3>2. hand' \in [Indexers -> 0..accepted]
      BY <1>18, <3>1 DEF WorkerTakes, IndexerType
    <3>3. QED
      BY <1>18, <3>1, <3>2 DEF WorkerTakes, IndexerType
  <2>3. CallType'
    BY <1>18 DEF CallType, Resting, OutputType, ItemType, WorkerTakes
  <2>4. ItemType'
    BY <1>18
    DEF ItemType, OutputType, IndexerType, Indexers, HasIndexer, WorkerTakes
  <2>5. (\A u \in Threads : pc[u] \in Holding <=> mu = u)'
    BY <1>18 DEF Holding, CallType, Resting, OutputType, WorkerTakes
  <2>6. Numbered'
    BY <1>18 DEF Numbered, Pending, WorkerTakes
  <2>7. HasIndexer'
    BY <1>18
    DEF HasIndexer, Holding, CallType, OutputType, Resting, WorkerTakes
  <2>8. QED
    BY <2>1, <2>2, <2>3, <2>4, <2>5, <2>6, <2>7
<1>19. ASSUME NEW i \in Indexers, WorkerSends(i) PROVE TypeInv'
  <2>1. OutputType'
    BY <1>19 DEF OutputType, Numbered, WorkerSends
  <2>2. IndexerType'
    <3>1. hand' \in [Indexers -> 0..accepted]
      BY <1>19 DEF WorkerSends, IndexerType, ItemType
    <3>2. QED
      BY <1>19, <3>1 DEF WorkerSends, IndexerType
  <2>3. CallType'
    BY <1>19 DEF CallType, Resting, OutputType, ItemType, WorkerSends
  <2>4. ItemType'
    <3>1. hand[i] \in 1..accepted
      BY <1>19 DEF WorkerSends, IndexerType, ItemType
    <3>2. QED
      BY <1>19, <3>1 DEF WorkerSends, ItemType
  <2>5. (\A u \in Threads : pc[u] \in Holding <=> mu = u)'
    BY <1>19 DEF Holding, CallType, Resting, OutputType, WorkerSends
  <2>6. Numbered'
    BY <1>19 DEF Numbered, Pending, WorkerSends
  <2>7. HasIndexer'
    BY <1>19
    DEF HasIndexer, Holding, CallType, OutputType, Resting, WorkerSends
  <2>8. QED
    BY <2>1, <2>2, <2>3, <2>4, <2>5, <2>6, <2>7
<1>20. CASE UNCHANGED vars
  <2>1. OutputType'
    BY <1>20 DEF OutputType, Numbered, vars
  <2>2. IndexerType'
    BY <1>20 DEF IndexerType, Indexers, OutputType, HasIndexer, vars
  <2>3. CallType'
    BY <1>20 DEF CallType, Resting, OutputType, ItemType, vars
  <2>4. ItemType'
    BY <1>20 DEF ItemType, OutputType, IndexerType, Indexers, HasIndexer, vars
  <2>5. (\A u \in Threads : pc[u] \in Holding <=> mu = u)'
    BY <1>20 DEF Holding, CallType, Resting, OutputType, vars
  <2>6. Numbered'
    BY <1>20 DEF Numbered, Pending, vars
  <2>7. HasIndexer'
    BY <1>20 DEF HasIndexer, Holding, CallType, OutputType, Resting, vars
  <2>8. QED
    BY <2>1, <2>2, <2>3, <2>4, <2>5, <2>6, <2>7
<1>21. QED
  BY <1>1, <1>2, <1>3, <1>4, <1>5, <1>6, <1>7, <1>8, <1>9, <1>10, <1>11,
  <1>12, <1>13, <1>14, <1>15, <1>16, <1>17, <1>18, <1>19, <1>20
  DEF Next, Calls, Enters, Finishes, Worker

\* The output and its indexer.

\* The next indexer is as new.
FreshAhead == \A i \in Indexers : i > built => phase[i] = "open"

\* What a drain that ended well found stays so: nothing is added any more.
Emptied == \A i \in Indexers : phase[i] = "drained" => queue[i] = <<>> /\ hand[i] = 0

\* Once closed, the mutex is only ever held by the call that closed.
Roles ==
    \A t \in Threads :
        /\ pc[t] \in {"adding", "draining", "rebuilding"} => ~closed
        /\ pc[t] \in {"closing", "ending"} => closed
        /\ pc[t] = "ending" /\ errs[t] = "nil" => phase[indexer] = "drained"
        /\ pc[t] = "closed" => closed /\ mu = "free" /\ result[t] = closeErr

\* The outcome that Close keeps is that of the drain.
Outcome ==
    /\ ~closed => closeErr = "nil"
    /\ closed /\ mu = "free" /\ indexer # 0 /\ closeErr = "nil" =>
          phase[indexer] = "drained"

LifeInv == FreshAhead /\ Emptied /\ Roles /\ Outcome /\ NeverAddToClosed

LEMMA InitLife == Init => LifeInv
<1> SUFFICES ASSUME Init PROVE LifeInv
  OBVIOUS
<1>1. FreshAhead /\ Emptied
  BY DEF Init, FreshAhead, Emptied
<1>2. Roles /\ Outcome
  BY DEF Init, Roles, Outcome
<1>3. NeverAddToClosed
  BY BulkAssumption DEF Init, NeverAddToClosed, Indexers
<1>4. QED
  BY <1>1, <1>2, <1>3 DEF LifeInv

\* Whose turn it is: the holder of the mutex is the only call in its section.
LEMMA OneHolder ==
    ASSUME TypeOK
    PROVE  /\ \A t \in Threads : pc[t] \in Holding => mu = t /\ mu # "free"
           /\ mu = "free" => \A t \in Threads : pc[t] \notin Holding
  BY BulkAssumption DEF TypeOK, OutputType

LEMMA LifeKept == TypeInv /\ LifeInv /\ TypeInv' /\ [Next]_vars => LifeInv'
<1> SUFFICES ASSUME TypeInv, LifeInv, TypeInv', [Next]_vars PROVE LifeInv'
  OBVIOUS
<1>o. /\ OutputType /\ IndexerType /\ CallType
      /\ OutputType' /\ IndexerType' /\ CallType'
      /\ TypeOK /\ HasIndexer /\ HasIndexer'
  BY DEF TypeInv, TypeOK
<1>h. /\ \A t \in Threads : pc[t] \in Holding => mu = t /\ mu # "free"
      /\ mu = "free" => \A t \in Threads : pc[t] \notin Holding
  BY <1>o, OneHolder
<1>k. indexer # 0 => indexer \in Indexers
  BY <1>o, IndexerBuilt
<1> USE BulkAssumption DEF Holding, Return, Locks, Unlocks, fieldVars,
        indexerVars, itemVars, fateVars, boundVars
<1>1. ASSUME NEW t \in Threads, WriteCall(t) PROVE LifeInv'
  <2>1. FreshAhead'
    BY <1>1, <1>o, <1>h, <1>k
    DEF LifeInv, FreshAhead, OutputType, IndexerType, HasIndexer, Indexers,
        WriteCall
  <2>2. Emptied'
    BY <1>1, <1>o, <1>h, <1>k
    DEF LifeInv, Emptied, NeverAddToClosed, OutputType, IndexerType,
        HasIndexer, WriteCall
  <2>3. Roles'
    BY <1>1, <1>o, <1>h, <1>k
    DEF LifeInv, Roles, Outcome, Resting, OutputType, IndexerType, CallType,
        NeverAddToClosed, HasIndexer, WriteCall
  <2>4. Outcome'
    BY <1>1, <1>o, <1>h, <1>k
    DEF LifeInv, Outcome, Roles, OutputType, IndexerType, HasIndexer,
        WriteCall
  <2>5. NeverAddToClosed'
    BY <1>1, <1>o, <1>h, <1>k
    DEF LifeInv, NeverAddToClosed, FreshAhead, Roles, Outcome, Resting,
        OutputType, IndexerType, CallType, HasIndexer, WriteCall
  <2>6. QED
    BY <2>1, <2>2, <2>3, <2>4, <2>5 DEF LifeInv
<1>2. ASSUME NEW t \in Threads, FlushCall(t) PROVE LifeInv'
  <2>1. FreshAhead'
    BY <1>2, <1>o, <1>h, <1>k
    DEF LifeInv, FreshAhead, OutputType, IndexerType, HasIndexer, Indexers,
        FlushCall
  <2>2. Emptied'
    BY <1>2, <1>o, <1>h, <1>k
    DEF LifeInv, Emptied, NeverAddToClosed, OutputType, IndexerType,
        HasIndexer, FlushCall
  <2>3. Roles'
    BY <1>2, <1>o, <1>h, <1>k
    DEF LifeInv, Roles, Outcome, Resting, OutputType, IndexerType, CallType,
        NeverAddToClosed, HasIndexer, FlushCall
  <2>4. Outcome'
    BY <1>2, <1>o, <1>h, <1>k
    DEF LifeInv, Outcome, Roles, OutputType, IndexerType, HasIndexer,
        FlushCall
  <2>5. NeverAddToClosed'
    BY <1>2, <1>o, <1>h, <1>k
    DEF LifeInv, NeverAddToClosed, FreshAhead, Roles, Outcome, Resting,
        OutputType, IndexerType, CallType, HasIndexer, FlushCall
  <2>6. QED
    BY <2>1, <2>2, <2>3, <2>4, <2>5 DEF LifeInv
<1>3. ASSUME NEW t \in Threads, CloseCall(t) PROVE LifeInv'
  <2>1. FreshAhead'
    BY <1>3, <1>o, <1>h, <1>k
    DEF LifeInv, FreshAhead, OutputType, IndexerType, HasIndexer, Indexers,
        CloseCall
  <2>2. Emptied'
    BY <1>3, <1>o, <1>h, <1>k
    DEF LifeInv, Emptied, NeverAddToClosed, OutputType, IndexerType,
        HasIndexer, CloseCall
  <2>3. Roles'
    BY <1>3, <1>o, <1>h, <1>k
    DEF LifeInv, Roles, Outcome, Resting, OutputType, IndexerType, CallType,
        NeverAddToClosed, HasIndexer, CloseCall
  <2>4. Outcome'
    BY <1>3, <1>o, <1>h, <1>k
    DEF LifeInv, Outcome, Roles, OutputType, IndexerType, HasIndexer,
        CloseCall
  <2>5. NeverAddToClosed'
    BY <1>3, <1>o, <1>h, <1>k
    DEF LifeInv, NeverAddToClosed, FreshAhead, Roles, Outcome, Resting,
        OutputType, IndexerType, CallType, HasIndexer, CloseCall
  <2>6. QED
    BY <2>1, <2>2, <2>3, <2>4, <2>5 DEF LifeInv
<1>4. ASSUME NEW t \in Threads, WriteRefused(t) PROVE LifeInv'
  <2>1. FreshAhead'
    BY <1>4, <1>o, <1>h, <1>k
    DEF LifeInv, FreshAhead, OutputType, IndexerType, HasIndexer, Indexers,
        WriteRefused
  <2>2. Emptied'
    BY <1>4, <1>o, <1>h, <1>k
    DEF LifeInv, Emptied, NeverAddToClosed, OutputType, IndexerType,
        HasIndexer, WriteRefused
  <2>3. Roles'
    BY <1>4, <1>o, <1>h, <1>k
    DEF LifeInv, Roles, Outcome, Resting, OutputType, IndexerType, CallType,
        NeverAddToClosed, HasIndexer, WriteRefused
  <2>4. Outcome'
    BY <1>4, <1>o, <1>h, <1>k
    DEF LifeInv, Outcome, Roles, OutputType, IndexerType, HasIndexer,
        WriteRefused
  <2>5. NeverAddToClosed'
    BY <1>4, <1>o, <1>h, <1>k
    DEF LifeInv, NeverAddToClosed, FreshAhead, Roles, Outcome, Resting,
        OutputType, IndexerType, CallType, HasIndexer, WriteRefused
  <2>6. QED
    BY <2>1, <2>2, <2>3, <2>4, <2>5 DEF LifeInv
<1>5. ASSUME NEW t \in Threads, WriteLock(t) PROVE LifeInv'
  <2>1. FreshAhead'
    BY <1>5, <1>o, <1>h, <1>k
    DEF LifeInv, FreshAhead, OutputType, IndexerType, HasIndexer, Indexers,
        WriteLock
  <2>2. Emptied'
    BY <1>5, <1>o, <1>h, <1>k
    DEF LifeInv, Emptied, NeverAddToClosed, OutputType, IndexerType,
        HasIndexer, WriteLock
  <2>3. Roles'
    BY <1>5, <1>o, <1>h, <1>k
    DEF LifeInv, Roles, Outcome, Resting, OutputType, IndexerType, CallType,
        NeverAddToClosed, HasIndexer, WriteLock
  <2>4. Outcome'
    BY <1>5, <1>o, <1>h, <1>k
    DEF LifeInv, Outcome, Roles, OutputType, IndexerType, HasIndexer,
        WriteLock
  <2>5. NeverAddToClosed'
    BY <1>5, <1>o, <1>h, <1>k
    DEF LifeInv, NeverAddToClosed, FreshAhead, Roles, Outcome, Resting,
        OutputType, IndexerType, CallType, HasIndexer, WriteLock
  <2>6. QED
    BY <2>1, <2>2, <2>3, <2>4, <2>5 DEF LifeInv
<1>6. ASSUME NEW t \in Threads, FlushSkip(t) PROVE LifeInv'
  <2>1. FreshAhead'
    BY <1>6, <1>o, <1>h, <1>k
    DEF LifeInv, FreshAhead, OutputType, IndexerType, HasIndexer, Indexers,
        FlushSkip
  <2>2. Emptied'
    BY <1>6, <1>o, <1>h, <1>k
    DEF LifeInv, Emptied, NeverAddToClosed, OutputType, IndexerType,
        HasIndexer, FlushSkip
  <2>3. Roles'
    BY <1>6, <1>o, <1>h, <1>k
    DEF LifeInv, Roles, Outcome, Resting, OutputType, IndexerType, CallType,
        NeverAddToClosed, HasIndexer, FlushSkip
  <2>4. Outcome'
    BY <1>6, <1>o, <1>h, <1>k
    DEF LifeInv, Outcome, Roles, OutputType, IndexerType, HasIndexer,
        FlushSkip
  <2>5. NeverAddToClosed'
    BY <1>6, <1>o, <1>h, <1>k
    DEF LifeInv, NeverAddToClosed, FreshAhead, Roles, Outcome, Resting,
        OutputType, IndexerType, CallType, HasIndexer, FlushSkip
  <2>6. QED
    BY <2>1, <2>2, <2>3, <2>4, <2>5 DEF LifeInv
<1>7. ASSUME NEW t \in Threads, FlushBegins(t) PROVE LifeInv'
  <2>1. FreshAhead'
    BY <1>7, <1>o, <1>h, <1>k
    DEF LifeInv, FreshAhead, OutputType, IndexerType, HasIndexer, Indexers,
        FlushBegins, DrainBegins
  <2>2. Emptied'
    BY <1>7, <1>o, <1>h, <1>k
    DEF LifeInv, Emptied, NeverAddToClosed, OutputType, IndexerType,
        HasIndexer, FlushBegins, DrainBegins
  <2>3. Roles'
    BY <1>7, <1>o, <1>h, <1>k
    DEF LifeInv, Roles, Outcome, Resting, OutputType, IndexerType, CallType,
        NeverAddToClosed, HasIndexer, FlushBegins, DrainBegins
  <2>4. Outcome'
    BY <1>7, <1>o, <1>h, <1>k
    DEF LifeInv, Outcome, Roles, OutputType, IndexerType, HasIndexer,
        FlushBegins, DrainBegins
  <2>5. NeverAddToClosed'
    BY <1>7, <1>o, <1>h, <1>k
    DEF LifeInv, NeverAddToClosed, FreshAhead, Roles, Outcome, Resting,
        OutputType, IndexerType, CallType, HasIndexer, FlushBegins,
        DrainBegins
  <2>6. QED
    BY <2>1, <2>2, <2>3, <2>4, <2>5 DEF LifeInv
<1>8. ASSUME NEW t \in Threads, CloseAgain(t) PROVE LifeInv'
  <2>1. FreshAhead'
    BY <1>8, <1>o, <1>h, <1>k
    DEF LifeInv, FreshAhead, OutputType, IndexerType, HasIndexer, Indexers,
        CloseAgain
  <2>2. Emptied'
    BY <1>8, <1>o, <1>h, <1>k
    DEF LifeInv, Emptied, NeverAddToClosed, OutputType, IndexerType,
        HasIndexer, CloseAgain
  <2>3. Roles'
    BY <1>8, <1>o, <1>h, <1>k
    DEF LifeInv, Roles, Outcome, Resting, OutputType, IndexerType, CallType,
        NeverAddToClosed, HasIndexer, CloseAgain
  <2>4. Outcome'
    BY <1>8, <1>o, <1>h, <1>k
    DEF LifeInv, Outcome, Roles, OutputType, IndexerType, HasIndexer,
        CloseAgain
  <2>5. NeverAddToClosed'
    BY <1>8, <1>o, <1>h, <1>k
    DEF LifeInv, NeverAddToClosed, FreshAhead, Roles, Outcome, Resting,
        OutputType, IndexerType, CallType, HasIndexer, CloseAgain
  <2>6. QED
    BY <2>1, <2>2, <2>3, <2>4, <2>5 DEF LifeInv
<1>9. ASSUME NEW t \in Threads, CloseNothing(t) PROVE LifeInv'
  <2>1. FreshAhead'
    BY <1>9, <1>o, <1>h, <1>k
    DEF LifeInv, FreshAhead, OutputType, IndexerType, HasIndexer, Indexers,
        CloseNothing
  <2>2. Emptied'
    BY <1>9, <1>o, <1>h, <1>k
    DEF LifeInv, Emptied, NeverAddToClosed, OutputType, IndexerType,
        HasIndexer, CloseNothing
  <2>3. Roles'
    BY <1>9, <1>o, <1>h, <1>k
    DEF LifeInv, Roles, Outcome, Resting, OutputType, IndexerType, CallType,
        NeverAddToClosed, HasIndexer, CloseNothing
  <2>4. Outcome'
    BY <1>9, <1>o, <1>h, <1>k
    DEF LifeInv, Outcome, Roles, OutputType, IndexerType, HasIndexer,
        CloseNothing
  <2>5. NeverAddToClosed'
    BY <1>9, <1>o, <1>h, <1>k
    DEF LifeInv, NeverAddToClosed, FreshAhead, Roles, Outcome, Resting,
        OutputType, IndexerType, CallType, HasIndexer, CloseNothing
  <2>6. QED
    BY <2>1, <2>2, <2>3, <2>4, <2>5 DEF LifeInv
<1>10. ASSUME NEW t \in Threads, CloseBegins(t) PROVE LifeInv'
  <2>1. FreshAhead'
    BY <1>10, <1>o, <1>h, <1>k
    DEF LifeInv, FreshAhead, OutputType, IndexerType, HasIndexer, Indexers,
        CloseBegins, DrainBegins
  <2>2. Emptied'
    BY <1>10, <1>o, <1>h, <1>k
    DEF LifeInv, Emptied, NeverAddToClosed, OutputType, IndexerType,
        HasIndexer, CloseBegins, DrainBegins
  <2>3. Roles'
    BY <1>10, <1>o, <1>h, <1>k
    DEF LifeInv, Roles, Outcome, Resting, OutputType, IndexerType, CallType,
        NeverAddToClosed, HasIndexer, CloseBegins, DrainBegins
  <2>4. Outcome'
    BY <1>10, <1>o, <1>h, <1>k
    DEF LifeInv, Outcome, Roles, OutputType, IndexerType, HasIndexer,
        CloseBegins, DrainBegins
  <2>5. NeverAddToClosed'
    BY <1>10, <1>o, <1>h, <1>k
    DEF LifeInv, NeverAddToClosed, FreshAhead, Roles, Outcome, Resting,
        OutputType, IndexerType, CallType, HasIndexer, CloseBegins,
        DrainBegins
  <2>6. QED
    BY <2>1, <2>2, <2>3, <2>4, <2>5 DEF LifeInv
<1>11. ASSUME NEW t \in Threads, WriteAdd(t) PROVE LifeInv'
  <2>1. FreshAhead'
    BY <1>11, <1>o, <1>h, <1>k
    DEF LifeInv, FreshAhead, OutputType, IndexerType, HasIndexer, Indexers,
        WriteAdd
  <2>2. Emptied'
    BY <1>11, <1>o, <1>h, <1>k
    DEF LifeInv, Emptied, NeverAddToClosed, OutputType, IndexerType,
        HasIndexer, WriteAdd
  <2>3. Roles'
    BY <1>11, <1>o, <1>h, <1>k
    DEF LifeInv, Roles, Outcome, Resting, OutputType, IndexerType, CallType,
        NeverAddToClosed, HasIndexer, WriteAdd
  <2>4. Outcome'
    BY <1>11, <1>o, <1>h, <1>k
    DEF LifeInv, Outcome, Roles, OutputType, IndexerType, HasIndexer, WriteAdd
  <2>5. NeverAddToClosed'
    BY <1>11, <1>o, <1>h, <1>k
    DEF LifeInv, NeverAddToClosed, FreshAhead, Roles, Outcome, Resting,
        OutputType, IndexerType, CallType, HasIndexer, WriteAdd
  <2>6. QED
    BY <2>1, <2>2, <2>3, <2>4, <2>5 DEF LifeInv
<1>12. ASSUME NEW t \in Threads, FlushDrains(t) PROVE LifeInv'
  <2>1. FreshAhead'
    BY <1>12, <1>o, <1>h, <1>k
    DEF LifeInv, FreshAhead, OutputType, IndexerType, HasIndexer, Indexers,
        FlushDrains, DrainEnds, Drained
  <2>2. Emptied'
    BY <1>12, <1>o, <1>h, <1>k
    DEF LifeInv, Emptied, NeverAddToClosed, OutputType, IndexerType,
        HasIndexer, FlushDrains, DrainEnds, Drained
  <2>3. Roles'
    BY <1>12, <1>o, <1>h, <1>k
    DEF LifeInv, Roles, Outcome, Resting, OutputType, IndexerType, CallType,
        NeverAddToClosed, HasIndexer, FlushDrains, DrainEnds, Drained
  <2>4. Outcome'
    BY <1>12, <1>o, <1>h, <1>k
    DEF LifeInv, Outcome, Roles, OutputType, IndexerType, HasIndexer,
        FlushDrains, DrainEnds, Drained
  <2>5. NeverAddToClosed'
    BY <1>12, <1>o, <1>h, <1>k
    DEF LifeInv, NeverAddToClosed, FreshAhead, Roles, Outcome, Resting,
        OutputType, IndexerType, CallType, HasIndexer, FlushDrains, DrainEnds,
        Drained
  <2>6. QED
    BY <2>1, <2>2, <2>3, <2>4, <2>5 DEF LifeInv
<1>13. ASSUME NEW t \in Threads, FlushRebuilds(t) PROVE LifeInv'
  <2>1. FreshAhead'
    BY <1>13, <1>o, <1>h, <1>k
    DEF LifeInv, FreshAhead, OutputType, IndexerType, HasIndexer, Indexers,
        FlushRebuilds, Tell
  <2>2. Emptied'
    BY <1>13, <1>o, <1>h, <1>k
    DEF LifeInv, Emptied, NeverAddToClosed, OutputType, IndexerType,
        HasIndexer, FlushRebuilds, Tell
  <2>3. Roles'
    BY <1>13, <1>o, <1>h, <1>k
    DEF LifeInv, Roles, Outcome, Resting, OutputType, IndexerType, CallType,
        NeverAddToClosed, HasIndexer, FlushRebuilds, Tell
  <2>4. Outcome'
    BY <1>13, <1>o, <1>h, <1>k
    DEF LifeInv, Outcome, Roles, OutputType, IndexerType, HasIndexer,
        FlushRebuilds, Tell
  <2>5. NeverAddToClosed'
    <3>1. indexer' \in Indexers /\ indexer' > built
      BY <1>13, <1>o DEF FlushRebuilds, OutputType, Indexers
    <3>2. phase'[indexer'] = "open"
      BY <1>13, <3>1 DEF FlushRebuilds, LifeInv, FreshAhead
    <3>3. \A u \in Threads : pc'[u] # "adding"
      BY <1>13, <1>o, <1>h DEF FlushRebuilds, CallType
    <3>4. QED
      BY <3>2, <3>3 DEF NeverAddToClosed
  <2>6. QED
    BY <2>1, <2>2, <2>3, <2>4, <2>5 DEF LifeInv
<1>14. ASSUME NEW t \in Threads, FlushRebuildFails(t) PROVE LifeInv'
  <2>1. FreshAhead'
    BY <1>14, <1>o, <1>h, <1>k
    DEF LifeInv, FreshAhead, OutputType, IndexerType, HasIndexer, Indexers,
        FlushRebuildFails, Tell
  <2>2. Emptied'
    BY <1>14, <1>o, <1>h, <1>k
    DEF LifeInv, Emptied, NeverAddToClosed, OutputType, IndexerType,
        HasIndexer, FlushRebuildFails, Tell
  <2>3. Roles'
    BY <1>14, <1>o, <1>h, <1>k
    DEF LifeInv, Roles, Outcome, Resting, OutputType, IndexerType, CallType,
        NeverAddToClosed, HasIndexer, FlushRebuildFails, Tell
  <2>4. Outcome'
    BY <1>14, <1>o, <1>h, <1>k
    DEF LifeInv, Outcome, Roles, OutputType, IndexerType, HasIndexer,
        FlushRebuildFails, Tell
  <2>5. NeverAddToClosed'
    BY <1>14, <1>o, <1>h, <1>k
    DEF LifeInv, NeverAddToClosed, FreshAhead, Roles, Outcome, Resting,
        OutputType, IndexerType, CallType, HasIndexer, FlushRebuildFails, Tell
  <2>6. QED
    BY <2>1, <2>2, <2>3, <2>4, <2>5 DEF LifeInv
<1>15. ASSUME NEW t \in Threads, CloseDrains(t) PROVE LifeInv'
  <2>1. FreshAhead'
    BY <1>15, <1>o, <1>h, <1>k
    DEF LifeInv, FreshAhead, OutputType, IndexerType, HasIndexer, Indexers,
        CloseDrains, DrainEnds, Drained
  <2>2. Emptied'
    BY <1>15, <1>o, <1>h, <1>k
    DEF LifeInv, Emptied, NeverAddToClosed, OutputType, IndexerType,
        HasIndexer, CloseDrains, DrainEnds, Drained
  <2>3. Roles'
    BY <1>15, <1>o, <1>h, <1>k
    DEF LifeInv, Roles, Outcome, Resting, OutputType, IndexerType, CallType,
        NeverAddToClosed, HasIndexer, CloseDrains, DrainEnds, Drained
  <2>4. Outcome'
    BY <1>15, <1>o, <1>h, <1>k
    DEF LifeInv, Outcome, Roles, OutputType, IndexerType, HasIndexer,
        CloseDrains, DrainEnds, Drained
  <2>5. NeverAddToClosed'
    BY <1>15, <1>o, <1>h, <1>k
    DEF LifeInv, NeverAddToClosed, FreshAhead, Roles, Outcome, Resting,
        OutputType, IndexerType, CallType, HasIndexer, CloseDrains, DrainEnds,
        Drained
  <2>6. QED
    BY <2>1, <2>2, <2>3, <2>4, <2>5 DEF LifeInv
<1>16. ASSUME NEW t \in Threads, CloseEnds(t) PROVE LifeInv'
  <2>1. FreshAhead'
    BY <1>16, <1>o, <1>h, <1>k
    DEF LifeInv, FreshAhead, OutputType, IndexerType, HasIndexer, Indexers,
        CloseEnds, Tell
  <2>2. Emptied'
    BY <1>16, <1>o, <1>h, <1>k
    DEF LifeInv, Emptied, NeverAddToClosed, OutputType, IndexerType,
        HasIndexer, CloseEnds, Tell
  <2>3. Roles'
    BY <1>16, <1>o, <1>h, <1>k
    DEF LifeInv, Roles, Outcome, Resting, OutputType, IndexerType, CallType,
        NeverAddToClosed, HasIndexer, CloseEnds, Tell
  <2>4. Outcome'
    BY <1>16, <1>o, <1>h, <1>k
    DEF LifeInv, Outcome, Roles, OutputType, IndexerType, HasIndexer,
        CloseEnds, Tell
  <2>5. NeverAddToClosed'
    BY <1>16, <1>o, <1>h, <1>k
    DEF LifeInv, NeverAddToClosed, FreshAhead, Roles, Outcome, Resting,
        OutputType, IndexerType, CallType, HasIndexer, CloseEnds, Tell
  <2>6. QED
    BY <2>1, <2>2, <2>3, <2>4, <2>5 DEF LifeInv
<1>17. ASSUME NEW t \in Threads, WriteAddFails(t) PROVE LifeInv'
  <2>1. FreshAhead'
    BY <1>17, <1>o, <1>h, <1>k
    DEF LifeInv, FreshAhead, OutputType, IndexerType, HasIndexer, Indexers,
        WriteAddFails
  <2>2. Emptied'
    BY <1>17, <1>o, <1>h, <1>k
    DEF LifeInv, Emptied, NeverAddToClosed, OutputType, IndexerType,
        HasIndexer, WriteAddFails
  <2>3. Roles'
    BY <1>17, <1>o, <1>h, <1>k
    DEF LifeInv, Roles, Outcome, Resting, OutputType, IndexerType, CallType,
        NeverAddToClosed, HasIndexer, WriteAddFails
  <2>4. Outcome'
    BY <1>17, <1>o, <1>h, <1>k
    DEF LifeInv, Outcome, Roles, OutputType, IndexerType, HasIndexer,
        WriteAddFails
  <2>5. NeverAddToClosed'
    BY <1>17, <1>o, <1>h, <1>k
    DEF LifeInv, NeverAddToClosed, FreshAhead, Roles, Outcome, Resting,
        OutputType, IndexerType, CallType, HasIndexer, WriteAddFails
  <2>6. QED
    BY <2>1, <2>2, <2>3, <2>4, <2>5 DEF LifeInv
<1>18. ASSUME NEW i \in Indexers, WorkerTakes(i) PROVE LifeInv'
  <2>1. FreshAhead'
    BY <1>18, <1>o, <1>h, <1>k
    DEF LifeInv, FreshAhead, OutputType, IndexerType, HasIndexer, Indexers,
        WorkerTakes
  <2>2. Emptied'
    BY <1>18, <1>o, <1>h, <1>k
    DEF LifeInv, Emptied, NeverAddToClosed, OutputType, IndexerType,
        HasIndexer, WorkerTakes
  <2>3. Roles'
    BY <1>18, <1>o, <1>h, <1>k
    DEF LifeInv, Roles, Outcome, Resting, OutputType, IndexerType, CallType,
        NeverAddToClosed, HasIndexer, WorkerTakes
  <2>4. Outcome'
    BY <1>18, <1>o, <1>h, <1>k
    DEF LifeInv, Outcome, Roles, OutputType, IndexerType, HasIndexer,
        WorkerTakes
  <2>5. NeverAddToClosed'
    BY <1>18, <1>o, <1>h, <1>k
    DEF LifeInv, NeverAddToClosed, FreshAhead, Roles, Outcome, Resting,
        OutputType, IndexerType, CallType, HasIndexer, WorkerTakes
  <2>6. QED
    BY <2>1, <2>2, <2>3, <2>4, <2>5 DEF LifeInv
<1>19. ASSUME NEW i \in Indexers, WorkerSends(i) PROVE LifeInv'
  <2>1. FreshAhead'
    BY <1>19, <1>o, <1>h, <1>k
    DEF LifeInv, FreshAhead, OutputType, IndexerType, HasIndexer, Indexers,
        WorkerSends
  <2>2. Emptied'
    BY <1>19, <1>o, <1>h, <1>k
    DEF LifeInv, Emptied, NeverAddToClosed, OutputType, IndexerType,
        HasIndexer, WorkerSends
  <2>3. Roles'
    BY <1>19, <1>o, <1>h, <1>k
    DEF LifeInv, Roles, Outcome, Resting, OutputType, IndexerType, CallType,
        NeverAddToClosed, HasIndexer, WorkerSends
  <2>4. Outcome'
    BY <1>19, <1>o, <1>h, <1>k
    DEF LifeInv, Outcome, Roles, OutputType, IndexerType, HasIndexer,
        WorkerSends
  <2>5. NeverAddToClosed'
    BY <1>19, <1>o, <1>h, <1>k
    DEF LifeInv, NeverAddToClosed, FreshAhead, Roles, Outcome, Resting,
        OutputType, IndexerType, CallType, HasIndexer, WorkerSends
  <2>6. QED
    BY <2>1, <2>2, <2>3, <2>4, <2>5 DEF LifeInv
<1>20. CASE UNCHANGED vars
  <2>1. FreshAhead'
    BY <1>20, <1>o, <1>h, <1>k
    DEF LifeInv, FreshAhead, OutputType, IndexerType, HasIndexer, Indexers,
        vars
  <2>2. Emptied'
    BY <1>20, <1>o, <1>h, <1>k
    DEF LifeInv, Emptied, NeverAddToClosed, OutputType, IndexerType,
        HasIndexer, vars
  <2>3. Roles'
    BY <1>20, <1>o, <1>h, <1>k
    DEF LifeInv, Roles, Outcome, Resting, OutputType, IndexerType, CallType,
        NeverAddToClosed, HasIndexer, vars
  <2>4. Outcome'
    BY <1>20, <1>o, <1>h, <1>k
    DEF LifeInv, Outcome, Roles, OutputType, IndexerType, HasIndexer, vars
  <2>5. NeverAddToClosed'
    BY <1>20, <1>o, <1>h, <1>k
    DEF LifeInv, NeverAddToClosed, FreshAhead, Roles, Outcome, Resting,
        OutputType, IndexerType, CallType, HasIndexer, vars
  <2>6. QED
    BY <2>1, <2>2, <2>3, <2>4, <2>5 DEF LifeInv
<1>21. QED
  BY <1>1, <1>2, <1>3, <1>4, <1>5, <1>6, <1>7, <1>8, <1>9, <1>10, <1>11,
  <1>12, <1>13, <1>14, <1>15, <1>16, <1>17, <1>18, <1>19, <1>20
  DEF Next, Calls, Enters, Finishes, Worker

----------------------------------------------------------------------------
\* Every variable of the bulk output keeps its type, its mutex has one holder,
\* and no queue exceeds its room (es/bulk.go: Write, Flush, Close).
THEOREM TypeCorrect == Spec => []TypeOK
<1>1. TypeInv => TypeOK
  BY DEF TypeInv
<1>2. QED
  BY <1>1, InitTypes, TypesKept, PTL DEF Spec

LEMMA Invariants == Spec => [](TypeInv /\ LifeInv)
<1>1. Init => TypeInv /\ LifeInv
  BY InitTypes, InitLife
<1>2. TypeInv /\ LifeInv /\ [Next]_vars => (TypeInv /\ LifeInv)'
  BY TypesKept, LifeKept
<1>3. QED
  BY <1>1, <1>2, PTL DEF Spec

\* An Add never reaches an indexer that was told to close, though Flush may fail
\* to drain it, to replace it, or both (es/bulk.go:217-240).
THEOREM ClosedIndexersUnused == Spec => []NeverAddToClosed
<1>1. LifeInv => NeverAddToClosed
  BY DEF LifeInv
<1>2. QED
  BY <1>1, Invariants, PTL

\* All calls of Close agree on the outcome of the first, and nil means that
\* nothing is left in the indexer (es/bulk.go:250-274).
THEOREM CloseOutcomesAgree == Spec => []CloseAgrees
<1>1. TypeInv /\ LifeInv => CloseAgrees
  <2> SUFFICES ASSUME TypeInv, LifeInv, NEW t \in Threads, pc[t] = "closed"
               PROVE  /\ closed
                      /\ result[t] = closeErr
                      /\ result[t] = "nil" /\ indexer # 0 => Waiting(indexer) = {}
    BY DEF CloseAgrees
  <2>1. closed /\ mu = "free" /\ result[t] = closeErr
    BY DEF LifeInv, Roles
  <2>2. ASSUME result[t] = "nil", indexer # 0 PROVE Waiting(indexer) = {}
    <3>1. indexer \in Indexers
      BY <2>2, IndexerBuilt DEF TypeInv
    <3>2. queue[indexer] = <<>> /\ hand[indexer] = 0
      BY <2>1, <2>2, <3>1 DEF LifeInv, Outcome, Emptied
    <3>3. QED
      BY <3>2 DEF Waiting
  <2>3. QED
    BY <2>1, <2>2
<1>2. QED
  BY <1>1, Invariants, PTL

\* Whoever waits behind the mutex waits for a call that can go on, or for room
\* in the queue of an indexer that has a worker with something to do
\* (es/bulk.go: Write, Flush, Close).
THEOREM MutexComesFree == Spec => []NobodyLockedOut
<1>1. TypeInv => NobodyLockedOut
  <2> SUFFICES ASSUME TypeInv, NEW t \in Threads, pc[t] \notin Resting,
                      ~CanGo(t), ~(mu \in Threads /\ CanGo(mu))
               PROVE  indexer \in Indexers /\ (hand[indexer] # 0 \/ queue[indexer] # <<>>)
    BY DEF NobodyLockedOut
  <2>1. PICK h \in Threads : mu = h /\ pc[h] \in Holding /\ ~CanGo(h)
    <3>1. CASE pc[t] = "adding"
      BY <3>1 DEF TypeInv, TypeOK, Holding
    <3>2. CASE pc[t] # "adding"
      <4>1. mu # "free"
        BY <3>2 DEF CanGo
      <4>2. mu \in Threads
        BY <4>1 DEF TypeInv, TypeOK, OutputType
      <4>3. QED
        BY <4>2 DEF TypeInv, TypeOK
    <3>3. QED
      BY <3>1, <3>2
  <2>2. pc[h] = "adding" /\ ~(Len(queue[indexer]) < Room)
    BY <2>1 DEF CanGo, Holding
  <2>3. indexer \in Indexers
    BY <2>2, IndexerBuilt DEF TypeInv, HasIndexer
  <2>4. queue[indexer] # <<>>
    BY <2>2, <2>3, BulkAssumption DEF TypeInv, TypeOK, IndexerType
  <2>5. QED
    BY <2>3, <2>4
<1>2. QED
  BY <1>1, Invariants, PTL

\* The three of them: what is closed is not used, every Close says how it went,
\* and nobody is locked out (es/bulk.go:217-274).
THEOREM CloseHoldsAlways == Spec => []CloseHolds
<1>1. NeverAddToClosed /\ CloseAgrees /\ NobodyLockedOut => CloseHolds
  BY DEF CloseHolds
<1>2. QED
  BY <1>1, ClosedIndexersUnused, CloseOutcomesAgree, MutexComesFree, PTL

----------------------------------------------------------------------------
(* Where the accepted items are.                                           *)

\* The item d is in the indexer i.
In(i, d) == d = hand[i] \/ \E n \in 1..Len(queue[i]) : queue[i][n] = d

\* The items of an indexer are those added to it that are not settled yet, and
\* each of them is there once.
Placed ==
    /\ sent \cap failed = {}
    /\ \A i \in Indexers :
          /\ \A d \in 1..accepted : In(i, d) <=> home[d] = i /\ d \notin Settled
          /\ \A n \in 1..Len(queue[i]) :
                /\ queue[i][n] # hand[i]
                /\ \A m \in 1..Len(queue[i]) : queue[i][m] = queue[i][n] => m = n

\* What a call knows of the indexer it drains, and has drained.
DrainKnown ==
    \A t \in Threads :
        /\ pc[t] \in {"draining", "closing"} => phase[indexer] = "draining"
        /\ pc[t] \in {"rebuilding", "ending"} /\ indexer # 0 =>
              phase[indexer] = IF errs[t] = "nil" THEN "drained" ELSE "abandoned"

\* The indexer of a closed output is past its drain.
Ended == closed /\ mu = "free" /\ indexer # 0 => phase[indexer] \in {"drained", "abandoned"}

\* An indexer that was replaced is empty, or some call has said that it is not.
Left ==
    \A i \in Indexers : i # indexer =>
        i \in told \/ (queue[i] = <<>> /\ hand[i] = 0)

\* A failed drain is told, or about to be.
Confessed ==
    \A i \in Indexers :
        /\ i \in told => phase[i] = "abandoned"
        /\ phase[i] = "abandoned" =>
              i \in told \/ \E t \in Threads :
                  mu = t /\ i = indexer /\ errs[t] = "error"

KnownInv == DrainKnown /\ Ended /\ Left /\ Confessed

LossInv == Placed /\ KnownInv /\ NilCovers

LEMMA InitLoss == Init => LossInv
<1> SUFFICES ASSUME Init PROVE LossInv
  OBVIOUS
<1>1. Placed
  BY DEF Init, Placed, In
<1>2. DrainKnown /\ Ended /\ Left /\ Confessed /\ NilCovers
  BY DEF Init, DrainKnown, Ended, Left, Confessed, NilCovers
<1>3. QED
  BY <1>1, <1>2 DEF LossInv, KnownInv

\* Which steps move items.
LEMMA ItemSteps ==
    ASSUME [Next]_vars
    PROVE  \/ UNCHANGED <<queue, hand, accepted, home, sent, failed>>
           \/ \E t \in Threads : WriteAdd(t)
           \/ \E i \in Indexers : WorkerTakes(i) \/ WorkerSends(i)
  BY DEF Next, Calls, Enters, Finishes, Worker, vars, fieldVars, indexerVars, itemVars,
     fateVars, boundVars, WriteCall, FlushCall, CloseCall, WriteRefused, WriteLock, FlushSkip,
     FlushBegins, CloseAgain, CloseNothing, CloseBegins, FlushDrains, FlushRebuilds,
     FlushRebuildFails, CloseDrains, CloseEnds, WriteAddFails, DrainEnds, Tell

LEMMA PlacedKept ==
    ASSUME TypeInv, LifeInv, Placed, [Next]_vars
    PROVE  Placed'
<1>o. IndexerType /\ ItemType /\ TypeOK
  BY DEF TypeInv, TypeOK
<1>1. CASE UNCHANGED <<queue, hand, accepted, home, sent, failed>>
  BY <1>1 DEF Placed, In, Settled
<1>2. ASSUME NEW t \in Threads, WriteAdd(t) PROVE Placed'
  <2>0. PICK e : e = accepted + 1
    OBVIOUS
  <2>1. indexer \in Indexers
    BY <1>2, IndexerBuilt DEF WriteAdd, TypeInv, HasIndexer
  <2>2. /\ queue' = [queue EXCEPT ![indexer] = Append(queue[indexer], e)]
        /\ home' = Append(home, indexer) /\ accepted' = e
        /\ UNCHANGED <<hand, sent, failed>>
    BY <1>2, <2>0 DEF WriteAdd, fateVars
  <2>3. /\ home' \in [1..e -> Indexers] /\ home'[e] = indexer
        /\ \A d \in 1..accepted : home'[d] = home[d]
    <3>1. home \in Seq(Indexers) /\ Len(home) = accepted /\ accepted \in Nat
      BY <1>o DEF ItemType
    <3>2. /\ Append(home, indexer) \in Seq(Indexers)
          /\ Len(Append(home, indexer)) = e
          /\ Append(home, indexer)[e] = indexer
          /\ \A d \in 1..accepted : Append(home, indexer)[d] = home[d]
      BY <2>0, <2>1, <3>1, AppendProperties
    <3>3. QED
      BY <2>0, <2>2, <3>1, <3>2, LenProperties
  <2>4. e \notin Settled /\ Settled' = Settled /\ e \in Nat /\ e \notin 1..accepted
    BY <1>o, <2>0, <2>2 DEF Settled, ItemType
  <2>5. \A i \in Indexers : i # indexer => queue'[i] = queue[i]
    BY <1>o, <2>2 DEF IndexerType
  <2>6. /\ queue[indexer] \in Seq(1..accepted) /\ Len(queue[indexer]) \in Nat
        /\ Len(queue'[indexer]) = Len(queue[indexer]) + 1
        /\ queue'[indexer][Len(queue[indexer]) + 1] = e
        /\ \A n \in 1..Len(queue[indexer]) : queue'[indexer][n] = queue[indexer][n]
    BY <1>o, <2>1, <2>2 DEF IndexerType
  <2>7. \A i \in Indexers : hand[i] # e
    BY <1>o, <2>0, <2>4 DEF IndexerType, ItemType
  <2>8. ASSUME NEW i \in Indexers, NEW n \in 1..Len(queue[i]) PROVE queue[i][n] \in 1..accepted
    <3>1. queue[i] \in Seq(1..accepted)
      BY <1>o, <2>8 DEF IndexerType
    <3>2. QED
      BY <2>8, <3>1, ElementOfSeq
  <2>9. \A i \in Indexers, d \in 1..accepted : In(i, d)' <=> In(i, d)
    BY <2>2, <2>4, <2>5, <2>6 DEF In
  <2>10. ASSUME NEW i \in Indexers PROVE In(i, e)' <=> i = indexer
    <3>1. CASE i = indexer
      <4>1. Len(queue[indexer]) + 1 \in 1..Len(queue'[indexer])
        BY <2>6
      <4>2. QED
        BY <2>6, <3>1, <4>1 DEF In
    <3>2. CASE i # indexer
      BY <2>2, <2>4, <2>5, <2>7, <2>8, <3>2 DEF In
    <3>3. QED
      BY <3>1, <3>2
  <2>11. ASSUME NEW i \in Indexers, NEW d \in 1..accepted'
         PROVE  In(i, d)' <=> home'[d] = i /\ d \notin Settled'
    <3>1. d = e \/ d \in 1..accepted
      BY <1>o, <2>0, <2>2 DEF ItemType
    <3>2. CASE d = e
      BY <2>3, <2>4, <2>10, <3>2 DEF In
    <3>3. CASE d \in 1..accepted
      BY <2>3, <2>4, <2>9, <3>3 DEF Placed
    <3>4. QED
      BY <3>1, <3>2, <3>3
  <2>12. ASSUME NEW i \in Indexers, NEW n \in 1..Len(queue'[i])
         PROVE  /\ queue'[i][n] # hand'[i]
                /\ \A m \in 1..Len(queue'[i]) : queue'[i][m] = queue'[i][n] => m = n
    <3>1. CASE i # indexer
      BY <2>2, <2>5, <2>12, <3>1 DEF Placed
    <3>2. CASE i = indexer
      BY <2>1, <2>2, <2>4, <2>6, <2>7, <2>8, <2>12, <3>2 DEF Placed
    <3>3. QED
      BY <3>1, <3>2
  <2>13. (sent \cap failed)' = {}
    BY <2>2 DEF Placed
  <2>14. QED
    BY <2>11, <2>12, <2>13 DEF Placed
<1>3. ASSUME NEW i \in Indexers, WorkerTakes(i) PROVE Placed'
  <2>1. /\ hand[i] = 0 /\ queue[i] # <<>>
        /\ hand' = [hand EXCEPT ![i] = Head(queue[i])]
        /\ queue' = [queue EXCEPT ![i] = Tail(queue[i])]
        /\ UNCHANGED <<accepted, home, sent, failed>>
    BY <1>3 DEF WorkerTakes, itemVars, fateVars
  <2>2. /\ queue[i] \in Seq(1..accepted) /\ Len(queue[i]) \in Nat \ {0}
        /\ Len(queue'[i]) = Len(queue[i]) - 1 /\ hand'[i] = queue[i][1]
        /\ \A n \in 1..(Len(queue[i]) - 1) : queue'[i][n] = queue[i][n + 1]
    BY <1>o, <2>1 DEF IndexerType
  <2>3. \A j \in Indexers : j # i => queue'[j] = queue[j] /\ hand'[j] = hand[j]
    BY <1>o, <2>1 DEF IndexerType
  <2>4. ASSUME NEW d \in 1..accepted PROVE In(i, d)' <=> In(i, d)
    <3>1. In(i, d) <=> \E n \in 1..Len(queue[i]) : queue[i][n] = d
      BY <1>o, <2>1 DEF In, ItemType
    <3>2. In(i, d)' <=> \/ d = queue[i][1]
                        \/ \E n \in 1..(Len(queue[i]) - 1) : queue[i][n + 1] = d
      BY <2>2 DEF In
    <3>3. ASSUME NEW n \in 1..Len(queue[i])
          PROVE  n = 1 \/ (n - 1 \in 1..(Len(queue[i]) - 1) /\ n = (n - 1) + 1)
      BY <2>2
    <3>4. ASSUME NEW n \in 1..(Len(queue[i]) - 1) PROVE n + 1 \in 1..Len(queue[i])
      BY <2>2
    <3>5. 1 \in 1..Len(queue[i])
      BY <2>2
    <3>6. QED
      BY <3>1, <3>2, <3>3, <3>4, <3>5
  <2>5. \A j \in Indexers, d \in 1..accepted : In(j, d)' <=> In(j, d)
    BY <2>3, <2>4 DEF In
  <2>6. ASSUME NEW j \in Indexers, NEW n \in 1..Len(queue'[j])
        PROVE  /\ queue'[j][n] # hand'[j]
               /\ \A m \in 1..Len(queue'[j]) : queue'[j][m] = queue'[j][n] => m = n
    <3>1. CASE j # i
      BY <2>3, <2>6, <3>1 DEF Placed
    <3>2. CASE j = i
      <4>1. \A m \in 1..(Len(queue[i]) - 1) : /\ m + 1 \in 1..Len(queue[i]) /\ m + 1 # 1
                                             /\ queue'[i][m] = queue[i][m + 1]
        BY <2>2
      <4>2. 1 \in 1..Len(queue[i])
        BY <2>2
      <4>3. \A a, b \in 1..Len(queue[i]) : queue[i][a] = queue[i][b] => a = b
        BY DEF Placed
      <4>4. queue'[i][n] # hand'[i]
        BY <2>2, <2>6, <3>2, <4>1, <4>2, <4>3
      <4>5. ASSUME NEW m \in 1..Len(queue'[i]), queue'[i][m] = queue'[i][n] PROVE m = n
        BY <2>2, <2>6, <3>2, <4>1, <4>3, <4>5
      <4>6. QED
        BY <3>2, <4>4, <4>5
    <3>3. QED
      BY <3>1, <3>2
  <2>7. QED
    BY <2>1, <2>5, <2>6 DEF Placed, Settled
<1>4. ASSUME NEW i \in Indexers, WorkerSends(i) PROVE Placed'
  <2>0. PICK e : e = hand[i]
    OBVIOUS
  <2>1. /\ e # 0 /\ hand' = [hand EXCEPT ![i] = 0]
        /\ Settled' = Settled \cup {e}
        /\ UNCHANGED <<queue, accepted, home>>
        /\ \/ sent' = sent \cup {e} /\ failed' = failed
           \/ failed' = failed \cup {e} /\ sent' = sent
    BY <1>4, <2>0 DEF WorkerSends, itemVars, Settled
  <2>2. e \in 1..accepted /\ hand'[i] = 0
    BY <1>o, <2>0, <2>1 DEF IndexerType, ItemType
  <2>3. home[e] = i /\ e \notin Settled
    BY <2>0, <2>2 DEF Placed, In
  <2>4. \A j \in Indexers : j # i => hand'[j] = hand[j]
    BY <1>o, <2>1 DEF IndexerType
  <2>5. \A n \in 1..Len(queue[i]) : queue[i][n] # e
    BY <2>0 DEF Placed
  <2>6. \A n \in 1..Len(queue[i]) : queue[i][n] # 0
    <3>1. queue[i] \in Seq(1..accepted)
      BY <1>o DEF IndexerType
    <3>2. QED
      BY <1>o, <3>1, ElementOfSeq DEF ItemType
  <2>7. \A d \in 1..accepted : In(i, d)' <=> In(i, d) /\ d # e
    BY <2>0, <2>1, <2>2, <2>5 DEF In
  <2>8. ASSUME NEW j \in Indexers, j # i, NEW d \in 1..accepted
        PROVE  (In(j, d)' <=> In(j, d)) /\ (In(j, d) => d # e)
    BY <2>1, <2>3, <2>4, <2>8 DEF In, Placed
  <2>9. ASSUME NEW j \in Indexers, NEW d \in 1..accepted
        PROVE  In(j, d)' <=> home'[d] = j /\ d \notin Settled'
    <3>1. CASE j = i
      BY <2>1, <2>7, <3>1 DEF Placed
    <3>2. CASE j # i
      BY <2>1, <2>3, <2>8, <3>2 DEF Placed
    <3>3. QED
      BY <3>1, <3>2
  <2>10. (sent \cap failed)' = {}
    BY <2>1, <2>3 DEF Placed, Settled
  <2>11. ASSUME NEW j \in Indexers, NEW n \in 1..Len(queue[j]) PROVE queue[j][n] # hand'[j]
    BY <2>2, <2>4, <2>6, <2>11 DEF Placed
  <2>12. QED
    BY <2>1, <2>9, <2>10, <2>11 DEF Placed
<1>5. QED
  BY <1>1, <1>2, <1>3, <1>4, ItemSteps

\* No accepted item is settled in an indexer that is known to be left empty.
LEMMA WaitingIs ==
    ASSUME TypeInv, Placed, NEW i \in Indexers
    PROVE  Waiting(i) = {d \in 1..accepted : home[d] = i} \ Settled
<1>1. IndexerType /\ accepted \in Nat
  BY DEF TypeInv, TypeOK, ItemType
<1>2. \A d : d \in Waiting(i) <=> d \in 1..accepted /\ In(i, d)
  <2>1. \A n \in 1..Len(queue[i]) : queue[i][n] \in 1..accepted
    BY <1>1 DEF IndexerType
  <2>2. hand[i] \in 0..accepted
    BY <1>1 DEF IndexerType
  <2>3. QED
    BY <1>1, <2>1, <2>2 DEF Waiting, In
<1>3. QED
  BY <1>2 DEF Placed

\* Each step keeps what the calls know of the indexers.
LEMMA KnownKept ==
    ASSUME TypeInv, LifeInv, KnownInv, TypeInv', LifeInv', [Next]_vars
    PROVE  KnownInv'
<1>o. /\ OutputType /\ IndexerType /\ CallType
      /\ OutputType' /\ IndexerType' /\ CallType'
      /\ TypeOK /\ TypeOK' /\ HasIndexer
  BY DEF TypeInv, TypeOK
<1>h. /\ \A t \in Threads : pc[t] \in Holding => mu = t /\ mu # "free"
      /\ mu = "free" => \A t \in Threads : pc[t] \notin Holding
  BY <1>o, OneHolder
<1>k. indexer # 0 => indexer \in Indexers
  BY <1>o, IndexerBuilt
<1>d. DrainKnown /\ Ended /\ Left /\ Confessed
  BY DEF KnownInv
<1>l. FreshAhead /\ Emptied /\ Roles /\ NeverAddToClosed
  BY DEF LifeInv
<1> USE BulkAssumption DEF Holding, Return, Locks, Unlocks, fieldVars,
        indexerVars, itemVars, fateVars, boundVars
<1>1. ASSUME NEW t \in Threads, WriteCall(t) PROVE KnownInv'
  <2>1. DrainKnown'
    BY <1>1, <1>o, <1>h, <1>k, <1>d, <1>l DEF DrainKnown, OutputType, IndexerType,
       CallType, Resting, HasIndexer, WriteCall
  <2>2. Ended'
    BY <1>1, <1>o, <1>h, <1>k, <1>d, <1>l DEF Ended, DrainKnown, OutputType,
       IndexerType, CallType, Roles, WriteCall
  <2>3. Left'
    BY <1>1, <1>o, <1>h, <1>k, <1>d, <1>l DEF Left, DrainKnown, Emptied, OutputType,
       IndexerType, CallType, HasIndexer, WriteCall
  <2>4. Confessed'
    BY <1>1, <1>o, <1>h, <1>k, <1>d, <1>l DEF Confessed, DrainKnown,
       NeverAddToClosed, OutputType, IndexerType, CallType, HasIndexer, WriteCall
  <2>5. QED
    BY <2>1, <2>2, <2>3, <2>4 DEF KnownInv
<1>2. ASSUME NEW t \in Threads, FlushCall(t) PROVE KnownInv'
  <2>1. DrainKnown'
    BY <1>2, <1>o, <1>h, <1>k, <1>d, <1>l DEF DrainKnown, OutputType, IndexerType,
       CallType, Resting, HasIndexer, FlushCall
  <2>2. Ended'
    BY <1>2, <1>o, <1>h, <1>k, <1>d, <1>l DEF Ended, DrainKnown, OutputType,
       IndexerType, CallType, Roles, FlushCall
  <2>3. Left'
    BY <1>2, <1>o, <1>h, <1>k, <1>d, <1>l DEF Left, DrainKnown, Emptied, OutputType,
       IndexerType, CallType, HasIndexer, FlushCall
  <2>4. Confessed'
    BY <1>2, <1>o, <1>h, <1>k, <1>d, <1>l DEF Confessed, DrainKnown,
       NeverAddToClosed, OutputType, IndexerType, CallType, HasIndexer, FlushCall
  <2>5. QED
    BY <2>1, <2>2, <2>3, <2>4 DEF KnownInv
<1>3. ASSUME NEW t \in Threads, CloseCall(t) PROVE KnownInv'
  <2>1. DrainKnown'
    BY <1>3, <1>o, <1>h, <1>k, <1>d, <1>l DEF DrainKnown, OutputType, IndexerType,
       CallType, Resting, HasIndexer, CloseCall
  <2>2. Ended'
    BY <1>3, <1>o, <1>h, <1>k, <1>d, <1>l DEF Ended, DrainKnown, OutputType,
       IndexerType, CallType, Roles, CloseCall
  <2>3. Left'
    BY <1>3, <1>o, <1>h, <1>k, <1>d, <1>l DEF Left, DrainKnown, Emptied, OutputType,
       IndexerType, CallType, HasIndexer, CloseCall
  <2>4. Confessed'
    BY <1>3, <1>o, <1>h, <1>k, <1>d, <1>l DEF Confessed, DrainKnown,
       NeverAddToClosed, OutputType, IndexerType, CallType, HasIndexer, CloseCall
  <2>5. QED
    BY <2>1, <2>2, <2>3, <2>4 DEF KnownInv
<1>4. ASSUME NEW t \in Threads, WriteRefused(t) PROVE KnownInv'
  <2>1. DrainKnown'
    BY <1>4, <1>o, <1>h, <1>k, <1>d, <1>l DEF DrainKnown, OutputType, IndexerType,
       CallType, Resting, HasIndexer, WriteRefused
  <2>2. Ended'
    BY <1>4, <1>o, <1>h, <1>k, <1>d, <1>l DEF Ended, DrainKnown, OutputType,
       IndexerType, CallType, Roles, WriteRefused
  <2>3. Left'
    BY <1>4, <1>o, <1>h, <1>k, <1>d, <1>l DEF Left, DrainKnown, Emptied, OutputType,
       IndexerType, CallType, HasIndexer, WriteRefused
  <2>4. Confessed'
    BY <1>4, <1>o, <1>h, <1>k, <1>d, <1>l DEF Confessed, DrainKnown,
       NeverAddToClosed, OutputType, IndexerType, CallType, HasIndexer, WriteRefused
  <2>5. QED
    BY <2>1, <2>2, <2>3, <2>4 DEF KnownInv
<1>5. ASSUME NEW t \in Threads, WriteLock(t) PROVE KnownInv'
  <2>1. DrainKnown'
    BY <1>5, <1>o, <1>h, <1>k, <1>d, <1>l DEF DrainKnown, OutputType, IndexerType,
       CallType, Resting, HasIndexer, WriteLock
  <2>2. Ended'
    BY <1>5, <1>o, <1>h, <1>k, <1>d, <1>l DEF Ended, DrainKnown, OutputType,
       IndexerType, CallType, Roles, WriteLock
  <2>3. Left'
    BY <1>5, <1>o, <1>h, <1>k, <1>d, <1>l DEF Left, DrainKnown, Emptied, OutputType,
       IndexerType, CallType, HasIndexer, WriteLock
  <2>4. Confessed'
    BY <1>5, <1>o, <1>h, <1>k, <1>d, <1>l DEF Confessed, DrainKnown,
       NeverAddToClosed, OutputType, IndexerType, CallType, HasIndexer, WriteLock
  <2>5. QED
    BY <2>1, <2>2, <2>3, <2>4 DEF KnownInv
<1>6. ASSUME NEW t \in Threads, FlushSkip(t) PROVE KnownInv'
  <2>1. DrainKnown'
    BY <1>6, <1>o, <1>h, <1>k, <1>d, <1>l DEF DrainKnown, OutputType, IndexerType,
       CallType, Resting, HasIndexer, FlushSkip
  <2>2. Ended'
    BY <1>6, <1>o, <1>h, <1>k, <1>d, <1>l DEF Ended, DrainKnown, OutputType,
       IndexerType, CallType, Roles, FlushSkip
  <2>3. Left'
    BY <1>6, <1>o, <1>h, <1>k, <1>d, <1>l DEF Left, DrainKnown, Emptied, OutputType,
       IndexerType, CallType, HasIndexer, FlushSkip
  <2>4. Confessed'
    BY <1>6, <1>o, <1>h, <1>k, <1>d, <1>l DEF Confessed, DrainKnown,
       NeverAddToClosed, OutputType, IndexerType, CallType, HasIndexer, FlushSkip
  <2>5. QED
    BY <2>1, <2>2, <2>3, <2>4 DEF KnownInv
<1>7. ASSUME NEW t \in Threads, FlushBegins(t) PROVE KnownInv'
  <2>1. DrainKnown'
    BY <1>7, <1>o, <1>h, <1>k, <1>d, <1>l DEF DrainKnown, OutputType, IndexerType,
       CallType, Resting, HasIndexer, FlushBegins, DrainBegins
  <2>2. Ended'
    BY <1>7, <1>o, <1>h, <1>k, <1>d, <1>l DEF Ended, DrainKnown, OutputType,
       IndexerType, CallType, Roles, FlushBegins, DrainBegins
  <2>3. Left'
    BY <1>7, <1>o, <1>h, <1>k, <1>d, <1>l DEF Left, DrainKnown, Emptied, OutputType,
       IndexerType, CallType, HasIndexer, FlushBegins, DrainBegins
  <2>4. Confessed'
    BY <1>7, <1>o, <1>h, <1>k, <1>d, <1>l DEF Confessed, DrainKnown,
       NeverAddToClosed, OutputType, IndexerType, CallType, HasIndexer, FlushBegins,
       DrainBegins
  <2>5. QED
    BY <2>1, <2>2, <2>3, <2>4 DEF KnownInv
<1>8. ASSUME NEW t \in Threads, CloseAgain(t) PROVE KnownInv'
  <2>1. DrainKnown'
    BY <1>8, <1>o, <1>h, <1>k, <1>d, <1>l DEF DrainKnown, OutputType, IndexerType,
       CallType, Resting, HasIndexer, CloseAgain
  <2>2. Ended'
    BY <1>8, <1>o, <1>h, <1>k, <1>d, <1>l DEF Ended, DrainKnown, OutputType,
       IndexerType, CallType, Roles, CloseAgain
  <2>3. Left'
    BY <1>8, <1>o, <1>h, <1>k, <1>d, <1>l DEF Left, DrainKnown, Emptied, OutputType,
       IndexerType, CallType, HasIndexer, CloseAgain
  <2>4. Confessed'
    BY <1>8, <1>o, <1>h, <1>k, <1>d, <1>l DEF Confessed, DrainKnown,
       NeverAddToClosed, OutputType, IndexerType, CallType, HasIndexer, CloseAgain
  <2>5. QED
    BY <2>1, <2>2, <2>3, <2>4 DEF KnownInv
<1>9. ASSUME NEW t \in Threads, CloseNothing(t) PROVE KnownInv'
  <2>1. DrainKnown'
    BY <1>9, <1>o, <1>h, <1>k, <1>d, <1>l DEF DrainKnown, OutputType, IndexerType,
       CallType, Resting, HasIndexer, CloseNothing
  <2>2. Ended'
    BY <1>9, <1>o, <1>h, <1>k, <1>d, <1>l DEF Ended, DrainKnown, OutputType,
       IndexerType, CallType, Roles, CloseNothing
  <2>3. Left'
    BY <1>9, <1>o, <1>h, <1>k, <1>d, <1>l DEF Left, DrainKnown, Emptied, OutputType,
       IndexerType, CallType, HasIndexer, CloseNothing
  <2>4. Confessed'
    BY <1>9, <1>o, <1>h, <1>k, <1>d, <1>l DEF Confessed, DrainKnown,
       NeverAddToClosed, OutputType, IndexerType, CallType, HasIndexer, CloseNothing
  <2>5. QED
    BY <2>1, <2>2, <2>3, <2>4 DEF KnownInv
<1>10. ASSUME NEW t \in Threads, CloseBegins(t) PROVE KnownInv'
  <2>1. DrainKnown'
    BY <1>10, <1>o, <1>h, <1>k, <1>d, <1>l DEF DrainKnown, OutputType, IndexerType,
       CallType, Resting, HasIndexer, CloseBegins, DrainBegins
  <2>2. Ended'
    BY <1>10, <1>o, <1>h, <1>k, <1>d, <1>l DEF Ended, DrainKnown, OutputType,
       IndexerType, CallType, Roles, CloseBegins, DrainBegins
  <2>3. Left'
    BY <1>10, <1>o, <1>h, <1>k, <1>d, <1>l DEF Left, DrainKnown, Emptied,
       OutputType, IndexerType, CallType, HasIndexer, CloseBegins, DrainBegins
  <2>4. Confessed'
    BY <1>10, <1>o, <1>h, <1>k, <1>d, <1>l DEF Confessed, DrainKnown,
       NeverAddToClosed, OutputType, IndexerType, CallType, HasIndexer, CloseBegins,
       DrainBegins
  <2>5. QED
    BY <2>1, <2>2, <2>3, <2>4 DEF KnownInv
<1>11. ASSUME NEW t \in Threads, WriteAdd(t) PROVE KnownInv'
  <2>1. DrainKnown'
    BY <1>11, <1>o, <1>h, <1>k, <1>d, <1>l DEF DrainKnown, OutputType, IndexerType,
       CallType, Resting, HasIndexer, WriteAdd
  <2>2. Ended'
    BY <1>11, <1>o, <1>h, <1>k, <1>d, <1>l DEF Ended, DrainKnown, OutputType,
       IndexerType, CallType, Roles, WriteAdd
  <2>3. Left'
    BY <1>11, <1>o, <1>h, <1>k, <1>d, <1>l DEF Left, DrainKnown, Emptied,
       OutputType, IndexerType, CallType, HasIndexer, WriteAdd
  <2>4. Confessed'
    BY <1>11, <1>o, <1>h, <1>k, <1>d, <1>l DEF Confessed, DrainKnown,
       NeverAddToClosed, OutputType, IndexerType, CallType, HasIndexer, WriteAdd
  <2>5. QED
    BY <2>1, <2>2, <2>3, <2>4 DEF KnownInv
<1>12. ASSUME NEW t \in Threads, FlushDrains(t) PROVE KnownInv'
  <2>1. DrainKnown'
    BY <1>12, <1>o, <1>h, <1>k, <1>d, <1>l DEF DrainKnown, OutputType, IndexerType,
       CallType, Resting, HasIndexer, FlushDrains, DrainEnds, Drained
  <2>2. Ended'
    BY <1>12, <1>o, <1>h, <1>k, <1>d, <1>l DEF Ended, DrainKnown, OutputType,
       IndexerType, CallType, Roles, FlushDrains, DrainEnds, Drained
  <2>3. Left'
    BY <1>12, <1>o, <1>h, <1>k, <1>d, <1>l DEF Left, DrainKnown, Emptied,
       OutputType, IndexerType, CallType, HasIndexer, FlushDrains, DrainEnds,
       Drained
  <2>4. Confessed'
    BY <1>12, <1>o, <1>h, <1>k, <1>d, <1>l DEF Confessed, DrainKnown,
       NeverAddToClosed, OutputType, IndexerType, CallType, HasIndexer, FlushDrains,
       DrainEnds, Drained
  <2>5. QED
    BY <2>1, <2>2, <2>3, <2>4 DEF KnownInv
<1>13. ASSUME NEW t \in Threads, FlushRebuilds(t) PROVE KnownInv'
  <2>1. DrainKnown'
    BY <1>13, <1>o, <1>h, <1>k, <1>d, <1>l DEF DrainKnown, OutputType, IndexerType,
       CallType, Resting, HasIndexer, FlushRebuilds, Tell
  <2>2. Ended'
    BY <1>13, <1>o, <1>h, <1>k, <1>d, <1>l DEF Ended, DrainKnown, OutputType,
       IndexerType, CallType, Roles, FlushRebuilds, Tell
  <2>3. Left'
    <3>1. told \subseteq told' /\ queue' = queue /\ hand' = hand
      BY <1>13 DEF FlushRebuilds, Tell
    <3>2. CASE indexer = 0
      BY <3>1, <3>2, <1>d DEF Left, Indexers
    <3>3. CASE indexer # 0
      <4>1. indexer \in told' \/ (queue[indexer] = <<>> /\ hand[indexer] = 0)
        <5>1. CASE errs[t] = "error"
          BY <1>13, <5>1 DEF FlushRebuilds, Tell
        <5>2. CASE errs[t] # "error"
          <6>1. errs[t] = "nil" /\ pc[t] = "rebuilding"
            BY <1>13, <1>o, <5>2 DEF FlushRebuilds, CallType
          <6>2. phase[indexer] = "drained"
            BY <1>d, <3>3, <6>1 DEF DrainKnown
          <6>3. QED
            BY <1>k, <1>l, <3>3, <6>2 DEF Emptied
        <5>3. QED
          BY <5>1, <5>2
      <4>2. QED
        BY <3>1, <4>1, <1>d DEF Left
    <3>4. QED
      BY <3>2, <3>3
  <2>4. Confessed'
    BY <1>13, <1>o, <1>h, <1>k, <1>d, <1>l DEF Confessed, DrainKnown,
       NeverAddToClosed, OutputType, IndexerType, CallType, HasIndexer,
       FlushRebuilds, Tell
  <2>5. QED
    BY <2>1, <2>2, <2>3, <2>4 DEF KnownInv
<1>14. ASSUME NEW t \in Threads, FlushRebuildFails(t) PROVE KnownInv'
  <2>1. DrainKnown'
    BY <1>14, <1>o, <1>h, <1>k, <1>d, <1>l DEF DrainKnown, OutputType, IndexerType,
       CallType, Resting, HasIndexer, FlushRebuildFails, Tell
  <2>2. Ended'
    BY <1>14, <1>o, <1>h, <1>k, <1>d, <1>l DEF Ended, DrainKnown, OutputType,
       IndexerType, CallType, Roles, FlushRebuildFails, Tell
  <2>3. Left'
    BY <1>14, <1>o, <1>h, <1>k, <1>d, <1>l DEF Left, DrainKnown, Emptied,
       OutputType, IndexerType, CallType, HasIndexer, FlushRebuildFails, Tell
  <2>4. Confessed'
    BY <1>14, <1>o, <1>h, <1>k, <1>d, <1>l DEF Confessed, DrainKnown,
       NeverAddToClosed, OutputType, IndexerType, CallType, HasIndexer,
       FlushRebuildFails, Tell
  <2>5. QED
    BY <2>1, <2>2, <2>3, <2>4 DEF KnownInv
<1>15. ASSUME NEW t \in Threads, CloseDrains(t) PROVE KnownInv'
  <2>1. DrainKnown'
    BY <1>15, <1>o, <1>h, <1>k, <1>d, <1>l DEF DrainKnown, OutputType, IndexerType,
       CallType, Resting, HasIndexer, CloseDrains, DrainEnds, Drained
  <2>2. Ended'
    BY <1>15, <1>o, <1>h, <1>k, <1>d, <1>l DEF Ended, DrainKnown, OutputType,
       IndexerType, CallType, Roles, CloseDrains, DrainEnds, Drained
  <2>3. Left'
    BY <1>15, <1>o, <1>h, <1>k, <1>d, <1>l DEF Left, DrainKnown, Emptied,
       OutputType, IndexerType, CallType, HasIndexer, CloseDrains, DrainEnds,
       Drained
  <2>4. Confessed'
    BY <1>15, <1>o, <1>h, <1>k, <1>d, <1>l DEF Confessed, DrainKnown,
       NeverAddToClosed, OutputType, IndexerType, CallType, HasIndexer, CloseDrains,
       DrainEnds, Drained
  <2>5. QED
    BY <2>1, <2>2, <2>3, <2>4 DEF KnownInv
<1>16. ASSUME NEW t \in Threads, CloseEnds(t) PROVE KnownInv'
  <2>1. DrainKnown'
    BY <1>16, <1>o, <1>h, <1>k, <1>d, <1>l DEF DrainKnown, OutputType, IndexerType,
       CallType, Resting, HasIndexer, CloseEnds, Tell
  <2>2. Ended'
    BY <1>16, <1>o, <1>h, <1>k, <1>d, <1>l DEF Ended, DrainKnown, OutputType,
       IndexerType, CallType, Roles, CloseEnds, Tell
  <2>3. Left'
    BY <1>16, <1>o, <1>h, <1>k, <1>d, <1>l DEF Left, DrainKnown, Emptied,
       OutputType, IndexerType, CallType, HasIndexer, CloseEnds, Tell
  <2>4. Confessed'
    BY <1>16, <1>o, <1>h, <1>k, <1>d, <1>l DEF Confessed, DrainKnown,
       NeverAddToClosed, OutputType, IndexerType, CallType, HasIndexer, CloseEnds,
       Tell
  <2>5. QED
    BY <2>1, <2>2, <2>3, <2>4 DEF KnownInv
<1>17. ASSUME NEW t \in Threads, WriteAddFails(t) PROVE KnownInv'
  <2>1. DrainKnown'
    BY <1>17, <1>o, <1>h, <1>k, <1>d, <1>l DEF DrainKnown, OutputType, IndexerType,
       CallType, Resting, HasIndexer, WriteAddFails
  <2>2. Ended'
    BY <1>17, <1>o, <1>h, <1>k, <1>d, <1>l DEF Ended, DrainKnown, OutputType,
       IndexerType, CallType, Roles, WriteAddFails
  <2>3. Left'
    BY <1>17, <1>o, <1>h, <1>k, <1>d, <1>l DEF Left, DrainKnown, Emptied,
       OutputType, IndexerType, CallType, HasIndexer, WriteAddFails
  <2>4. Confessed'
    BY <1>17, <1>o, <1>h, <1>k, <1>d, <1>l DEF Confessed, DrainKnown,
       NeverAddToClosed, OutputType, IndexerType, CallType, HasIndexer,
       WriteAddFails
  <2>5. QED
    BY <2>1, <2>2, <2>3, <2>4 DEF KnownInv
<1>18. ASSUME NEW i \in Indexers, WorkerTakes(i) PROVE KnownInv'
  <2>1. DrainKnown'
    BY <1>18, <1>o, <1>h, <1>k, <1>d, <1>l DEF DrainKnown, OutputType, IndexerType,
       CallType, Resting, HasIndexer, WorkerTakes
  <2>2. Ended'
    BY <1>18, <1>o, <1>h, <1>k, <1>d, <1>l DEF Ended, DrainKnown, OutputType,
       IndexerType, CallType, Roles, WorkerTakes
  <2>3. Left'
    BY <1>18, <1>o, <1>h, <1>k, <1>d, <1>l DEF Left, DrainKnown, Emptied,
       OutputType, IndexerType, CallType, HasIndexer, WorkerTakes
  <2>4. Confessed'
    BY <1>18, <1>o, <1>h, <1>k, <1>d, <1>l DEF Confessed, DrainKnown,
       NeverAddToClosed, OutputType, IndexerType, CallType, HasIndexer, WorkerTakes
  <2>5. QED
    BY <2>1, <2>2, <2>3, <2>4 DEF KnownInv
<1>19. ASSUME NEW i \in Indexers, WorkerSends(i) PROVE KnownInv'
  <2>1. DrainKnown'
    BY <1>19, <1>o, <1>h, <1>k, <1>d, <1>l DEF DrainKnown, OutputType, IndexerType,
       CallType, Resting, HasIndexer, WorkerSends
  <2>2. Ended'
    BY <1>19, <1>o, <1>h, <1>k, <1>d, <1>l DEF Ended, DrainKnown, OutputType,
       IndexerType, CallType, Roles, WorkerSends
  <2>3. Left'
    BY <1>19, <1>o, <1>h, <1>k, <1>d, <1>l DEF Left, DrainKnown, Emptied,
       OutputType, IndexerType, CallType, HasIndexer, WorkerSends
  <2>4. Confessed'
    BY <1>19, <1>o, <1>h, <1>k, <1>d, <1>l DEF Confessed, DrainKnown,
       NeverAddToClosed, OutputType, IndexerType, CallType, HasIndexer, WorkerSends
  <2>5. QED
    BY <2>1, <2>2, <2>3, <2>4 DEF KnownInv
<1>20. CASE UNCHANGED vars
  <2>1. DrainKnown'
    BY <1>20, <1>o, <1>h, <1>k, <1>d, <1>l DEF DrainKnown, OutputType, IndexerType,
       CallType, Resting, HasIndexer, vars
  <2>2. Ended'
    BY <1>20, <1>o, <1>h, <1>k, <1>d, <1>l DEF Ended, DrainKnown, OutputType,
       IndexerType, CallType, Roles, vars
  <2>3. Left'
    BY <1>20, <1>o, <1>h, <1>k, <1>d, <1>l DEF Left, DrainKnown, Emptied,
       OutputType, IndexerType, CallType, HasIndexer, vars
  <2>4. Confessed'
    BY <1>20, <1>o, <1>h, <1>k, <1>d, <1>l DEF Confessed, DrainKnown,
       NeverAddToClosed, OutputType, IndexerType, CallType, HasIndexer, vars
  <2>5. QED
    BY <2>1, <2>2, <2>3, <2>4 DEF KnownInv
<1>21. QED
  BY <1>1, <1>2, <1>3, <1>4, <1>5, <1>6, <1>7, <1>8, <1>9, <1>10, <1>11, <1>12,
     <1>13, <1>14, <1>15, <1>16, <1>17, <1>18, <1>19, <1>20
  DEF Next, Calls, Enters, Finishes, Worker

\* Every item that was accepted is settled, or some call has said that the
\* indexer it is in was given up.
AllKnown == \A d \in 1..accepted : d \in Settled \/ home[d] \in told

LEMMA Accounted ==
    ASSUME TypeInv, Placed, Left,
           indexer # 0 => \/ indexer \in told
                          \/ queue[indexer] = <<>> /\ hand[indexer] = 0
    PROVE  AllKnown
<1> SUFFICES ASSUME NEW d \in 1..accepted, home[d] \notin told PROVE d \in Settled
  BY DEF AllKnown
<1>1. ItemType
  BY DEF TypeInv, TypeOK
<1>2. PICK i \in Indexers : home[d] = i
  BY <1>1 DEF ItemType
<1>3. queue[i] = <<>> /\ hand[i] = 0
  <2>1. CASE i = indexer
    BY <1>2, <2>1, BulkAssumption DEF Indexers
  <2>2. CASE i # indexer
    BY <1>2, <2>2 DEF Left
  <2>3. QED
    BY <2>1, <2>2
<1>4. ~In(i, d)
  BY <1>1, <1>3 DEF In, ItemType
<1>5. QED
  BY <1>2, <1>4 DEF Placed

\* What is settled or told stays so, and an item stays where it was added.
LEMMA Persists ==
    ASSUME TypeInv, [Next]_vars
    PROVE  /\ Settled \subseteq Settled' /\ told \subseteq told'
           /\ \A d \in 1..accepted : home'[d] = home[d]
<1>1. Settled \subseteq Settled' /\ told \subseteq told'
  <2>1. \/ UNCHANGED <<sent, failed>>
        \/ \E i \in Indexers : WorkerSends(i)
    BY DEF Next, Calls, Enters, Finishes, Worker, vars, fieldVars, indexerVars, itemVars,
       fateVars, boundVars, WriteCall, FlushCall, CloseCall, WriteRefused, WriteLock,
       FlushSkip, FlushBegins, CloseAgain, CloseNothing, CloseBegins, FlushDrains,
       FlushRebuilds, FlushRebuildFails, CloseDrains, CloseEnds, WriteAdd, WriteAddFails,
       DrainEnds, Tell, WorkerTakes
  <2>2. \/ UNCHANGED told
        \/ \E t \in Threads : Tell(t)
    BY DEF Next, Calls, Enters, Finishes, Worker, vars, fieldVars, indexerVars, itemVars,
       fateVars, boundVars, WriteCall, FlushCall, CloseCall, WriteRefused, WriteLock,
       FlushSkip, FlushBegins, CloseAgain, CloseNothing, CloseBegins, FlushDrains,
       FlushRebuilds, FlushRebuildFails, CloseDrains, CloseEnds, WriteAdd, WriteAddFails,
       DrainEnds, WorkerTakes, WorkerSends
  <2>3. QED
    BY <2>1, <2>2 DEF WorkerSends, Settled, Tell
<1>2. ASSUME NEW d \in 1..accepted PROVE home'[d] = home[d]
  <2>1. CASE UNCHANGED home
    BY <2>1
  <2>2. ASSUME NEW t \in Threads, WriteAdd(t) PROVE home'[d] = home[d]
    <3>1. indexer \in Indexers
      BY <2>2, IndexerBuilt DEF WriteAdd, TypeInv, HasIndexer
    <3>2. home \in Seq(Indexers) /\ Len(home) = accepted /\ accepted \in Nat
      BY DEF TypeInv, TypeOK, ItemType
    <3>3. QED
      BY <2>2, <3>1, <3>2, AppendProperties DEF WriteAdd
  <2>3. QED
    BY <2>1, <2>2, ItemSteps DEF WorkerTakes, WorkerSends, itemVars
<1>3. QED
  BY <1>1, <1>2

\* A call that comes back with nil, of those that have drained or had nothing to
\* drain, leaves nothing behind that no call has told of.
LEMMA NilReturns ==
    ASSUME TypeInv, LifeInv, Placed, KnownInv, NEW t \in Threads,
           FlushSkip(t) \/ FlushRebuilds(t) \/ CloseAgain(t) \/ CloseNothing(t) \/ CloseEnds(t),
           result'[t] = "nil"
    PROVE  AllKnown /\ UNCHANGED <<accepted, home, sent, failed>>
<1>o. OutputType /\ CallType /\ TypeOK
  BY DEF TypeInv, TypeOK
<1>d. DrainKnown /\ Ended /\ Left /\ Confessed
  BY DEF KnownInv
<1>1. UNCHANGED <<accepted, home, sent, failed>>
  BY DEF FlushSkip, FlushRebuilds, CloseAgain, CloseNothing, CloseEnds, itemVars, fateVars
<1>2. ASSUME indexer # 0
      PROVE  indexer \in told \/ (queue[indexer] = <<>> /\ hand[indexer] = 0)
  <2>1. indexer \in Indexers
    BY <1>o, <1>2, IndexerBuilt
  <2>2. \/ phase[indexer] = "drained"
        \/ phase[indexer] = "abandoned" /\ mu = "free"
    <3>1. CASE FlushSkip(t) \/ CloseAgain(t)
      BY <1>2, <1>d, <3>1 DEF FlushSkip, CloseAgain, Ended
    <3>2. CASE FlushRebuilds(t) \/ CloseEnds(t)
      <4>1. errs[t] = "nil" /\ pc[t] \in {"rebuilding", "ending"}
        BY <1>o, <3>2 DEF FlushRebuilds, CloseEnds, Unlocks, Return, CallType
      <4>2. QED
        BY <1>2, <1>d, <4>1 DEF DrainKnown
    <3>3. CASE CloseNothing(t)
      BY <1>2, <3>3 DEF CloseNothing
    <3>4. QED
      BY <3>1, <3>2, <3>3
  <2>3. CASE phase[indexer] = "drained"
    BY <2>1, <2>3 DEF LifeInv, Emptied
  <2>4. CASE phase[indexer] = "abandoned" /\ mu = "free"
    BY <1>d, <2>1, <2>4, BulkAssumption DEF Confessed
  <2>5. QED
    BY <2>2, <2>3, <2>4
<1>3. QED
  BY <1>1, <1>2, <1>d, Accounted

\* Which steps return from Flush and Close.
LEMMA WhoReturns ==
    ASSUME TypeInv, NEW t \in Threads, [Next]_vars, pc'[t] \in {"flushed", "closed"},
           result'[t] = "nil"
    PROVE  \/ UNCHANGED <<pc[t], result[t], covers[t]>>
           \/ /\ covers' = covers
              /\ \/ FlushSkip(t) \/ FlushRebuilds(t) \/ CloseAgain(t)
                 \/ CloseNothing(t) \/ CloseEnds(t)
<1>c. CallType
  BY DEF TypeInv, TypeOK
<1> USE DEF CallType, Return, Locks, Unlocks
<1>1. ASSUME NEW u \in Threads, WriteCall(u) PROVE UNCHANGED <<pc[t], result[t], covers[t]>>
  BY <1>c, <1>1 DEF WriteCall
<1>2. ASSUME NEW u \in Threads, FlushCall(u) PROVE UNCHANGED <<pc[t], result[t], covers[t]>>
  BY <1>c, <1>2 DEF FlushCall
<1>3. ASSUME NEW u \in Threads, CloseCall(u) PROVE UNCHANGED <<pc[t], result[t], covers[t]>>
  BY <1>c, <1>3 DEF CloseCall
<1>4. ASSUME NEW u \in Threads, WriteRefused(u) PROVE UNCHANGED <<pc[t], result[t], covers[t]>>
  BY <1>c, <1>4 DEF WriteRefused
<1>5. ASSUME NEW u \in Threads, WriteLock(u) PROVE UNCHANGED <<pc[t], result[t], covers[t]>>
  BY <1>c, <1>5 DEF WriteLock
<1>6. ASSUME NEW u \in Threads, FlushSkip(u)
      PROVE  UNCHANGED <<pc[t], result[t], covers[t]>> \/ (u = t /\ covers' = covers)
  BY <1>c, <1>6 DEF FlushSkip
<1>7. ASSUME NEW u \in Threads, FlushBegins(u) PROVE UNCHANGED <<pc[t], result[t], covers[t]>>
  BY <1>c, <1>7 DEF FlushBegins
<1>8. ASSUME NEW u \in Threads, CloseAgain(u)
      PROVE  UNCHANGED <<pc[t], result[t], covers[t]>> \/ (u = t /\ covers' = covers)
  BY <1>c, <1>8 DEF CloseAgain
<1>9. ASSUME NEW u \in Threads, CloseNothing(u)
      PROVE  UNCHANGED <<pc[t], result[t], covers[t]>> \/ (u = t /\ covers' = covers)
  BY <1>c, <1>9 DEF CloseNothing
<1>10. ASSUME NEW u \in Threads, CloseBegins(u) PROVE UNCHANGED <<pc[t], result[t], covers[t]>>
  BY <1>c, <1>10 DEF CloseBegins
<1>11. ASSUME NEW u \in Threads, WriteAdd(u) PROVE UNCHANGED <<pc[t], result[t], covers[t]>>
  BY <1>c, <1>11 DEF WriteAdd
<1>12. ASSUME NEW u \in Threads, FlushDrains(u) PROVE UNCHANGED <<pc[t], result[t], covers[t]>>
  BY <1>c, <1>12 DEF FlushDrains, DrainEnds
<1>13. ASSUME NEW u \in Threads, FlushRebuilds(u)
      PROVE  UNCHANGED <<pc[t], result[t], covers[t]>> \/ (u = t /\ covers' = covers)
  BY <1>c, <1>13 DEF FlushRebuilds
<1>14. ASSUME NEW u \in Threads, FlushRebuildFails(u) PROVE UNCHANGED <<pc[t], result[t], covers[t]>>
  BY <1>c, <1>14 DEF FlushRebuildFails
<1>15. ASSUME NEW u \in Threads, CloseDrains(u) PROVE UNCHANGED <<pc[t], result[t], covers[t]>>
  BY <1>c, <1>15 DEF CloseDrains, DrainEnds
<1>16. ASSUME NEW u \in Threads, CloseEnds(u)
      PROVE  UNCHANGED <<pc[t], result[t], covers[t]>> \/ (u = t /\ covers' = covers)
  BY <1>c, <1>16 DEF CloseEnds
<1>17. ASSUME NEW u \in Threads, WriteAddFails(u) PROVE UNCHANGED <<pc[t], result[t], covers[t]>>
  BY <1>c, <1>17 DEF WriteAddFails
<1>18. ASSUME NEW i \in Indexers, WorkerTakes(i) PROVE UNCHANGED <<pc[t], result[t], covers[t]>>
  BY <1>c, <1>18 DEF WorkerTakes
<1>19. ASSUME NEW i \in Indexers, WorkerSends(i) PROVE UNCHANGED <<pc[t], result[t], covers[t]>>
  BY <1>c, <1>19 DEF WorkerSends
<1>20. CASE UNCHANGED vars
  BY <1>c, <1>20 DEF vars
<1>21. QED
  BY <1>1, <1>2, <1>3, <1>4, <1>5, <1>6, <1>7, <1>8, <1>9, <1>10, <1>11, <1>12,
     <1>13, <1>14, <1>15, <1>16, <1>17, <1>18, <1>19, <1>20
  DEF Next, Calls, Enters, Finishes, Worker

LEMMA NilCoversKept ==
    ASSUME TypeInv, LifeInv, Placed, KnownInv, NilCovers, [Next]_vars
    PROVE  NilCovers'
<1> SUFFICES ASSUME NEW t \in Threads, pc'[t] \in {"flushed", "closed"}, result'[t] = "nil",
                    NEW d \in covers'[t]
             PROVE  d \in Settled' \/ home'[d] \in told'
  BY DEF NilCovers
<1>c. covers[t] \subseteq 1..accepted
  BY DEF TypeInv, TypeOK, CallType
<1>1. CASE UNCHANGED <<pc[t], result[t], covers[t]>>
  <2>1. d \in 1..accepted /\ (d \in Settled \/ home[d] \in told)
    BY <1>c, <1>1 DEF NilCovers
  <2>2. QED
    BY <2>1, Persists
<1>2. CASE /\ covers' = covers
           /\ \/ FlushSkip(t) \/ FlushRebuilds(t) \/ CloseAgain(t)
              \/ CloseNothing(t) \/ CloseEnds(t)
  <2>1. AllKnown
    BY <1>2, NilReturns
  <2>2. d \in 1..accepted
    BY <1>c, <1>2
  <2>3. QED
    BY <2>1, <2>2, Persists DEF AllKnown
<1>3. QED
  BY <1>1, <1>2, WhoReturns

LEMMA LossInvariant == Spec => [](TypeInv /\ LifeInv /\ LossInv)
<1> DEFINE I == TypeInv /\ LifeInv /\ LossInv
<1>1. Init => I
  BY InitTypes, InitLife, InitLoss
<1>2. I /\ [Next]_vars => I'
  <2> SUFFICES ASSUME TypeInv, LifeInv, Placed, KnownInv, NilCovers, [Next]_vars
               PROVE  I'
    BY DEF LossInv
  <2>1. TypeInv'
    BY TypesKept
  <2>2. LifeInv'
    BY <2>1, LifeKept
  <2>3. KnownInv'
    BY <2>1, <2>2, KnownKept
  <2>4. QED
    BY <2>1, <2>2, <2>3, PlacedKept, NilCoversKept DEF LossInv
<1>3. QED
  BY <1>1, <1>2, PTL DEF Spec

\* An accepted item is sent, reported as failed, or still in the one indexer it
\* was added to, and it is left behind in a replaced indexer only when a call
\* has returned that the drain failed; a Flush or a Close that returns nil says
\* that nothing accepted before it is left but what was told so (es/bulk.go:
\* Write, Flush, Close).
THEOREM NothingIsLostSilently == Spec => []NothingLostSilently
<1>1. TypeInv /\ LossInv => NothingLostSilently
  <2> SUFFICES ASSUME TypeInv, Placed, KnownInv PROVE LossesTold
    BY DEF NothingLostSilently, LossInv
  <2>1. ASSUME NEW i \in Indexers
        PROVE  /\ Waiting(i) = {d \in 1..accepted : home[d] = i} \ Settled
               /\ i # indexer /\ Waiting(i) # {} => phase[i] = "abandoned" /\ i \in told
               /\ phase[i] = "abandoned" =>
                     i \in told \/ \E t \in Threads :
                         mu = t /\ i = indexer /\ errs[t] = "error"
    <3>1. Waiting(i) = {d \in 1..accepted : home[d] = i} \ Settled
      BY WaitingIs
    <3>2. ASSUME queue[i] = <<>>, hand[i] = 0 PROVE Waiting(i) = {}
      BY <3>2 DEF Waiting
    <3>3. QED
      BY <3>1, <3>2 DEF KnownInv, Left, Confessed
  <2>2. QED
    BY <2>1 DEF LossesTold, Placed
<1>2. QED
  BY <1>1, LossInvariant, PTL
=============================================================================
