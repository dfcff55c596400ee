------------------------- MODULE RotatingFileProofs -------------------------
(***************************************************************************)
(* Proofs about RotatingFile, for every threshold, retention, set of       *)
(* lengths and behaviour of the clock and the filesystem.                  *)
(***************************************************************************)
EXTENDS RotatingFile, FiniteSetTheorems, WellFoundedInduction, TLAPS

USE RotationAssumption
USE DEF writerVars, callVars, liveVars, backupVars, envVars, histVars, noteVars

----------------------------------------------------------------------------
(* Types.                                                                  *)

\* The set of possible backups only grows with the counters.
LEMMA BackupGrows ==
    ASSUME written \in Nat, written' \in Nat, written <= written',
           rotations \in Nat, rotations' \in Nat, rotations <= rotations'
    PROVE  Backup \subseteq Backup'
<1>1. 1..written \subseteq 1..written'  OBVIOUS
<1>2. 1..rotations \subseteq 1..rotations'  OBVIOUS
<1> QED  BY <1>1, <1>2 DEF Backup

\* What a step that appends does to the types.
LEMMA LandTypes ==
    ASSUME WriterType, FilesType, NEW s \in Nat, NEW n \in Lengths,
           NEW r \in {"nil", "error"}, Land(s, n, r)
    PROVE  /\ pc' = "idle" /\ len' = 0
           /\ size' \in Nat /\ written' \in Nat /\ written <= written'
           /\ live' \subseteq 1..written' /\ liveBytes' \in Nat
           /\ liveTime' \in 0..MaxClock
           /\ outcome' \in {"nil", "error", "unavailable"}
<1>1. n \in Nat  OBVIOUS
<1>2. CASE /\ written' = written + 1
           /\ live' = live \cup {written + 1}
           /\ liveBytes' = liveBytes + n
           /\ size' = s + n
           /\ outcome' = r
  <2>1. 1..written \cup {written + 1} \subseteq 1..written'
    BY <1>2 DEF FilesType
  <2>2. live' \subseteq 1..written'
    BY <1>2, <2>1 DEF FilesType
  <2> QED  BY <1>1, <1>2, <2>2 DEF Land, FilesType
<1>3. CASE \E k \in 0..(n - 1) :
             /\ ~healthy
             /\ liveBytes' = liveBytes + k
             /\ size' = s + k
             /\ outcome' = "error"
             /\ UNCHANGED <<written, live>>
  BY <1>1, <1>3 DEF Land, FilesType
<1> QED  BY <1>2, <1>3 DEF Land

\* The types of the writer and of its files.
LEMMA FilesStep ==
    WriterType /\ FilesType /\ [Next]_vars => WriterType' /\ FilesType'
<1> SUFFICES ASSUME WriterType, FilesType, [Next]_vars
             PROVE  WriterType' /\ FilesType'
  OBVIOUS
<1>0. Lengths \subseteq Nat  OBVIOUS
<1>2. CASE Write
  <2>1. PICK n \in Lengths : RotateOrAppend(size, n)  BY <1>2 DEF Write
  <2>2. CASE Land(size, n, "nil")
    BY <1>0, <1>2, <2>2, LandTypes DEF Write, CountCall, WriterType, FilesType
  <2>3. CASE StartRotation(size, n)
    BY <1>0, <1>2, <2>3 DEF Write, CountCall, StartRotation, WriterType, FilesType
  <2> QED  BY <2>1, <2>2, <2>3 DEF RotateOrAppend
<1>3. CASE WriteHealing
  <2>1. CASE ~healthy /\ Refuse("unavailable") /\ UNCHANGED <<file, size, noteVars>>
    BY <1>0, <1>3, <2>1 DEF WriteHealing, CountCall, Refuse, WriterType, FilesType
  <2>2. CASE \E n \in Lengths, s \in {0, liveBytes} :
             /\ Reopen(s)
             /\ RotateOrAppend(s, n)
             /\ excused' = (excused \/ s # liveBytes)
    <3>1. PICK n \in Lengths, s \in {0, liveBytes} :
             Reopen(s) /\ RotateOrAppend(s, n)
      BY <2>2
    <3>2. s \in Nat  BY DEF FilesType
    <3>3. CASE Land(s, n, "nil")
      BY <1>0, <1>3, <3>1, <3>2, <3>3, LandTypes
      DEF WriteHealing, CountCall, Reopen, WriterType, FilesType
    <3>4. CASE StartRotation(s, n)
      BY <1>0, <1>3, <3>1, <3>2, <3>4
      DEF WriteHealing, CountCall, Reopen, StartRotation, WriterType, FilesType
    <3> QED  BY <3>1, <3>3, <3>4 DEF RotateOrAppend
  <2> QED  BY <1>3, <2>1, <2>2 DEF WriteHealing
<1>4. CASE RotateFails
  <2>1. CASE ~healthy /\ file' = "none" /\ Refuse("error")
             /\ UNCHANGED <<size, calls, noteVars>>
    BY <1>0, <1>4, <2>1
    DEF RotateFails, RecoverLiveFile, Refuse, WriterType, FilesType
  <2>2. CASE \E s \in {0, liveBytes} :
             /\ Reopen(s)
             /\ Land(s, len, "error")
             /\ excused' = (excused \/ liveBytes > 0)
    <3>1. PICK s \in {0, liveBytes} : Reopen(s) /\ Land(s, len, "error")
      BY <2>2
    <3>2. s \in Nat /\ len \in Lengths
      BY <1>4 DEF RotateFails, WriterType, FilesType
    <3> QED
      BY <1>0, <1>4, <3>1, <3>2, LandTypes
      DEF RotateFails, RecoverLiveFile, Reopen, WriterType, FilesType
  <2> QED  BY <1>4, <2>1, <2>2 DEF RotateFails, RecoverLiveFile
<1>5. CASE RotateRename
  BY <1>0, <1>5 DEF RotateRename, WriterType, FilesType
<1>6. CASE RotatePrune
  <2>1. PICK r \in {"nil", "error"} : Land(size, len, r)
    BY <1>6 DEF RotatePrune
  <2>2. len \in Lengths /\ size \in Nat  BY <1>6 DEF RotatePrune, WriterType
  <2> QED
    BY <1>0, <1>6, <2>1, <2>2, LandTypes DEF RotatePrune, WriterType, FilesType
<1>7. CASE RotateOpen
  BY <1>0, <1>7 DEF RotateOpen, WriterType, FilesType
<1>8. CASE RotateClose \/ WriteClosed \/ Sync \/ Close
  BY <1>0, <1>8
  DEF RotateClose, WriteClosed, Sync, Close, WriterType, FilesType
<1>9. CASE FilesystemChanges \/ ClockChanges \/ Restart
  <2>1. CASE FilesystemChanges
    BY <2>1 DEF FilesystemChanges, WriterType, FilesType
  <2>2. CASE ClockChanges
    BY <2>2 DEF ClockChanges, WriterType, FilesType
  <2>3. CASE Restart
    BY <1>0, <2>3 DEF Restart, Reopen, WriterType, FilesType
  <2> QED  BY <1>9, <2>1, <2>2, <2>3
<1>10. CASE UNCHANGED vars
  <2>1. UNCHANGED <<writerVars, callVars, liveVars, outcome, calls, written,
                    rotations, clock, stamp>>
    BY <1>10 DEF vars
  <2> QED  BY <2>1 DEF WriterType, FilesType
<1> QED
  BY <1>2, <1>3, <1>4, <1>5, <1>6, <1>7, <1>8, <1>9, <1>10 DEF Next, WriterStep

\* The counters only grow; only a rename and prune touch the backups.
LEMMA Frames ==
    ASSUME WriterType, FilesType, [Next]_vars
    PROVE  /\ written \in Nat /\ written' \in Nat /\ written <= written'
           /\ rotations \in Nat /\ rotations' \in Nat /\ rotations <= rotations'
           /\ RotateRename \/ RotatePrune \/ UNCHANGED <<backups, pruned>>
           /\ RotateRename \/ UNCHANGED <<rotations, clobbered, stamp, orderly>>
<1>0. FilesType'  BY FilesStep
<1>1. CASE Write
  <2>1. PICK n \in Lengths : RotateOrAppend(size, n)  BY <1>1 DEF Write
  <2>2. UNCHANGED backupVars  BY <1>1 DEF Write
  <2>3. CASE Land(size, n, "nil")
    <3>1. size \in Nat  BY DEF WriterType
    <3> QED  BY <1>0, <2>2, <2>3, <3>1, LandTypes DEF FilesType
  <2>4. CASE StartRotation(size, n)
    BY <1>0, <2>2, <2>4 DEF StartRotation, FilesType
  <2> QED  BY <2>1, <2>3, <2>4 DEF RotateOrAppend
<1>2. CASE WriteHealing
  <2>2. UNCHANGED backupVars  BY <1>2 DEF WriteHealing
  <2>3. CASE Refuse("unavailable")
    BY <1>0, <2>2, <2>3 DEF Refuse, FilesType
  <2>4. ASSUME NEW n \in Lengths, NEW s \in {0, liveBytes}, RotateOrAppend(s, n)
        PROVE  written <= written'
    <3>1. s \in Nat  BY DEF FilesType
    <3>2. CASE Land(s, n, "nil")  BY <3>1, <3>2, LandTypes
    <3>3. CASE StartRotation(s, n)  BY <3>3 DEF StartRotation, FilesType
    <3> QED  BY <2>4, <3>2, <3>3 DEF RotateOrAppend
  <2> QED  BY <1>0, <1>2, <2>2, <2>3, <2>4 DEF WriteHealing, FilesType
<1>3. CASE RotateFails
  <2>2. UNCHANGED backupVars  BY <1>3 DEF RotateFails, RecoverLiveFile
  <2>3. CASE Refuse("error")
    BY <1>0, <2>2, <2>3 DEF Refuse, FilesType
  <2>4. ASSUME NEW s \in {0, liveBytes}, Land(s, len, "error")
        PROVE  written <= written'
    <3>1. s \in Nat /\ len \in Lengths
      BY <1>3 DEF FilesType, WriterType, RotateFails
    <3> QED  BY <2>4, <3>1, LandTypes
  <2> QED
    BY <1>0, <1>3, <2>2, <2>3, <2>4 DEF RotateFails, RecoverLiveFile, FilesType
<1>4. CASE RotatePrune
  <2>1. PICK r \in {"nil", "error"} : Land(size, len, r)
    BY <1>4 DEF RotatePrune
  <2>2. len \in Lengths /\ size \in Nat  BY <1>4 DEF RotatePrune, WriterType
  <2>3. written <= written'  BY <2>1, <2>2, LandTypes
  <2>4. UNCHANGED <<rotations, clobbered, stamp, orderly>>
    BY <1>4 DEF RotatePrune
  <2> QED  BY <1>0, <1>4, <2>3, <2>4 DEF FilesType
<1>5. CASE RotateRename
  <2>1. rotations' = rotations + 1 /\ written' = written
    BY <1>5 DEF RotateRename
  <2> QED  BY <1>0, <1>5, <2>1 DEF FilesType
<1>6. CASE RotateClose \/ RotateOpen
  BY <1>0, <1>6 DEF RotateClose, RotateOpen, FilesType
<1>7. CASE WriteClosed \/ Sync \/ Close
  BY <1>0, <1>7 DEF WriteClosed, Sync, Close, FilesType
<1>8. CASE FilesystemChanges \/ ClockChanges
  BY <1>0, <1>8 DEF FilesystemChanges, ClockChanges, FilesType
<1>9. CASE Restart \/ UNCHANGED vars
  BY <1>0, <1>9 DEF Restart, vars, FilesType
<1> QED
  BY <1>1, <1>2, <1>3, <1>4, <1>5, <1>6, <1>7, <1>8, <1>9 DEF Next, WriterStep

\* What a rename makes of the backups.
LEMMA RenameFacts ==
    ASSUME RotateRename
    PROVE  \E k \in 0..Cardinality(backups) :
              /\ BackupPath(clock, k)
              /\ backups' = (backups \ Replaced(k)) \cup {NewBackup(k)}
              /\ clobbered' = clobbered
                    \cup UNION {b.messages : b \in Replaced(k)}
BY DEF RotateRename

\* The types of the backups and of what became of them.
LEMMA BackupsStep ==
    WriterType /\ FilesType /\ BackupsType /\ [Next]_vars => BackupsType'
<1> SUFFICES ASSUME WriterType, FilesType, BackupsType, [Next]_vars
             PROVE  BackupsType'
  OBVIOUS
<1>1. /\ written \in Nat /\ written' \in Nat /\ written <= written'
      /\ rotations \in Nat /\ rotations' \in Nat /\ rotations <= rotations'
  BY Frames
<1>2. 1..written \subseteq 1..written'  BY <1>1
<1>3. backups \subseteq Backup'  BY <1>1, BackupGrows DEF BackupsType
<1>4. \A b \in backups : b.messages \subseteq 1..written'
  BY <1>2 DEF BackupsType, Backup
<1>5. CASE RotateRename
  <2>1. PICK k \in 0..Cardinality(backups) :
              /\ backups' = (backups \ Replaced(k)) \cup {NewBackup(k)}
              /\ clobbered' = clobbered
                    \cup UNION {b.messages : b \in Replaced(k)}
    BY <1>5, RenameFacts
  <2>2. k \in Nat  BY FS_CardinalityType DEF BackupsType
  <2>3. rotations' = rotations + 1 /\ written' = written /\ pruned' = pruned
    BY <1>5 DEF RotateRename
  <2>4. NewBackup(k) \in Backup'
    BY <1>1, <2>2, <2>3 DEF NewBackup, Backup, FilesType
  <2>5. Replaced(k) \subseteq backups  BY DEF Replaced
  <2>6. backups' \subseteq Backup'  BY <1>3, <2>1, <2>4
  <2>7. IsFiniteSet(backups')
    BY <2>1, FS_Difference, FS_AddElement DEF BackupsType
  <2>8. clobbered' \subseteq 1..written'
    BY <1>2, <1>4, <2>1, <2>5 DEF BackupsType
  <2> QED  BY <1>2, <2>3, <2>6, <2>7, <2>8 DEF BackupsType
<1>6. CASE RotatePrune
  <2>1. PICK gone \in SUBSET (BeyondCap \cup TooOld) :
          /\ backups' = backups \ gone
          /\ pruned' = pruned \cup UNION {b.messages : b \in gone}
    BY <1>6 DEF RotatePrune
  <2>2. gone \subseteq backups  BY DEF BeyondCap, TooOld
  <2>3. pruned' \subseteq 1..written'
    BY <1>2, <1>4, <2>1, <2>2 DEF BackupsType
  <2>4. backups' \subseteq Backup'  BY <1>3, <2>1
  <2>5. IsFiniteSet(backups')  BY <2>1, FS_Difference DEF BackupsType
  <2>6. clobbered' \subseteq 1..written'
    BY <1>2, <1>6 DEF RotatePrune, BackupsType
  <2> QED  BY <2>3, <2>4, <2>5, <2>6 DEF BackupsType
<1>7. CASE UNCHANGED <<backups, pruned, clobbered>>
  BY <1>2, <1>3, <1>7 DEF BackupsType
<1> QED
  <2>1. ASSUME ~RotateRename, ~RotatePrune
        PROVE  UNCHANGED <<backups, pruned, clobbered>>
    BY <2>1, Frames
  <2> QED  BY <1>5, <1>6, <1>7, <2>1

\* The types of the flags.
LEMMA FlagsStep == FlagsType /\ [Next]_vars => FlagsType'
<1> SUFFICES ASSUME FlagsType, [Next]_vars
             PROVE  FlagsType'
  OBVIOUS
<1>1. CASE Write \/ Sync \/ Close \/ WriteClosed
  BY <1>1, Zenon DEF Write, Sync, Close, WriteClosed, FlagsType
<1>2. CASE WriteHealing
  BY <1>2, Zenon DEF WriteHealing, Reopen, FlagsType
<1>3. CASE RotateFails
  BY <1>3, Zenon DEF RotateFails, RecoverLiveFile, Reopen, FlagsType
<1>4. CASE RotateClose \/ RotateOpen
  BY <1>4, Zenon DEF RotateClose, RotateOpen, FlagsType
<1>5. CASE RotateRename \/ RotatePrune
  BY <1>5, Zenon DEF RotateRename, RotatePrune, FlagsType
<1>6. CASE FilesystemChanges \/ ClockChanges \/ Restart
  BY <1>6, Zenon DEF FilesystemChanges, ClockChanges, Restart, Reopen, FlagsType
<1>7. CASE UNCHANGED vars
  BY <1>7, Zenon DEF vars, FlagsType
<1> QED
  BY <1>1, <1>2, <1>3, <1>4, <1>5, <1>6, <1>7 DEF Next, WriterStep

\* Every variable keeps its type, and only an open writer rotates.
THEOREM TypeCorrect == Spec => []TypeOK
<1>1. Init => TypeOK
  <2> SUFFICES ASSUME Init PROVE TypeOK
    OBVIOUS
  <2>1. WriterType  BY DEF Init, WriterType
  <2>2. FilesType  BY DEF Init, FilesType
  <2>3. BackupsType  BY FS_EmptySet DEF Init, BackupsType
  <2>4. FlagsType  BY DEF Init, FlagsType
  <2> QED  BY <2>1, <2>2, <2>3, <2>4 DEF TypeOK
<1>2. TypeOK /\ [Next]_vars => TypeOK'
  BY FilesStep, BackupsStep, FlagsStep DEF TypeOK
<1> QED  BY <1>1, <1>2, PTL DEF Spec

----------------------------------------------------------------------------
(* The size counter and the threshold.                                     *)

\* An empty live file holds no message, and after the rename it is empty.
FreshFile ==
    /\ pc \in {"opening", "pruning"} => liveBytes = 0
    /\ liveBytes = 0 => live = {}

\* A counter that missed content belongs to a file that is excused, or that a
\* later open will replace.
BlindExcused == blind => excused \/ pc = "opening" \/ file # "open"

SizeInv == FreshFile /\ SizeHonest /\ NoEmptyBackup /\ BlindExcused /\ LiveBounded

\* What an append does to the counter and to the live file.
LEMMA LandSizes ==
    ASSUME WriterType, FilesType, FreshFile,
           NEW s \in Nat, NEW n \in Lengths, NEW r \in {"nil", "error"},
           Land(s, n, r), s <= liveBytes
    PROVE  /\ pc' = "idle"
           /\ size' <= liveBytes'
           /\ s = liveBytes => size' = liveBytes'
           /\ liveBytes <= liveBytes'
           /\ liveBytes' = 0 => live' = {}
           /\ s = liveBytes /\ ~NeedsRotation(s, n) =>
                 liveBytes' <= MaxSizeBytes \/ Cardinality(live') <= 1
           /\ liveBytes = 0 => Cardinality(live') <= 1
<1>1. n \in Nat /\ n > 0  OBVIOUS
<1>2. Cardinality({}) = 0 /\ Cardinality({written + 1}) = 1
  BY FS_EmptySet, FS_Singleton
<1>3. pc' = "idle"  BY DEF Land
<1>4. CASE /\ written' = written + 1
           /\ live' = live \cup {written + 1}
           /\ liveBytes' = liveBytes + n
           /\ size' = s + n
  <2>1. liveBytes = 0 => live' = {written + 1}  BY <1>4 DEF FreshFile
  <2>2. liveBytes = 0 => Cardinality(live') <= 1  BY <1>2, <2>1
  <2> QED  BY <1>1, <1>3, <1>4, <2>2 DEF FilesType, NeedsRotation
<1>5. CASE \E k \in 0..(n - 1) :
             /\ liveBytes' = liveBytes + k
             /\ size' = s + k
             /\ UNCHANGED <<written, live>>
  <2>1. PICK k \in 0..(n - 1) :
             /\ liveBytes' = liveBytes + k
             /\ size' = s + k
             /\ UNCHANGED <<written, live>>
    BY <1>5
  <2>2. liveBytes = 0 => Cardinality(live') <= 1
    BY <1>2, <2>1 DEF FreshFile
  <2> QED
    BY <1>1, <1>3, <2>1, <2>2 DEF FilesType, NeedsRotation, FreshFile
<1> QED  BY <1>4, <1>5 DEF Land

\* The counter is consulted in these states.
LEMMA SizeStep ==
    ASSUME TypeOK, [Next]_vars, FreshFile, SizeHonest
    PROVE  FreshFile' /\ SizeHonest'
<1> USE DEF TypeOK
<1>1. CASE Write
  <2>1. PICK n \in Lengths : RotateOrAppend(size, n)  BY <1>1 DEF Write
  <2>2. UNCHANGED <<file, blind>> /\ pc = "idle" /\ file = "open"
    BY <1>1 DEF Write
  <2>3. size <= liveBytes /\ (size = liveBytes \/ blind) /\ size \in Nat
    BY <2>2 DEF SizeHonest, WriterType
  <2>4. CASE Land(size, n, "nil")
    <3>1. /\ pc' = "idle"
          /\ size' <= liveBytes'
          /\ size = liveBytes => size' = liveBytes'
          /\ liveBytes' = 0 => live' = {}
      BY <2>3, <2>4, LandSizes
    <3> QED  BY <2>2, <2>3, <3>1 DEF FreshFile, SizeHonest
  <2>5. CASE StartRotation(size, n)
    BY <2>2, <2>3, <2>5 DEF StartRotation, FreshFile, SizeHonest
  <2> QED  BY <2>1, <2>4, <2>5 DEF RotateOrAppend
<1>2. CASE WriteHealing
  <2>1. CASE file' = file /\ Refuse("unavailable")
    BY <1>2, <2>1 DEF WriteHealing, Refuse, FreshFile, SizeHonest
  <2>2. ASSUME NEW n \in Lengths, NEW s \in {0, liveBytes},
               Reopen(s), RotateOrAppend(s, n)
        PROVE  FreshFile' /\ SizeHonest'
    <3>1. s \in Nat /\ s <= liveBytes /\ liveBytes \in Nat  BY DEF FilesType
    <3>2. s = liveBytes \/ blind'  BY <2>2 DEF Reopen
    <3>3. CASE Land(s, n, "nil")
      <4>1. /\ pc' = "idle"
            /\ size' <= liveBytes'
            /\ s = liveBytes => size' = liveBytes'
            /\ liveBytes' = 0 => live' = {}
        BY <3>1, <3>3, LandSizes
      <4> QED  BY <3>2, <4>1 DEF FreshFile, SizeHonest
    <3>4. CASE StartRotation(s, n)
      BY <3>1, <3>2, <3>4 DEF StartRotation, FreshFile, SizeHonest
    <3> QED  BY <2>2, <3>3, <3>4 DEF RotateOrAppend
  <2> QED  BY <1>2, <2>1, <2>2 DEF WriteHealing
<1>3. CASE RotateFails
  <2>1. CASE file' = "none" /\ Refuse("error")
    BY <1>3, <2>1 DEF RotateFails, Refuse, FreshFile, SizeHonest
  <2>2. ASSUME NEW s \in {0, liveBytes}, Reopen(s), Land(s, len, "error")
        PROVE  FreshFile' /\ SizeHonest'
    <3>1. s \in Nat /\ s <= liveBytes /\ len \in Lengths
      BY <1>3 DEF FilesType, WriterType, RotateFails
    <3>2. s = liveBytes \/ blind'  BY <2>2 DEF Reopen
    <3>3. /\ pc' = "idle"
          /\ size' <= liveBytes'
          /\ s = liveBytes => size' = liveBytes'
          /\ liveBytes' = 0 => live' = {}
      BY <2>2, <3>1, LandSizes
    <3> QED  BY <3>2, <3>3 DEF FreshFile, SizeHonest
  <2> QED  BY <1>3, <2>1, <2>2 DEF RotateFails, RecoverLiveFile
<1>4. CASE RotatePrune
  <2>1. PICK r \in {"nil", "error"} : Land(size, len, r)
    BY <1>4 DEF RotatePrune
  <2>2. len \in Lengths /\ size \in Nat /\ file = "open" /\ pc = "pruning"
    BY <1>4 DEF RotatePrune, WriterType
  <2>3. size <= liveBytes /\ size = liveBytes
    BY <2>2 DEF SizeHonest, FreshFile, FilesType
  <2>4. /\ pc' = "idle"
        /\ size' <= liveBytes'
        /\ size' = liveBytes'
        /\ liveBytes' = 0 => live' = {}
    BY <2>1, <2>2, <2>3, LandSizes
  <2> QED  BY <2>4 DEF FreshFile, SizeHonest
<1>5. CASE RotateClose
  BY <1>5 DEF RotateClose, FreshFile, SizeHonest, WriterType
<1>6. CASE RotateRename
  BY <1>6 DEF RotateRename, FreshFile, SizeHonest
<1>7. CASE RotateOpen
  BY <1>7 DEF RotateOpen, FreshFile, SizeHonest
<1>8. CASE WriteClosed \/ Sync
  BY <1>8 DEF WriteClosed, Sync, FreshFile, SizeHonest
<1>9. CASE Close
  BY <1>9 DEF Close, FreshFile, SizeHonest
<1>10. CASE FilesystemChanges
  BY <1>10 DEF FilesystemChanges, FreshFile, SizeHonest
<1>11. CASE ClockChanges
  BY <1>11 DEF ClockChanges, FreshFile, SizeHonest
<1>12. CASE Restart
  <2>1. PICK s \in {0, liveBytes} :
            size' = s /\ (s = liveBytes \/ blind')
    BY <1>12, Zenon DEF Restart, Reopen
  <2>2. liveBytes \in Nat  BY DEF FilesType
  <2>3. UNCHANGED <<live, liveBytes>> /\ pc' = "idle"  BY <1>12 DEF Restart
  <2>4. size' <= liveBytes' /\ (size' = liveBytes' \/ blind')
    BY <2>1, <2>2, <2>3
  <2> QED  BY <2>3, <2>4 DEF FreshFile, SizeHonest
<1>13. CASE UNCHANGED vars
  <2>1. UNCHANGED <<pc, file, size, live, liveBytes, blind>>  BY <1>13 DEF vars
  <2> QED  BY <2>1 DEF FreshFile, SizeHonest
<1> QED
  BY <1>1, <1>2, <1>3, <1>4, <1>5, <1>6, <1>7, <1>8, <1>9, <1>10, <1>11,
     <1>12, <1>13
  DEF Next, WriterStep

\* A rotation starts on, and moves away, a file with content.
LEMMA NoEmptyStep ==
    ASSUME TypeOK, [Next]_vars, SizeHonest, NoEmptyBackup
    PROVE  NoEmptyBackup'
<1> USE DEF TypeOK
<1>1. CASE RotateRename
  <2>1. PICK k \in 0..Cardinality(backups) :
              backups' = (backups \ Replaced(k)) \cup {NewBackup(k)}
    BY <1>1, RenameFacts
  <2>2. pc' = "opening" /\ liveBytes > 0
    BY <1>1 DEF RotateRename, NoEmptyBackup
  <2>3. NewBackup(k).bytes = liveBytes  BY DEF NewBackup
  <2> QED  BY <2>1, <2>2, <2>3 DEF NoEmptyBackup
<1>2. ASSUME ~RotateRename
      PROVE  \A b \in backups' : b.bytes > 0
  <2>1. CASE RotatePrune
    BY <2>1 DEF RotatePrune, NoEmptyBackup
  <2>2. CASE backups' = backups
    BY <2>2 DEF NoEmptyBackup
  <2> QED  BY <1>2, <2>1, <2>2, Frames
<1>3. ASSUME NEW n, NEW s \in {0, liveBytes, size}, s <= liveBytes,
             StartRotation(s, n)
      PROVE  liveBytes' > 0
  BY <1>3 DEF StartRotation, NeedsRotation, FilesType, WriterType
<1>4. CASE Write
  <2>1. PICK n \in Lengths : RotateOrAppend(size, n)  BY <1>4 DEF Write
  <2>2. size <= liveBytes  BY <1>4 DEF Write, SizeHonest
  <2>3. pc' = "idle" \/ liveBytes' > 0
    BY <1>3, <2>1, <2>2 DEF RotateOrAppend, Land
  <2>4. backups' = backups  BY <1>4 DEF Write
  <2>5. pc' \notin {"closing", "renaming"} \/ liveBytes' > 0  BY <2>3
  <2> QED  BY <2>4, <2>5 DEF NoEmptyBackup
<1>5. CASE WriteHealing
  <2>1. CASE Refuse("unavailable")
    BY <1>5, <2>1 DEF WriteHealing, Refuse, NoEmptyBackup
  <2>2. ASSUME NEW n \in Lengths, NEW s \in {0, liveBytes}, RotateOrAppend(s, n)
        PROVE  NoEmptyBackup'
    <3>1. s <= liveBytes  BY DEF FilesType
    <3>2. pc' = "idle" \/ liveBytes' > 0
      BY <1>3, <2>2, <3>1 DEF RotateOrAppend, Land
    <3>3. backups' = backups  BY <1>5 DEF WriteHealing
    <3> QED  BY <3>2, <3>3 DEF NoEmptyBackup
  <2> QED  BY <1>5, <2>1, <2>2 DEF WriteHealing
<1>6. CASE RotateFails \/ RotatePrune
  <2>1. pc' = "idle"
    BY <1>6 DEF RotateFails, RecoverLiveFile, RotatePrune, Land, Refuse
  <2>2. ~RotateRename  BY <2>1 DEF RotateRename
  <2> QED  BY <1>2, <2>1, <2>2 DEF NoEmptyBackup
<1>7. CASE RotateClose \/ RotateOpen
  BY <1>7 DEF RotateClose, RotateOpen, NoEmptyBackup
<1>8. CASE WriteClosed \/ Sync \/ Close
  BY <1>8 DEF WriteClosed, Sync, Close, NoEmptyBackup
<1>9. CASE FilesystemChanges \/ ClockChanges \/ Restart
  BY <1>9 DEF FilesystemChanges, ClockChanges, Restart, NoEmptyBackup
<1>10. CASE UNCHANGED vars
  <2>1. UNCHANGED <<pc, liveBytes, backups>>  BY <1>10 DEF vars
  <2> QED  BY <2>1 DEF NoEmptyBackup
<1> QED
  BY <1>1, <1>4, <1>5, <1>6, <1>7, <1>8, <1>9, <1>10 DEF Next, WriterStep

\* Who may exceed the threshold.
LEMMA BoundedStep ==
    ASSUME TypeOK, [Next]_vars, FreshFile, SizeHonest, BlindExcused, LiveBounded
    PROVE  BlindExcused' /\ LiveBounded'
<1> USE DEF TypeOK
<1>1. CASE Write
  <2>1. PICK n \in Lengths : RotateOrAppend(size, n)  BY <1>1 DEF Write
  <2>2. UNCHANGED <<file, blind, excused>> /\ pc = "idle" /\ file = "open"
    BY <1>1 DEF Write
  <2>3. size <= liveBytes /\ (size = liveBytes \/ blind) /\ size \in Nat
    BY <2>2 DEF SizeHonest, WriterType
  <2>4. blind => excused  BY <2>2 DEF BlindExcused
  <2>5. BlindExcused'  BY <2>2, <2>4 DEF BlindExcused
  <2>6. CASE ~NeedsRotation(size, n) /\ Land(size, n, "nil")
    <3>1. size = liveBytes => liveBytes' <= MaxSizeBytes \/ Cardinality(live') <= 1
      BY <2>3, <2>6, LandSizes
    <3> QED  BY <2>2, <2>3, <2>4, <2>5, <3>1 DEF LiveBounded
  <2>7. CASE StartRotation(size, n)
    BY <2>2, <2>5, <2>7 DEF StartRotation, LiveBounded
  <2> QED  BY <2>1, <2>6, <2>7 DEF RotateOrAppend
<1>2. CASE WriteHealing
  <2>1. CASE Refuse("unavailable") /\ UNCHANGED <<file, size, noteVars>>
    BY <1>2, <2>1 DEF WriteHealing, Refuse, BlindExcused, LiveBounded
  <2>2. ASSUME NEW n \in Lengths, NEW s \in {0, liveBytes},
               Reopen(s), RotateOrAppend(s, n),
               excused' = (excused \/ s # liveBytes)
        PROVE  BlindExcused' /\ LiveBounded'
    <3>1. s \in Nat /\ s <= liveBytes /\ liveBytes \in Nat  BY DEF FilesType
    <3>2. s = liveBytes \/ excused'  BY <2>2
    <3>3. BlindExcused'  BY <2>2 DEF Reopen, BlindExcused
    <3>4. CASE ~NeedsRotation(s, n) /\ Land(s, n, "nil")
      <4>1. s = liveBytes => liveBytes' <= MaxSizeBytes \/ Cardinality(live') <= 1
        BY <3>1, <3>4, LandSizes
      <4> QED  BY <3>2, <3>3, <4>1 DEF LiveBounded
    <3>5. CASE StartRotation(s, n)
      BY <2>2, <3>3, <3>5 DEF StartRotation, LiveBounded
    <3> QED  BY <2>2, <3>4, <3>5 DEF RotateOrAppend
  <2> QED  BY <1>2, <2>1, <2>2 DEF WriteHealing
<1>3. CASE RotateFails
  <2>1. CASE file' = "none" /\ Refuse("error") /\ UNCHANGED <<size, calls, noteVars>>
    BY <2>1 DEF Refuse, BlindExcused, LiveBounded
  <2>2. ASSUME NEW s \in {0, liveBytes}, Reopen(s), Land(s, len, "error"),
               excused' = (excused \/ liveBytes > 0)
        PROVE  BlindExcused' /\ LiveBounded'
    <3>1. s \in Nat /\ s <= liveBytes /\ len \in Lengths /\ liveBytes \in Nat
      BY <1>3 DEF FilesType, WriterType, RotateFails
    <3>2. s # liveBytes => liveBytes > 0  BY <3>1
    <3>3. blind' => excused'  BY <2>2, <3>2 DEF Reopen
    <3>4. BlindExcused'  BY <3>3 DEF BlindExcused
    <3>5. liveBytes = 0 => Cardinality(live') <= 1
      BY <2>2, <3>1, LandSizes
    <3>6. liveBytes > 0 => excused'  BY <2>2
    <3>7. liveBytes > 0 \/ liveBytes = 0  BY <3>1
    <3> QED  BY <3>4, <3>5, <3>6, <3>7 DEF LiveBounded
  <2> QED  BY <1>3, <2>1, <2>2 DEF RotateFails, RecoverLiveFile
<1>4. CASE RotatePrune
  <2>1. PICK r \in {"nil", "error"} : Land(size, len, r)
    BY <1>4 DEF RotatePrune
  <2>2. len \in Lengths /\ size \in Nat /\ file = "open" /\ pc = "pruning"
    BY <1>4 DEF RotatePrune, WriterType
  <2>3. size <= liveBytes /\ liveBytes = 0
    BY <2>2 DEF SizeHonest, FreshFile
  <2>4. Cardinality(live') <= 1  BY <2>1, <2>2, <2>3, LandSizes
  <2>5. BlindExcused'
    BY <1>4, <2>2 DEF RotatePrune, BlindExcused
  <2> QED  BY <2>4, <2>5 DEF LiveBounded
<1>5. CASE RotateClose
  BY <1>5 DEF RotateClose, BlindExcused, LiveBounded
<1>6. CASE RotateRename
  BY <1>6 DEF RotateRename, BlindExcused, LiveBounded
<1>7. CASE RotateOpen
  BY <1>7 DEF RotateOpen, BlindExcused, LiveBounded
<1>8. CASE WriteClosed \/ Sync
  BY <1>8 DEF WriteClosed, Sync, BlindExcused, LiveBounded
<1>9. CASE Close
  BY <1>9 DEF Close, BlindExcused, LiveBounded
<1>10. CASE FilesystemChanges \/ ClockChanges
  BY <1>10 DEF FilesystemChanges, ClockChanges, BlindExcused, LiveBounded
<1>11. CASE Restart
  BY <1>11 DEF Restart, Reopen, BlindExcused, LiveBounded
<1>12. CASE UNCHANGED vars
  <2>1. UNCHANGED <<pc, file, live, liveBytes, blind, excused>>  BY <1>12 DEF vars
  <2> QED  BY <2>1 DEF BlindExcused, LiveBounded
<1> QED
  BY <1>1, <1>2, <1>3, <1>4, <1>5, <1>6, <1>7, <1>8, <1>9, <1>10, <1>11, <1>12
  DEF Next, WriterStep

LEMMA SizeInvariant == Spec => [](TypeOK /\ SizeInv)
<1>1. Init => SizeInv
  BY FS_EmptySet
  DEF Init, SizeInv, FreshFile, SizeHonest, NoEmptyBackup, BlindExcused,
      LiveBounded
<1>2. TypeOK /\ SizeInv /\ [Next]_vars => SizeInv'
  BY SizeStep, NoEmptyStep, BoundedStep DEF SizeInv
<1> QED  BY <1>1, <1>2, TypeCorrect, PTL DEF Spec

\* Whenever a Write consults the counter it is the length of the live file,
\* whatever failed and restarted before, unless the Stat of a reopen failed.
THEOREM CounterIsHonest == Spec => []SizeHonest
BY SizeInvariant, PTL DEF SizeInv

\* The live file stays within the threshold, up to the documented exceptions.
THEOREM LiveFileIsBounded == Spec => []LiveBounded
BY SizeInvariant, PTL DEF SizeInv

\* No backup is empty: rotation cannot run away.
THEOREM BackupsHaveContent == Spec => []NoEmptyBackup
BY SizeInvariant, PTL DEF SizeInv

\* Both bounds together.
THEOREM FilesStayBounded == Spec => []FilesBounded
<1>1. LiveBounded /\ NoEmptyBackup => FilesBounded
  BY DEF FilesBounded
<1> QED BY <1>1, LiveFileIsBounded, BackupsHaveContent, PTL

----------------------------------------------------------------------------
(* Where the messages are.                                                 *)

\* A filesystem that fails now has failed before.
TroubleSeen == ~healthy => troubled

\* While the clock advanced from rename to rename, the names of the backups
\* are in the order of their rotations.
InOrder ==
    orderly =>
        /\ \A b \in backups : b.name[1] <= stamp
        /\ \A b, c \in backups : b.born < c.born => b.name[1] < c.name[1]
        /\ \A b, c \in backups : b.born = c.born => b = c

\* No two backups have one name.
NamesDiffer == \A b, c \in backups : b.name = c.name => b = c

KeepInv ==
    NothingLost /\ NothingTwice /\ ReadsInOrder /\ TroubleSeen /\ InOrder /\ NamesDiffer

\* A step appends one new message to the live file, or none.
Appended ==
    \/ written' = written + 1 /\ live' = live \cup {written + 1}
    \/ UNCHANGED <<written, live>>

LEMMA Appends ==
    ASSUME [Next]_vars, ~RotateRename
    PROVE  Appended
<1>1. ASSUME NEW s, NEW n, NEW r, Land(s, n, r)
      PROVE  Appended
  BY <1>1 DEF Land, Appended
<1>2. ASSUME NEW s, NEW n, RotateOrAppend(s, n)
      PROVE  Appended
  BY <1>1, <1>2 DEF RotateOrAppend, StartRotation, Appended
<1>3. ASSUME NEW why, Refuse(why)
      PROVE  Appended
  BY <1>3 DEF Refuse, Appended
<1>4. CASE Write \/ WriteHealing
  BY <1>2, <1>3, <1>4 DEF Write, WriteHealing
<1>5. CASE RotateFails
  BY <1>1, <1>3, <1>5 DEF RotateFails, RecoverLiveFile
<1>6. CASE RotatePrune
  BY <1>1, <1>6 DEF RotatePrune
<1>7. CASE RotateClose \/ RotateOpen \/ WriteClosed \/ Sync \/ Close
  BY <1>7 DEF RotateClose, RotateOpen, WriteClosed, Sync, Close, Appended
<1>8. CASE FilesystemChanges \/ ClockChanges \/ Restart \/ UNCHANGED vars
  BY <1>8 DEF FilesystemChanges, ClockChanges, Restart, vars, Appended
<1> QED  BY <1>4, <1>5, <1>6, <1>7, <1>8 DEF Next, WriterStep

\* A new message is in no file yet.
LEMMA Fresh ==
    ASSUME TypeOK
    PROVE  /\ written + 1 \notin live \cup InBackups \cup pruned \cup clobbered
           /\ 1..(written + 1) = 1..written \cup {written + 1}
<1>1. written \in Nat /\ written + 1 \notin 1..written  BY DEF TypeOK, FilesType
<1>2. \A b \in backups : b.messages \subseteq 1..written
  BY DEF TypeOK, BackupsType, Backup
<1>3. InBackups \subseteq 1..written  BY <1>2 DEF InBackups
<1> QED  BY <1>1, <1>3 DEF TypeOK, FilesType, BackupsType

LEMMA TroubleStep == TroubleSeen /\ [Next]_vars => TroubleSeen'
<1> SUFFICES ASSUME TroubleSeen, [Next]_vars
             PROVE  TroubleSeen'
  OBVIOUS
<1>1. ASSUME UNCHANGED envVars \/ UNCHANGED <<healthy, troubled>>
      PROVE  TroubleSeen'
  BY <1>1, Zenon DEF TroubleSeen
<1>2. CASE FilesystemChanges
  BY <1>2 DEF FilesystemChanges, TroubleSeen
<1>3. CASE ClockChanges
  BY <1>1, <1>3 DEF ClockChanges
<1>4. CASE Restart \/ UNCHANGED vars
  BY <1>1, <1>4 DEF Restart, vars
<1>5. CASE Write \/ WriteHealing \/ WriteClosed \/ Sync \/ Close
  BY <1>1, <1>5 DEF Write, WriteHealing, WriteClosed, Sync, Close
<1>6. CASE RotateClose \/ RotateRename \/ RotateOpen \/ RotateFails \/ RotatePrune
  BY <1>1, <1>6
  DEF RotateClose, RotateRename, RotateOpen, RotateFails, RecoverLiveFile,
      RotatePrune
<1> QED  BY <1>2, <1>3, <1>4, <1>5, <1>6 DEF Next, WriterStep

\* The order of the backups survives each step.
LEMMA OrderStep ==
    ASSUME TypeOK, [Next]_vars, InOrder
    PROVE  InOrder'
<1>1. CASE RotateRename
  <2> SUFFICES ASSUME orderly'
               PROVE  /\ \A b \in backups' : b.name[1] <= stamp'
                      /\ \A b, c \in backups' :
                            b.born < c.born => b.name[1] < c.name[1]
                      /\ \A b, c \in backups' : b.born = c.born => b = c
    BY DEF InOrder
  <2>1. PICK k \in 0..Cardinality(backups) :
              backups' = (backups \ Replaced(k)) \cup {NewBackup(k)}
    BY <1>1, RenameFacts
  <2>2. orderly /\ stamp < clock /\ stamp' = clock
    BY <1>1 DEF RotateRename
  <2>3. NewBackup(k).name[1] = clock /\ NewBackup(k).born = rotations + 1
    BY DEF NewBackup
  <2>4. \A b \in backups : /\ b.name[1] \in Int
                           /\ b.born \in Int
                           /\ b.born <= rotations
    BY DEF TypeOK, FilesType, BackupsType, Backup
  <2>5. rotations \in Int /\ stamp \in Int /\ clock \in Int
    BY DEF TypeOK, FilesType
  <2>6. \A b \in backups : b.name[1] <= stamp /\ b.name[1] < clock
    BY <2>2, <2>4, <2>5 DEF InOrder
  <2> QED  BY <2>1, <2>2, <2>3, <2>4, <2>5, <2>6 DEF InOrder
<1>2. CASE ~RotateRename
  <2>1. UNCHANGED <<stamp, orderly>>  BY <1>2, Frames DEF TypeOK
  <2>2. CASE RotatePrune
    <3>1. backups' \subseteq backups  BY <2>2 DEF RotatePrune
    <3> QED  BY <2>1, <3>1 DEF InOrder
  <2>3. CASE backups' = backups
    BY <2>1, <2>3 DEF InOrder
  <2> QED  BY <1>2, <2>2, <2>3, Frames DEF TypeOK
<1> QED  BY <1>1, <1>2

\* Nothing is lost, nothing is in two files.
LEMMA KeepStep ==
    ASSUME TypeOK, [Next]_vars, NothingLost, NothingTwice, TroubleSeen, InOrder
    PROVE  NothingLost' /\ NothingTwice'
<1>1. CASE RotateRename
  <2>1. PICK k \in 0..Cardinality(backups) :
              /\ BackupPath(clock, k)
              /\ backups' = (backups \ Replaced(k)) \cup {NewBackup(k)}
              /\ clobbered' = clobbered
                    \cup UNION {b.messages : b \in Replaced(k)}
    BY <1>1, RenameFacts
  <2>2. NewBackup(k).messages = live  BY DEF NewBackup
  <2>3. Replaced(k) \subseteq backups  BY DEF Replaced
  <2>4. live' = {} /\ UNCHANGED <<written, pruned, healthy, troubled>>
        /\ orderly' = (orderly /\ clock > stamp)
    BY <1>1 DEF RotateRename
  <2>5. InBackups' \cup clobbered' = live \cup InBackups \cup clobbered
    BY <2>1, <2>2, <2>3 DEF InBackups
  <2>6. clobbered' # {} => troubled' /\ ~orderly'
    <3>1. CASE clobbered # {}
      BY <2>4, <3>1 DEF NothingLost
    <3>2. ASSUME NEW b \in Replaced(k)
          PROVE  troubled' /\ ~orderly'
      <4>1. b \in backups /\ b.name = <<clock, k>>  BY <3>2 DEF Replaced
      <4>2. k \in TakenAt(clock)  BY <4>1 DEF TakenAt
      <4>3. ~healthy  BY <2>1, <4>2 DEF BackupPath
      <4>4. b.name[1] = clock /\ clock \in Int /\ stamp \in Int
        BY <4>1 DEF TypeOK, FilesType
      <4>5. orderly => clock <= stamp  BY <4>1, <4>4 DEF InOrder
      <4>6. troubled  BY <4>3, Zenon DEF TroubleSeen
      <4>7. troubled'  BY <2>4, <4>6, Zenon
      <4>8. ~(clock > stamp) \/ ~orderly  BY <4>4, <4>5
      <4>9. ~orderly'  BY <2>4, <4>8, Zenon
      <4> QED  BY <4>7, <4>9
    <3>3. Replaced(k) = {} => clobbered' = clobbered  BY <2>1
    <3> QED  BY <3>1, <3>2, <3>3
  <2>7. NothingLost'
    BY <2>4, <2>5, <2>6 DEF NothingLost
  <2>8. \A b \in backups : live \cap b.messages = {}
    BY DEF NothingTwice, InBackups
  <2> QED
    BY <2>1, <2>2, <2>4, <2>7, <2>8 DEF NothingTwice, NewBackup
<1>2. CASE ~RotateRename
  <2>1. Appended  BY <1>2, Appends
  <2>2. UNCHANGED <<clobbered, orderly>>  BY <1>2, Frames DEF TypeOK
  <2>3. /\ backups' \subseteq backups
        /\ InBackups' \cup pruned' = InBackups \cup pruned
    <3>1. CASE RotatePrune
      <4>1. PICK gone \in SUBSET (BeyondCap \cup TooOld) :
          /\ backups' = backups \ gone
          /\ pruned' = pruned \cup UNION {b.messages : b \in gone}
        BY <3>1 DEF RotatePrune
      <4>2. gone \subseteq backups  BY DEF BeyondCap, TooOld
      <4> QED  BY <4>1, <4>2 DEF InBackups
    <3>2. CASE UNCHANGED <<backups, pruned>>
      BY <3>2 DEF InBackups
    <3> QED  BY <1>2, <3>1, <3>2, Frames DEF TypeOK
  <2>4. troubled => troubled'
    BY DEF Next, WriterStep, Write, WriteHealing, WriteClosed, RotateClose,
           RotateRename, RotateOpen, RotateFails, RecoverLiveFile, RotatePrune,
           Sync, Close, FilesystemChanges, ClockChanges, Restart, vars
  <2>5. 1..written' = live' \cup InBackups' \cup pruned' \cup clobbered'
    BY <2>1, <2>2, <2>3, Fresh DEF Appended, NothingLost
  <2>6. NothingLost'
    BY <2>2, <2>4, <2>5 DEF NothingLost
  <2>7. live' \cap (InBackups' \cup pruned' \cup clobbered') = {}
    BY <2>1, <2>2, <2>3, Fresh DEF Appended, NothingTwice
  <2> QED  BY <2>3, <2>6, <2>7 DEF NothingTwice
<1> QED  BY <1>1, <1>2

\* A rename makes the newest backup of all, with a name of its own, and leaves
\* no message behind; an appended message is later than all others.
LEMMA ReadStep ==
    ASSUME TypeOK, [Next]_vars, ReadsInOrder, NamesDiffer
    PROVE  ReadsInOrder' /\ NamesDiffer'
<1>0. /\ rotations \in Nat /\ written \in Nat /\ live \subseteq 1..written
      /\ \A b \in backups : /\ b.born \in Nat /\ b.born <= rotations
                           /\ b.messages \subseteq 1..written
  BY DEF TypeOK, FilesType, BackupsType, Backup
<1>1. CASE RotateRename
  <2>1. PICK k \in 0..Cardinality(backups) :
              backups' = (backups \ Replaced(k)) \cup {NewBackup(k)}
    BY <1>1, RenameFacts
  <2>2. /\ NewBackup(k).messages = live
        /\ NewBackup(k).born = rotations + 1
        /\ NewBackup(k).name = <<clock, k>>
    BY DEF NewBackup
  <2>3. live' = {}
    BY <1>1 DEF RotateRename
  <2>4. ASSUME NEW b \in backups', NEW c \in backups', b.born < c.born,
               NEW m \in b.messages, NEW n \in c.messages
        PROVE  m < n
    <3>1. \A d \in backups' : d \in backups \/ d = NewBackup(k)
      BY <2>1
    <3>2. b \in backups
      <4>1. c.born <= rotations + 1  BY <1>0, <2>2, <3>1
      <4>2. b # NewBackup(k)  BY <1>0, <2>2, <2>4, <3>1, <4>1
      <4> QED  BY <3>1, <4>2
    <3>3. CASE c \in backups  BY <2>4, <3>2, <3>3 DEF ReadsInOrder
    <3>4. CASE c = NewBackup(k)  BY <2>2, <2>4, <3>2, <3>4 DEF ReadsInOrder
    <3> QED  BY <3>1, <3>3, <3>4
  <2>5. NamesDiffer'
    BY <2>1, <2>2 DEF NamesDiffer, Replaced
  <2> QED  BY <2>3, <2>4, <2>5 DEF ReadsInOrder
<1>2. CASE ~RotateRename
  <2>1. backups' \subseteq backups
    BY <1>2, Frames DEF TypeOK, RotatePrune
  <2>2. Appended  BY <1>2, Appends
  <2>3. ASSUME NEW b \in backups', NEW m \in b.messages, NEW n \in live'
        PROVE  m < n
    <3>1. b \in backups /\ m \in 1..written  BY <1>0, <2>1
    <3>2. n \in live \/ n = written + 1  BY <2>2 DEF Appended
    <3>3. CASE n \in live  BY <3>1, <3>3 DEF ReadsInOrder
    <3>4. CASE n = written + 1  BY <1>0, <3>1, <3>4
    <3> QED  BY <3>2, <3>3, <3>4
  <2> QED  BY <2>1, <2>3 DEF ReadsInOrder, NamesDiffer
<1> QED  BY <1>1, <1>2

LEMMA KeepInvariant == Spec => [](TypeOK /\ KeepInv)
<1>1. Init => KeepInv
  BY DEF Init, KeepInv, NothingLost, NothingTwice, InBackups, ReadsInOrder,
         TroubleSeen, InOrder, NamesDiffer
<1>2. TypeOK /\ KeepInv /\ [Next]_vars => KeepInv'
  BY KeepStep, ReadStep, TroubleStep, OrderStep DEF KeepInv
<1> QED  BY <1>1, <1>2, TypeCorrect, PTL DEF Spec

\* A message that was reported as written stays in the live file or a backup
\* until prune removes it, through every failure of a rotation and every kill.
THEOREM NoMessageIsLost == Spec => []NothingLost
BY KeepInvariant, PTL DEF KeepInv

\* No message is in two files.
THEOREM NoMessageIsTwice == Spec => []NothingTwice
BY KeepInvariant, PTL DEF KeepInv

\* The backups in the order of their rotations and then the live file read like
\* one log, whatever failed, was killed or restarted in between.
THEOREM FilesReadInOrder == Spec => []ReadsInOrder
BY KeepInvariant, PTL DEF KeepInv

\* Every message that landed is in one place until prune removes it, and in its
\* place.
THEOREM EveryMessageIsOnce == Spec => []EachOnce
<1>1. NothingLost /\ NothingTwice /\ ReadsInOrder => EachOnce
  BY DEF EachOnce
<1> QED BY <1>1, NoMessageIsLost, NoMessageIsTwice, FilesReadInOrder, PTL

\* While the clock advances between rotations, prune removes the oldest
\* backups only.
THEOREM PruneIsSafe == Spec => PruneKeepsNewest
<1>1. ASSUME TypeOK, InOrder, [Next]_vars, PruneStep, orderly,
             NEW b \in backups \ backups'
      PROVE  MayBePruned(b)
  <2>1. RotatePrune
    <3>1. ~RotateRename  BY <1>1 DEF PruneStep, RotateRename
    <3> QED  BY <1>1, <3>1, Frames DEF TypeOK
  <2>2. b \in BeyondCap \cup TooOld  BY <1>1, <2>1 DEF RotatePrune
  <2>3. \A c \in backups : /\ c.name[1] \in Int /\ c.name[2] \in Int
                           /\ c.born \in Int
    BY <1>1 DEF TypeOK, BackupsType, Backup
  <2>4. \A c \in backups : Before(b, c) <=> c.born > b.born
    BY <1>1, <2>3 DEF Before, InOrder
  <2>5. {c \in backups : Before(b, c)} = {c \in backups : c.born > b.born}
    BY <2>4
  <2> QED  BY <2>2, <2>5 DEF BeyondCap, TooOld, MayBePruned
<1>2. TypeOK /\ KeepInv /\ [Next]_vars
        => [PruneStep /\ orderly => \A b \in backups \ backups' : MayBePruned(b)]_vars
  BY <1>1 DEF KeepInv
<1> QED  BY <1>2, KeepInvariant, PTL DEF Spec, PruneKeepsNewest

----------------------------------------------------------------------------
(* What prune leaves, and what a Write does about failures before it.      *)

\* A set of naturals that is not empty has a least one.
LEMMA LeastNatural ==
    ASSUME NEW T, T \subseteq Nat, T # {}
    PROVE  \E x \in T : \A y \in T : x <= y
<1>1. \E x \in T : \A y \in T : ~ (<<y, x>> \in OpToRel(<, Nat))
  BY NatLessThanWellFounded, WFMin, Zenon
<1>2. \A x, y \in T : y < x => <<y, x>> \in OpToRel(<, Nat)
  BY Zenon DEF OpToRel
<1>3. \E x \in T : \A y \in T : ~ (y < x)
  BY <1>1, <1>2, Zenon
<1> QED  BY <1>3

\* Among backups there is one whose name is before those of all others.
LEMMA FirstName ==
    ASSUME TypeOK, NamesDiffer, NEW S, S \subseteq backups, S # {}
    PROVE  \E b \in S : \A c \in S \ {b} : Before(b, c)
<1>1. \A b \in S : /\ b.name[1] \in Nat /\ b.name[2] \in Nat
                   /\ b.name = <<b.name[1], b.name[2]>>
  BY DEF TypeOK, BackupsType, Backup
<1> DEFINE Times == {b.name[1] : b \in S}
<1>2. \E t \in Times : \A u \in Times : t <= u
  <2>1. Times \subseteq Nat /\ Times # {}  BY <1>1
  <2> HIDE DEF Times
  <2> QED  BY <2>1, LeastNatural
<1>3. PICK a \in S : \A c \in S : a.name[1] <= c.name[1]
  BY <1>2
<1> DEFINE Suffixes == {b.name[2] : b \in {c \in S : c.name[1] = a.name[1]}}
<1>4. \E k \in Suffixes : \A i \in Suffixes : k <= i
  <2>1. Suffixes \subseteq Nat /\ Suffixes # {}  BY <1>1
  <2> HIDE DEF Suffixes
  <2> QED  BY <2>1, LeastNatural
<1>5. PICK b \in S : /\ b.name[1] = a.name[1]
                    /\ \A c \in S : c.name[1] = a.name[1] => b.name[2] <= c.name[2]
  BY <1>4
<1>6. ASSUME NEW c \in S \ {b} PROVE Before(b, c)
  <2>1. b.name # c.name  BY DEF NamesDiffer
  <2>2. b.name[1] # c.name[1] \/ b.name[2] # c.name[2]  BY <1>1, <2>1
  <2> QED  BY <1>1, <1>3, <1>5, <2>2 DEF Before
<1> QED  BY <1>6

\* When only backups with few others after them are left, few are left.
LEMMA FewLeft ==
    ASSUME TypeOK, NamesDiffer, NEW S, S \subseteq backups, NEW n \in Nat \ {0},
           \A b \in S : Cardinality({c \in backups : Before(b, c)}) < n
    PROVE  Cardinality(S) <= n
<1>1. IsFiniteSet(backups) /\ IsFiniteSet(S)
  BY FS_Subset DEF TypeOK, BackupsType
<1>2. CASE S = {}  BY <1>2, FS_EmptySet
<1>3. CASE S # {}
  <2>1. PICK b \in S : \A c \in S \ {b} : Before(b, c)
    BY <1>3, FirstName
  <2> DEFINE A == {c \in backups : Before(b, c)}
  <2>2. IsFiniteSet(A) /\ Cardinality(A) \in Nat /\ Cardinality(A) < n
    <3>1. A \subseteq backups  OBVIOUS
    <3> QED  BY <1>1, <3>1, FS_Subset, FS_CardinalityType
  <2>3. S \ {b} \subseteq A  BY <2>1
  <2> HIDE DEF A
  <2>4. Cardinality(S \ {b}) <= Cardinality(A)  BY <2>2, <2>3, FS_Subset
  <2>5. Cardinality(S \ {b}) = Cardinality(S) - 1  BY <1>1, FS_RemoveElement
  <2>6. Cardinality(S) \in Nat  BY <1>1, FS_CardinalityType
  <2> QED  BY <2>2, <2>4, <2>5, <2>6
<1> QED  BY <1>2, <1>3

\* A step of prune on a filesystem that works leaves no backup too many.
THEOREM PruneIsComplete == Spec => PruneCatchesUp
<1>1. ASSUME TypeOK, NamesDiffer, [Next]_vars, PruneStep, healthy, written' # written
      PROVE  /\ MaxBackups > 0 => Cardinality(backups') <= MaxBackups
             /\ MaxAge > 0 => \A b \in backups' : b.mtime >= clock - MaxAge
  <2>1. RotatePrune
    BY <1>1 DEF PruneStep, Next, WriterStep, Write, WriteHealing, WriteClosed, RotateClose,
           RotateRename, RotateOpen, RotateFails, Sync, Close, FilesystemChanges,
           ClockChanges, Restart, vars
  <2>2. backups' = backups \ (BeyondCap \cup TooOld)
    BY <1>1, <2>1 DEF RotatePrune
  <2>3. ASSUME MaxBackups > 0 PROVE Cardinality(backups') <= MaxBackups
    <3>1. ASSUME NEW b \in backups'
          PROVE  Cardinality({c \in backups : Before(b, c)}) < MaxBackups
      <4>1. b \in backups /\ b \notin BeyondCap  BY <2>2
      <4>2. ~ (Cardinality({c \in backups : Before(b, c)}) >= MaxBackups)
        BY <2>3, <4>1 DEF BeyondCap
      <4>3. {c \in backups : Before(b, c)} \subseteq backups  OBVIOUS
      <4>4. Cardinality({c \in backups : Before(b, c)}) \in Nat
        BY <1>1, <4>3, FS_Subset, FS_CardinalityType DEF TypeOK, BackupsType
      <4> QED  BY <4>2, <4>4
    <3>2. MaxBackups \in Nat \ {0}  BY <2>3
    <3>3. backups' \subseteq backups  BY <2>2
    <3> QED  BY <1>1, <3>1, <3>2, <3>3, FewLeft
  <2>4. ASSUME MaxAge > 0, NEW b \in backups' PROVE b.mtime >= clock - MaxAge
    <3>1. b \in backups /\ ~ (b.mtime < clock - MaxAge)
      BY <2>2, <2>4 DEF TooOld
    <3>2. b.mtime \in Int /\ clock \in Int
      BY <1>1, <3>1 DEF TypeOK, FilesType, BackupsType, Backup
    <3> QED  BY <3>1, <3>2
  <2> QED  BY <2>3, <2>4
<1>2. TypeOK /\ KeepInv /\ [Next]_vars
        => [PruneStep /\ healthy /\ written' # written =>
               /\ MaxBackups > 0 => Cardinality(backups') <= MaxBackups
               /\ MaxAge > 0 => \A b \in backups' : b.mtime >= clock - MaxAge]_vars
  BY <1>1 DEF KeepInv
<1> QED  BY <1>2, KeepInvariant, PTL DEF Spec, PruneCatchesUp

\* A Write on a filesystem that works lands or rotates, whatever failed before.
THEOREM WritesDoHeal == Spec => WritesHeal
<1>1. ASSUME TypeOK, SizeHonest, [Next]_vars, calls' # calls, healthy
      PROVE  /\ file' = "open"
             /\ \/ written' = written + 1 /\ outcome' = "nil"
                \/ pc' = "closing" /\ liveBytes + len' > MaxSizeBytes
  <2>1. ASSUME NEW s \in Nat, NEW n \in Lengths, RotateOrAppend(s, n), s <= liveBytes
        PROVE  \/ written' = written + 1 /\ outcome' = "nil"
               \/ pc' = "closing" /\ liveBytes + len' > MaxSizeBytes
    <3>1. CASE Land(s, n, "nil")  BY <1>1, <3>1 DEF Land
    <3>2. CASE StartRotation(s, n)
      BY <1>1, <2>1, <3>2 DEF StartRotation, NeedsRotation, TypeOK, FilesType
    <3> QED  BY <2>1, <3>1, <3>2 DEF RotateOrAppend
  <2>2. CASE Write
    <3>1. PICK n \in Lengths : RotateOrAppend(size, n)  BY <2>2 DEF Write
    <3>2. file' = "open" /\ size \in Nat /\ size <= liveBytes
      BY <1>1, <2>2 DEF Write, TypeOK, WriterType, SizeHonest
    <3> QED  BY <2>1, <3>1, <3>2
  <2>3. CASE WriteHealing
    <3>1. PICK n \in Lengths, s \in {0, liveBytes} : Reopen(s) /\ RotateOrAppend(s, n)
      BY <1>1, <2>3 DEF WriteHealing
    <3>2. file' = "open" /\ s \in Nat /\ s <= liveBytes
      BY <1>1, <3>1 DEF Reopen, TypeOK, FilesType
    <3> QED  BY <2>1, <3>1, <3>2
  <2>4. Write \/ WriteHealing
    BY <1>1 DEF Next, WriterStep, WriteClosed, RotateClose, RotateRename, RotateOpen,
           RotateFails, RecoverLiveFile, RotatePrune, Sync, Close, FilesystemChanges,
           ClockChanges, Restart, vars
  <2> QED  BY <2>2, <2>3, <2>4
<1>2. TypeOK /\ SizeInv /\ [Next]_vars
        => [calls' # calls /\ healthy =>
               /\ file' = "open"
               /\ \/ written' = written + 1 /\ outcome' = "nil"
                  \/ pc' = "closing" /\ liveBytes + len' > MaxSizeBytes]_vars
  BY <1>1 DEF SizeInv
<1> QED  BY <1>2, SizeInvariant, PTL DEF Spec, WritesHeal

\* Backups are kept and removed as configured, and failures are made good as
\* soon as the filesystem works again.
THEOREM RetentionAndRecovery == Spec => RetainsAndHeals
BY PruneIsSafe, PruneIsComplete, WritesDoHeal DEF RetainsAndHeals
=============================================================================
