---------------------------- MODULE RotatingFile ----------------------------
(***************************************************************************)
(* The size-rotating file writer of output/rotate.go, with the directory   *)
(* it writes to: a filesystem that may fail for a while, a wall clock that *)
(* may be stepped back, and a process that may be killed between any two   *)
(* filesystem calls of a rotation.                                         *)
(*                                                                         *)
(* One mutex makes Write, Sync and Close atomic towards each other; Write  *)
(* is nevertheless cut at the filesystem calls of a rotation, because a    *)
(* crash can come in between.  A message is the number of the write that   *)
(* put it in the file; a file is the set of messages it holds.             *)
(***************************************************************************)
EXTENDS Integers, FiniteSets

CONSTANTS
    MaxSizeBytes,       \* RotationConfig
    MaxBackups,         \* RotationConfig; 0 keeps all
    MaxAge,             \* RotationConfig.MaxAgeDays in clock units; 0 keeps all
    Lengths,            \* lengths of the messages
    MaxWrites,          \* bound: calls of Write
    MaxClock            \* bound: instants of the wall clock

ASSUME RotationAssumption ==
    /\ MaxSizeBytes \in Nat \ {0}
    /\ MaxBackups \in Nat
    /\ MaxAge \in Nat
    /\ Lengths \subseteq Nat \ {0}
    /\ MaxWrites \in Nat
    /\ MaxClock \in Nat

VARIABLES
    \* The writer.
    file,           \* "open", "none" after a failed recovery, "closed"
    size,
    \* The write under way: where it is, its length.
    pc, len,
    \* The directory and the clock.
    live, liveBytes, liveTime,
    backups,        \* records: name, messages, bytes, mtime, rotation number
    clock, healthy,
    \* History.
    outcome,        \* what the latest call returned
    calls,          \* calls of Write so far
    written,        \* messages written so far
    pruned,         \* messages in backups that prune removed
    clobbered,      \* messages in backups a rename replaced
    rotations,      \* renames so far
    stamp,          \* the clock at the latest rename
    orderly,        \* each rename read a later clock than the one before
    troubled,       \* the filesystem has failed before
    blind,          \* the size was not read when the file was opened
    excused         \* a write was let through without the size check

writerVars == <<file, size>>
callVars == <<pc, len>>
liveVars == <<live, liveBytes, liveTime>>
backupVars == <<backups, pruned, clobbered, rotations, stamp, orderly>>
envVars == <<clock, healthy, troubled>>
histVars == <<outcome, calls, written>>
noteVars == <<blind, excused>>

vars == <<writerVars, callVars, liveVars, backupVars, envVars, histVars,
          noteVars>>

----------------------------------------------------------------------------
(* The end of a Write.                                                     *)

\* Append the message to a live file whose counter reads s and return result,
\* the error of a failed rotation or nil.  A failing append may leave part of
\* the message.
Land(s, n, result) ==
    /\ pc' = "idle"
    /\ len' = 0
    /\ \/ /\ written' = written + 1
          /\ live' = live \cup {written + 1}
          /\ liveBytes' = liveBytes + n
          /\ size' = s + n
          /\ outcome' = result
       \/ \E k \in 0..(n - 1) :
             /\ ~healthy
             /\ liveBytes' = liveBytes + k
             /\ size' = s + k
             /\ outcome' = "error"
             /\ UNCHANGED <<written, live>>
    /\ liveTime' = IF liveBytes' = liveBytes THEN liveTime ELSE clock

Refuse(why) ==
    /\ pc' = "idle"
    /\ len' = 0
    /\ outcome' = why
    /\ UNCHANGED <<written, liveVars>>

\* Faulty variant: the counter starts afresh on a file that has content.
ReopenForgettingSize(s) ==
    /\ file' = "open"
    /\ s = 0
    /\ blind' = FALSE

\* reopenLiveFile, successful: the counter reads s.
Reopen(s) ==
    /\ file' = "open"
    /\ s = liveBytes \/ (~healthy /\ s = 0)
    /\ blind' = (s # liveBytes)

\* Faulty variant: the rotation comes one write late.
RotateLate(s, n) == s > MaxSizeBytes

NeedsRotation(s, n) == s > 0 /\ s + n > MaxSizeBytes

StartRotation(s, n) ==
    /\ NeedsRotation(s, n)
    /\ pc' = "closing"
    /\ len' = n
    /\ size' = s
    /\ UNCHANGED <<liveVars, outcome, written>>

\* The part of Write after the self-healing: rotate first, or append.
RotateOrAppend(s, n) ==
    \/ StartRotation(s, n)
    \/ ~NeedsRotation(s, n) /\ Land(s, n, "nil")

----------------------------------------------------------------------------
(* Write.                                                                  *)

CountCall ==
    /\ calls < MaxWrites
    /\ calls' = calls + 1

WriteClosed ==
    /\ pc = "idle"
    /\ file = "closed"
    /\ outcome' = "error"
    /\ UNCHANGED <<writerVars, callVars, liveVars, backupVars, envVars,
                   calls, written, noteVars>>

Write ==
    /\ pc = "idle"
    /\ file = "open"
    /\ CountCall
    /\ \E n \in Lengths : RotateOrAppend(size, n)
    /\ UNCHANGED <<file, backupVars, envVars, noteVars>>

\* With no live file the write first tries to open it again.
WriteHealing ==
    /\ pc = "idle"
    /\ file = "none"
    /\ CountCall
    /\ \/ \E n \in Lengths, s \in {0, liveBytes} :
             /\ Reopen(s)
             /\ RotateOrAppend(s, n)
             /\ excused' = (excused \/ s # liveBytes)
       \/ /\ ~healthy
          /\ Refuse("unavailable")
          /\ UNCHANGED <<file, size, noteVars>>
    /\ UNCHANGED <<backupVars, envVars>>

----------------------------------------------------------------------------
(* rotate: four filesystem calls, each of which may fail.                  *)

\* recoverLiveFile, after which the write lands in the reopened file, or is
\* refused when there is none.
RecoverLiveFile ==
    /\ \/ \E s \in {0, liveBytes} :
             /\ Reopen(s)
             /\ Land(s, len, "error")
             /\ excused' = (excused \/ liveBytes > 0)
       \/ /\ ~healthy
          /\ file' = "none"
          /\ Refuse("error")
          /\ UNCHANGED <<size, noteVars>>
    /\ UNCHANGED <<backupVars, envVars, calls>>

\* A failing close, rename or open.
RotateFails ==
    /\ pc \in {"closing", "renaming", "opening"}
    /\ ~healthy
    /\ RecoverLiveFile

RotateClose ==
    /\ pc = "closing"
    /\ pc' = "renaming"
    /\ UNCHANGED <<writerVars, len, liveVars, backupVars, envVars, histVars,
                   noteVars>>

TakenAt(t) == {b.name[2] : b \in {c \in backups : c.name[1] = t}}

\* Faulty variant: the first candidate is as good as any.
BackupPathUnchecked(t, k) == k = 0

\* backupPath: the first name for the instant t that Lstat does not find - or
\* cannot inspect.
BackupPath(t, k) ==
    /\ 0..(k - 1) \subseteq TakenAt(t)
    /\ k \notin TakenAt(t) \/ ~healthy

\* The live file under its new name, and the backup this name had before.
NewBackup(k) ==
    [name |-> <<clock, k>>, messages |-> live, bytes |-> liveBytes,
     mtime |-> liveTime, born |-> rotations + 1]

Replaced(k) == {b \in backups : b.name = <<clock, k>>}

RotateRename ==
    /\ pc = "renaming"
    /\ \E k \in 0..Cardinality(backups) :
          /\ BackupPath(clock, k)
          /\ backups' = (backups \ Replaced(k)) \cup {NewBackup(k)}
          /\ clobbered' = clobbered \cup UNION {b.messages : b \in Replaced(k)}
    /\ rotations' = rotations + 1
    /\ stamp' = clock
    /\ orderly' = (orderly /\ clock > stamp)
    /\ live' = {}
    /\ liveBytes' = 0
    /\ pc' = "opening"
    /\ excused' = FALSE
    /\ UNCHANGED <<writerVars, len, liveTime, envVars, histVars, pruned, blind>>

RotateOpen ==
    /\ pc = "opening"
    /\ pc' = "pruning"
    /\ file' = "open"
    /\ size' = 0
    /\ blind' = FALSE
    /\ UNCHANGED <<len, liveVars, backupVars, envVars, histVars,
                   excused>>

----------------------------------------------------------------------------
(* prune.                                                                  *)

\* The order of the names: by timestamp, then by suffix (fewer than ten).
Before(b, c) ==
    \/ b.name[1] < c.name[1]
    \/ b.name[1] = c.name[1] /\ b.name[2] < c.name[2]

\* Faulty variant: the newest backups go first.
BeyondCapReversed ==
    {b \in backups : /\ MaxBackups > 0
                     /\ Cardinality({c \in backups : Before(c, b)}) >= MaxBackups}

\* The backups after the first MaxBackups, newest name first.
BeyondCap ==
    {b \in backups : /\ MaxBackups > 0
                     /\ Cardinality({c \in backups : Before(b, c)}) >= MaxBackups}

TooOld ==
    {b \in backups \ BeyondCap : MaxAge > 0 /\ b.mtime < clock - MaxAge}

\* Remove what there is to remove and append.  A failing filesystem may leave
\* any of it; the failure is reported alongside, except that of the Stat of an
\* old backup, which is kept and passed over.
RotatePrune ==
    /\ pc = "pruning"
    /\ \E gone \in SUBSET (BeyondCap \cup TooOld), result \in {"nil", "error"} :
          /\ healthy => gone = BeyondCap \cup TooOld /\ result = "nil"
          /\ result = "nil" => BeyondCap \subseteq gone
          /\ backups' = backups \ gone
          /\ pruned' = pruned \cup UNION {b.messages : b \in gone}
          /\ Land(size, len, result)
    /\ UNCHANGED <<file, envVars, clobbered, rotations, stamp, orderly,
                   calls, noteVars>>

----------------------------------------------------------------------------
(* Sync (Flush) and Close.                                                 *)

Sync ==
    /\ pc = "idle"
    /\ \/ file = "none" /\ outcome' = "unavailable"
       \/ file # "none" /\ outcome' = "nil"
       \/ file = "open" /\ ~healthy /\ outcome' = "error"
    /\ UNCHANGED <<writerVars, callVars, liveVars, backupVars, envVars,
                   calls, written, noteVars>>

\* Faulty variant: Close does not take the mutex.
CloseUnlocked ==
    /\ file' = "closed"
    /\ outcome' = "nil"
    /\ UNCHANGED <<size, callVars, liveVars, backupVars, envVars,
                   calls, written, noteVars>>

Close ==
    /\ pc = "idle"
    /\ file' = "closed"
    /\ \/ outcome' = "nil"
       \/ file = "open" /\ ~healthy /\ outcome' = "error"
    /\ UNCHANGED <<size, callVars, liveVars, backupVars, envVars,
                   calls, written, noteVars>>

----------------------------------------------------------------------------
(* The environment.                                                        *)

FilesystemChanges ==
    /\ healthy' = ~healthy
    /\ troubled' = TRUE
    /\ UNCHANGED <<writerVars, callVars, liveVars, backupVars, clock, histVars,
                   noteVars>>

ClockChanges ==
    /\ clock' \in 0..MaxClock
    /\ UNCHANGED <<writerVars, callVars, liveVars, backupVars, healthy,
                   troubled, histVars, noteVars>>

\* The process is killed, at any point of a rotation, and started again: the
\* constructor takes the size of the file it finds, or 0 when the Stat fails.
Restart ==
    /\ \E s \in {0, liveBytes} :
          /\ Reopen(s)
          /\ size' = s
          /\ excused' = (excused \/ s # liveBytes)
    /\ pc' = "idle"
    /\ len' = 0
    /\ outcome' = "nil"
    /\ UNCHANGED <<liveVars, backupVars, envVars, calls, written>>

Init ==
    /\ file = "open"
    /\ size = 0
    /\ pc = "idle"
    /\ len = 0
    /\ live = {}
    /\ liveBytes = 0
    /\ liveTime = 0
    /\ backups = {}
    /\ clock \in 0..MaxClock
    /\ healthy = TRUE
    /\ outcome = "nil"
    /\ calls = 0
    /\ written = 0
    /\ pruned = {}
    /\ clobbered = {}
    /\ rotations = 0
    /\ stamp = -1
    /\ orderly = TRUE
    /\ troubled = FALSE
    /\ blind = FALSE
    /\ excused = FALSE

WriterStep ==
    \/ WriteClosed \/ Write \/ WriteHealing
    \/ RotateClose \/ RotateRename \/ RotateOpen \/ RotateFails \/ RotatePrune
    \/ Sync \/ Close

Next == WriterStep \/ FilesystemChanges \/ ClockChanges \/ Restart

Spec == Init /\ [][Next]_vars

----------------------------------------------------------------------------
(* Properties.                                                             *)

Backup == [name : (0..MaxClock) \X Nat, messages : SUBSET (1..written),
           bytes : Nat, mtime : 0..MaxClock, born : 1..rotations]

WriterType ==
    /\ file \in {"open", "none", "closed"}
    /\ size \in Nat
    /\ pc \in {"idle", "closing", "renaming", "opening", "pruning"}
    /\ len \in Nat
    /\ len \in Lengths \/ pc = "idle"
    /\ pc # "idle" => file = "open"

FilesType ==
    /\ calls \in Nat
    /\ written \in Nat
    /\ rotations \in Nat
    /\ live \subseteq 1..written
    /\ liveBytes \in Nat
    /\ liveTime \in 0..MaxClock
    /\ clock \in 0..MaxClock
    /\ stamp \in -1..MaxClock
    /\ outcome \in {"nil", "error", "unavailable"}

BackupsType ==
    /\ backups \subseteq Backup
    /\ IsFiniteSet(backups)
    /\ pruned \subseteq 1..written
    /\ clobbered \subseteq 1..written

FlagsType ==
    /\ healthy \in BOOLEAN
    /\ orderly \in BOOLEAN
    /\ troubled \in BOOLEAN
    /\ blind \in BOOLEAN
    /\ excused \in BOOLEAN

\* Every variable keeps its type; a file is open or absent, and only an open
\* writer is in the middle of a rotation.
TypeOK == WriterType /\ FilesType /\ BackupsType /\ FlagsType

InBackups == UNION {b.messages : b \in backups}

\* A message whose write was reported as landed is in the live file or in a
\* backup until prune removes that backup, through failed rotations and kills
\* at any point; a rename replaces a backup only when Lstat failed and the
\* clock did not advance between two rotations.  (rotate, recoverLiveFile,
\* backupPath)
NothingLost ==
    /\ 1..written = live \cup InBackups \cup pruned \cup clobbered
    /\ clobbered # {} => troubled /\ ~orderly

\* No message is in two files.  (Write appends once, rotate moves the file)
NothingTwice ==
    /\ live \cap (InBackups \cup pruned \cup clobbered) = {}
    /\ \A b, c \in backups : b # c => b.messages \cap c.messages = {}

\* The messages of a later rotation are later messages, and those of the live
\* file the latest: the backups in the order of their rotations, then the live
\* file, read like one log.  (rotate renames the whole file before it reopens;
\* recoverLiveFile goes on with the same file)
ReadsInOrder ==
    /\ \A b, c \in backups : b.born < c.born =>
          \A m \in b.messages, n \in c.messages : m < n
    /\ \A b \in backups : \A m \in b.messages, n \in live : m < n

\* EachOnce: every message that landed is in one place, and in its place.
EachOnce == NothingLost /\ NothingTwice /\ ReadsInOrder

\* The counter is the length of the live file whenever a Write consults it,
\* after failed rotations, reopens and restarts, unless a Stat failed; it
\* never overstates.  (Write, reopenLiveFile, RotatingFile)
SizeHonest ==
    file = "open" /\ pc # "opening" =>
        /\ size <= liveBytes
        /\ size = liveBytes \/ blind

\* The live file stays within MaxSizeBytes, or holds one write that is longer
\* by itself, unless a failed rotation or a failed Stat let a write through.
\* (the guard of Write and its two exceptions)
LiveBounded == liveBytes <= MaxSizeBytes \/ Cardinality(live) <= 1 \/ excused

\* No rotation makes an empty backup, so an oversized message does not rotate
\* forever.  (the size > 0 guard of Write)
NoEmptyBackup ==
    /\ pc \in {"closing", "renaming"} => liveBytes > 0
    /\ \A b \in backups : b.bytes > 0

\* FilesBounded: no file grows past its bound, none is rotated for nothing.
FilesBounded == LiveBounded /\ NoEmptyBackup

\* A backup that prune removes has MaxBackups younger ones or is too old.
MayBePruned(b) ==
    \/ /\ MaxBackups > 0
       /\ Cardinality({c \in backups : c.born > b.born}) >= MaxBackups
    \/ /\ MaxAge > 0
       /\ b.mtime < clock - MaxAge

PruneStep == pc = "pruning" /\ pc' = "idle"

\* As long as every rotation reads a later clock than the one before, prune
\* removes the oldest backups only.  (prune sorts by name)
PruneKeepsNewest ==
    [][PruneStep /\ orderly => \A b \in backups \ backups' : MayBePruned(b)]_vars

\* On a filesystem that works prune leaves no backup beyond MaxBackups and none
\* that is too old, however many were left by failures and kills before, and
\* whatever the clock did.  (prune looks at the whole directory)
PruneCatchesUp ==
    [][PruneStep /\ healthy /\ written' # written =>
          /\ MaxBackups > 0 => Cardinality(backups') <= MaxBackups
          /\ MaxAge > 0 => \A b \in backups' : b.mtime >= clock - MaxAge]_vars

\* A Write that begins on a filesystem that works has a live file, whatever
\* rotation and recovery failed before it, and lands at once or rotates a file
\* that is too long.  (the self-healing of Write)
WritesHeal ==
    [][calls' # calls /\ healthy =>
          /\ file' = "open"
          /\ \/ written' = written + 1 /\ outcome' = "nil"
             \/ pc' = "closing" /\ liveBytes + len' > MaxSizeBytes]_vars

\* RetainsAndHeals: backups are kept and removed as configured, and failures
\* are made good as soon as the filesystem works again.
RetainsAndHeals == PruneKeepsNewest /\ PruneCatchesUp /\ WritesHeal
=============================================================================
