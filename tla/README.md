# A TLA+ model of sypl

sypl is a logging library for Go. A logger sends a message to its outputs;
each output filters the message, lets its processors transform it, formats it,
and writes it to a writer. Around this pipeline sit parts that are hard to
test: loggers derived from loggers, an asynchronous output with a bounded
buffer, a rotating file, a fast gate in front of the pipeline, rate-limiting
processors, a recorder for tests, a bridge to `log/slog`, and an output that
writes bulks to Elasticsearch. This directory models the parts in which the
order of events, or what is shared, matters; TLC checks small instances, and
TLAPS proves safety properties for all values of the constants.

Paths in this text are relative to the repository's root.

## The system

### Components

| Component | Where | State | Operations | Modelled |
|---|---|---|---|---|
| Logger dispatch | `sypl.go`, `sugar.go` | the outputs and their order, status, default level, global fields and tags; per call: one goroutine per message, the set of writes, the exit flag | the Print family, `PrintMessage`, `PrintMessagesToOutputs`, setters | partly |
| Fast level gate | `fastgate.go` | one atomic switch | `fastGated` before a message is built, `SetFastGate` | yes |
| Lifecycle and error handler | `lifecycle.go` | the handler | `Flush`, `Close`, `SetErrorHandler` | partly |
| Output pipeline | `output/output.go`, `output/builtin.go` | name, status, maximum level, formatter, processors, writer | `Write` (names, processors, flag, level, formatter, writer), setters | yes |
| Asynchronous output | `output/async.go` | bounded buffer, sequence numbers, closed flag, drop counter, a worker, an interval flusher | `Write` under three overflow policies, `Flush`, `Close` | yes |
| Rotating file | `output/rotate.go` | open file, byte counter, the directory | `Write` (heal, rotate, append), `Sync`, `Close`, `Reopen` | yes |
| Recorder | `output/recorder.go` | recorded entries, a pending message, a mutex held across `Write` | `Write`, `Reset`, queries | yes |
| Proxy | `output/proxy.go` | none | forwards | yes |
| Rate-limiting processors | `processor/sample.go`, `ratelimit.go`, `dedup.go` | windows and counters per key | `Run`, summary callbacks | yes |
| Other processors | `processor/` | a status | change flag, tags, text | partly |
| Elasticsearch bulk output | `es/bulk.go`, `es/bulk_output.go` | the bulk indexer, closed flag | `Write`, `Flush` (drain and rebuild), `Close` | yes |
| Fields, tags, options | `fields/`, `options/`, `meta/` | maps shared by reference | copy, merge | yes |
| Message, content | `message/`, `content/` | one message | strip, restore, copy | partly |
| Debug levels | `debug/` | a bounded cache of matchers | match `SYPL_LEVEL` | yes |
| Context helpers, child loggers | `ctx.go`, `with.go`, `sypl.go` | copies of a logger | `New`, `With`, `PrintWithContext` | yes |
| slog bridge | `syplslog/` | handlers with slices of attributes and groups | derive, translate, forward | yes |
| Elasticsearch synchronous output | `es/elasticsearch.go`, `es/output.go` | none of its own | one request per message | no |
| Formatters, colours | `formatter/`, `color/` | none | text | no |
| Levels, flags, status, helpers | `level/`, `flag/`, `status/`, `shared/`, `safebuffer/` | none | enumerations | no |

### How they interact

A Print call asks the fast gate; if no output could want the message, it
returns. Otherwise `process` starts one goroutine per message and waits for
all of them. Each goroutine reads `SYPL_FILTER`, works out the names of the
outputs, merges the global fields and tags into the message, reads the list of
outputs, their status and level, each under a lock of its own, gives each
output a copy, writes to all of them concurrently, waits for those writes, and
hands their errors to the error handler. After the wait, a Fatal message makes
the caller flush the outputs, for at most ten seconds, hand the errors of the
flush to the error handler, and exit.

In the output the copy passes the processors, the decision to write, the
formatter and the writer. An output may be wrapped by the asynchronous output,
whose worker goroutine calls the inner output, or by the recorder, which holds
its mutex while the inner output runs. The inner output may write to a
rotating file, or forward to `log/slog`. All of them share the `Write`,
`Flush`, `Close` interface. Processors and handlers may call back and log.

### What is hard, and what correctness means

* **Asynchronous output.** Writers, worker, Flush and Close wait on one
  condition variable for different conditions. Correct means: an accepted
  message is written or reported as dropped, exactly once and in order; Flush
  covers everything accepted before it; Close loses nothing, ends both
  goroutines, releases the blocked writers and returns; nobody sleeps through
  the event that should wake it.
* **Rotating file.** A rotation is four filesystem calls, each of which may
  fail, or be the last thing the process does. Correct means: a message that
  has landed stays in exactly one file until prune removes it; the byte
  counter is honest; files are bounded; prune removes the oldest.
* **Dispatch.** Settings change while a message is on its way, and sinks fail
  or hang. Correct means: a message reaches exactly the outputs that want it,
  wherever nobody touched their settings, and whether the gate was asked or not;
  each error, of a write or of the flush before an exit, is reported; the process
  exits exactly after a Fatal.
* **Families of loggers.** Maps are shared by reference, and `append` may
  write into an array that somebody else reads. Correct means: what is done to
  one logger does not show in another; a message on its way sees its logger
  as it was at some moment of the call; the copy of one output is not changed
  by another.
* **Output pipeline.** Each setting is read under a lock of its own, and
  processors may log. Correct means: each processor that nobody touched has
  run once, in its place; errors go to stderr and only there; the line breaks
  of a message survive; every write returns.
* **Recorder.** Writers share a pending message. Correct means: each line is
  recorded with the message it was made of.
* **Rate-limiting processors.** The clock is read before the lock is taken, so
  readings arrive out of order; all keys are evicted when the map is full;
  callbacks may log through the same instance. Correct means: nothing is muted
  without cause, what passes is bounded by what the windows allow, each muted
  message is reported once or lost in an eviction, and nobody is blocked.
* **Elasticsearch bulk.** Flush drains the indexer and replaces it; either may
  fail, and the output may be left without one. Correct means: nothing is
  added to an indexer that was told to close, nothing is lost unless some call
  says so, all calls of Close agree, and every call comes back although the
  mutex is held while the indexer makes it wait.
* **slog bridge.** Sibling handlers start from the same slices, and a record
  is printed by several outputs at once. Correct means: a handler stays what
  its derivation says; a record arrives once, with its fields and its level.

`PROJECT.json` lists the hazards line by line, each with the properties aimed
at it, or the reason why there is none.

## The modules

| Module | What it is |
|---|---|
| `LossyFifo` | abstract: what an asynchronous output promises |
| `AsyncOutput` | `output/async.go` |
| `AsyncOutputProofs` | its invariants proved, that nobody waits in a circle, and that it implements `LossyFifo` |
| `RotatingFile` | `output/rotate.go`, with its directory, clock and crashes |
| `RotatingFileProofs` | its invariants, what prune keeps and removes, and how a write recovers, proved |
| `Dispatch` | `sypl.go`, `fastgate.go`: who gets a message, and when the process ends |
| `DispatchProofs` | its invariants proved, and that only a writer that hangs holds up a call |
| `LoggerValues` | abstract: loggers as values that share nothing |
| `Slices` | slices of Go over a memory of arrays |
| `Loggers` | `sypl.go`, `with.go`, `fields/`, `debug/`: what a message carries |
| `LoggersProofs` | its invariants proved, and that it implements `LoggerValues` |
| `Pipeline` | `output/output.go`, `output/recorder.go`, processors: one output at work |
| `PipelineProofs` | its types, the order of processors, the routing of errors, lines and records, and what it takes to wait for ever or to panic, proved |
| `Windowed` | `processor/sample.go`, `ratelimit.go`, `dedup.go` |
| `WindowedProofs` | its types, the window of Dedup, the accounting of reports, the measure of every decision, and that nobody is blocked, proved |
| `EsBulk` | `es/bulk.go`, with the bulk indexer it relies on |
| `EsBulkProofs` | its types, the use of indexers, the outcome of Close and that no loss is silent, proved |
| `Bridge` | `syplslog/handler.go` and `syplslog/output.go`, back to back |
| `BridgeProofs` | its types, what handlers and records mean, and that messages arrive once and true, proved |
| `MC...` | instances for TLC, one for each module above that has behaviour of its own |

`Dispatch`, `Loggers` and `Pipeline` follow the same message through the same
code, and share it out between them: `Dispatch` has the gate, the status and
level of outputs, errors and the exit; `Loggers` has fields, tags, names and
copies; `Pipeline` begins with the copy that an output gets. Each takes what
the others are about as one step, or as an input.

No module declares a RECURSIVE operator. Definitions whose comment begins
"Faulty variant" are plausible errors of the code. Nothing uses them in the
specification; each is there to show that some property notices the error.

### `AsyncOutput`

One mutex guards every field, so a critical section is one action. The calls of
the inner output and of the error handler happen outside of it and are actions
of their own.

| Code | Model |
|---|---|
| `queue`, `enqueuedSeq`, `headSeq`, `inFlightSeq`, `closed`, `dropped` | variables of the same names; a message is its rank among the accepted ones |
| `cond.Wait`, `cond.Broadcast` | `waiting`, the set of parked goroutines; a Broadcast empties it, and the goroutine re-checks its condition |
| `Write` | `WriteRefused`, `WriteEnqueue`, `WriteDropNewest`, `WriteDropOldest`, `WriteBlock`, `WriteBlockAgain`, `WriteResumeRefused`, `WriteResumeEnqueue`; `NotifyDrop` is the call of the handler after the unlock |
| `worker`, `writeInner` | `WorkerWait`, `WorkerTake`, `WorkerWrite`, `WorkerResolve`, `WorkerNotify`, `WorkerExit` |
| `Flush`, `flushInner` | `FlushCall`, `FlushWaitAgain`, `FlushResume`, `FlushInner` |
| `flusher` | `FlusherTick`, `FlusherFlush`, `FlusherExit` |
| `Close` with `closeOnce` | `CloseBegin`, `CloseStopFlusher`, `CloseJoinFlusher`, `CloseJoinWorker`, `CloseFlushInner`, `CloseInner`; a later call is `CloseRepeat`, `CloseRepeatReturn` |

The sequence numbers are kept apart from the history that counts the accepted
messages. That they agree is a property, `SeqAccounting`, and not an
assumption. A panic of the inner `Write` or `Flush` becomes an error in the code,
and is one here; a panic of the inner `Close` is not caught, and leaves the
`Once` done without an error, which `CloseInner` models.

`LossyFifo` is the abstract specification: a bounded pipe that may lose the
oldest message that is not on its way to the sink, takes nothing after it was shut, and hands
over all the rest in order. The refinement mapping takes the accepted messages
for those taken, the message in the worker's hand followed by the buffer for
those pending, and `closed` for shut. The room of the pipe is one more than the
capacity of the buffer, because of the message in the worker's hand.

### `RotatingFile`

One mutex makes `Write`, `Sync` and `Close` atomic towards each other. `Write`
is still cut at the filesystem calls of a rotation (`RotateClose`,
`RotateRename`, `RotateOpen`, `RotatePrune`), because the process can be
killed between them (`Restart`). A failing call of the first three leads to
`RecoverLiveFile`. The rename, the choice of the name before it, and the pruning
are the definitions `RotateRename`, `BackupPath`, `BeyondCap` and `TooOld`.

The environment is explicit. `FilesystemChanges` makes calls fail, or work
again; `ClockChanges` sets the clock to any instant, backwards included. Time
is counted in the units in which two backup names differ. A message is the
number of its write; a file is the set of its messages, with its length in
bytes. A failing append may leave a part of the message: bytes without a
message.

### `Dispatch`

One logger, its outputs in registration order, callers, and a goroutine for
each message of a call.

| Code | Model |
|---|---|
| `Print`, `PrintWithOptions`, ... | `PrintOne`: plain messages ask the gate |
| `PrintMessage`, `PrintMessagesToOutputs` | `PrintMessages`: never gated |
| `fastGated` | `GateDefers`, `GateStart`, `GateScan` (one output per step), `GateDecides` |
| the goroutine of `process` | `ProcessSkips`, `ProcessNames` |
| `processOutputs` | `GatherStart`, `Gather` (one output per step), `FanOut` |
| `writeToOutput`, `Output.Write` | `OutputDecides`, `SinkReturns`, `ReportError` |
| the end of `process`, `flushBeforeExit` | `RoutineEnds`, `CallReturns`, `FlushStart`, `FlushNext` (one output per step, which may fail), `FlushReports`, `FlushedExit`, `TimedOutExit` |
| the setters | `SetStatus`, `SetMaxLevel`, `AddOutput`, `SetFastGate`, `SetErrorHandler` |
| writers | `SinkChanges`: a writer works, fails, is gone (closed, or a broken pipe), or hangs |

Each read of a setting is a step, because the code takes and releases a lock
for each. The level, the flag and the names of a message are kept; its fields
and tags are in `Loggers`, its text and the processors in `Pipeline`. Nothing
happens after `os.Exit`.

`env` is what `SYPL_FILTER` and `SYPL_LEVEL` are, as this logger sees them: unset,
matching or excluding it, and the level that `SYPL_LEVEL` has for each output, if
it matches. Both make the gate defer (`EnvironmentSet`), the filter ends
`process` early (`Suppressed`), and the level takes the place of the output's
maximum (`FinalMaxLevel`). Any values may be met, and none changes during a
behaviour; `Pipeline` is where `SYPL_LEVEL` changes on the way.

### `Loggers`

| Code | Model |
|---|---|
| maps of fields | `heap`: contents by location; a logger, a message or a copy holds a location, or nil |
| slices of tags and outputs | `arrays` and windows on them (`Slices`): `append` writes in place when there is room |
| `New`, `With` | `New`, `With`; `CloneSlices` is what both copy |
| `SetFields`, `SetTags`, `AddOutputs`, `SetOutputs`, `SetContextExtractor` | actions of the same names |
| the options of a call, `Logw`, `PrintWithContext` | `PrintWithOptions`; `KvToFields` is the loop over alternating keys and values |
| `PrintMessagesToOutputsWithOptions`, `PrintMessage` with a used message | `PrintToOutput`, `PrintAgain` |
| `process` | `ReadNames`, `CheckFields`, `MergeFields`, `MergeTags` |
| `processOutputs` | `ReadOutputs`, `Skip`, `CopyMessage`, `Gathered` |
| `debug.New` and its cache | `LoadMatchers`, `CheckSize`, `StoreMatchers`, `CountMatchers` |
| a processor that adds a field to its copy | `Decorate` |

`setup`, chosen at the start, says which operations a behaviour may use; it
bounds the exploration and nothing reads it but the guards. `asked` and `seen`
are history: what the caller meant, and every state of its logger since the
call began. "At one moment of the call" in the properties is a member of `seen`.

The application may write to a map that it gave away (`AppWrites`) only while no
call can read it, and `WithField` may write into the map that
`WithFields` was given only while no other call uses it (`InUse`): otherwise
the program has a data race of its own.

`LoggerValues` is the abstract specification. There, a logger *has* its tags,
outputs and fields, deriving copies them, and the only thing shared is a map
that the application handed to `SetFields`. The refinement mapping reads the
contents through the slices and locations.

### `Pipeline`

| Code | Model |
|---|---|
| a message copied by `processOutputs`, or `Output.Write` called directly | `Log`, `WriteDirectly` |
| the first look at `SYPL_LEVEL`, and the matchers it gives the copy | `LookForDebug`, `NewDebug` |
| `RecorderOutput.Write` around the inner one | `Enter`, `Leave`: `writeMu` and `pending` |
| default names, `Strip` | `ReadNames` |
| `processProcessors` | `ReadProcessors`, `RunProcessor`; `Apply` and `Rewrite` are what processors do |
| a processor that logs through the same output | `CallBack`, `CalledBack`: the second frame of a goroutine |
| the decision to write, with its second look at `SYPL_LEVEL` | `ReadMaxLevel`, `Decide` |
| `write`: formatter, `Restore`, writer, and the recorder's writer | `CheckFormatter`, `Format`, `Emit` |
| setters, the status of a processor, `os.Setenv`, `Reset` | `SetMaxLevel`, `SetFormatter`, `AddProcessors`, `SetProcessors`, `SetStatus`, `Setenv`, `Reset` |

A text is a sequence of the parts that are told apart: line breaks, the
body, what processors and the formatter put around it. A processor is a record
of what it does (`Processor`), named as its constructor in `processor/`. A
panic ends the process, since the goroutines of `process` do not recover.
The status of a processor is read when its turn comes, and `stable` keeps those
processors that nobody has touched since a message arrived. The code does not
check that the processors of an output have different names, and addresses
them by name; the model assumes it (`Distinct`).

### `Windowed`

One instance of one of the three processors, chosen by `kind`. A run is one
execution of it, for one message, in the goroutine of that message or inside
the callback of another run.

| Code | Model |
|---|---|
| the key and `now`, before the lock | `Run` (`Begin`) |
| `mu` | `lock`; `Lock` takes it, `Unlock` is part of each decision |
| `sampler.run`, `rateLimiter.run` | `Sample`, `RateLimit` |
| the three cases of `deduper.run` | `DedupNew`, `DedupAgain`, `DedupSuppress` |
| `entries` with its bound | `known`, `start`, `count`, `Remember` (evicts all) |
| the callback | `CallbackQuiet`, or `CallbackLogs` and `CallbackReturns` around the run inside |

A clock that does not go backwards ticks at any moment, as Go's monotonic
readings do. `verdict`, `order`, `at`, `epoch` and `reporter` are history: what
was decided about a message, in which order, when, after how many evictions,
and which report counts it.

### `EsBulk`

| Code | Model |
|---|---|
| `mu`, held across `Add` and a drain | `mu`, with its holder |
| `indexer`, swapped by Flush | the number of an indexer; 0 is nil |
| `Write` | `WriteCall` (the document may be refused before the lock), `WriteRefused`, `WriteLock`, `WriteAdd`, `WriteAddFails` |
| `Flush` | `FlushCall`, `FlushSkip`, `FlushBegins`, `FlushDrains`, `FlushRebuilds`, `FlushRebuildFails` |
| `Close` | `CloseCall`, `CloseAgain`, `CloseNothing`, `CloseBegins`, `CloseDrains`, `CloseEnds` |
| esutil's indexer (external) | a bounded `queue`, one worker with a `hand`, a `phase`; an item is sent or fails |

The indexer is a library outside of this repository. It is modelled from what
`es/bulk.go` says and relies on: `Add` waits for room; `Close` drains, bounded
by the timeout of its context, and returns an error if the time is up; `Add`
after `Close` panics. A drain may run out of time at any moment, an item that
a worker still holds may be sent later. What the library does beyond that,
whether its `Close` keeps to the bound in particular, is not established here.
The configuration has an `OnError` callback: without one, the failure of a single
item is told to nobody (`es/bulk.go:288-290`).

### `Bridge`

A logger whose outputs all forward to slog, and handlers that print through it.

| Code | Model |
|---|---|
| `WithAttrs`, `WithGroup` | `WithAttrs`, `AppendAttr` (one step of `appendAttr`), `Returned`; `WithGroup` |
| `clone`, and the slices below it | `Clone`, with the arrays of `Slices` |
| `Handler.Enabled`, and the floor of `HandlerWithLevel` | `Log`, `LookAtStatus`, `LookAtLevel` (one output, one lock per step) |
| `Handle` | `Handle`, `AppendAttr`, `PrintMessage` |
| `syplLevel`, `slogLevel` | `ToSyplLevel`, `ToSlogLevel` |
| the write of an output: processors, decision | `Write` |
| the forwarding formatter, `slogWriter.Write` | `Forward`, `Emit` |

Attributes may be groups, named or inline, empty, or zero. A key is the
sequence of what is between its dots, so that a dotted key and a group are the
same thing, as in the code; `Parts` are the strings there may be between dots.
Attributes are finite: none is a member of itself, however deep, since a caller
of `slog.GroupValue` must not change the list it gave. `Flatten` is the
reference: what an attribute says, by recursion over its groups, against the
code's loop with its arrays. `Meaning` is the reference for a whole list of
derivations: what each of them adds (`Added`), in the groups opened before it
(`Opened`).
`meant` and `made` are history: what a handler was when it was returned, and
the derivations that led to it; `sunk` is what the slog side was asked to
handle. `SYPL_LEVEL` and `SYPL_FILTER` are unset, and a message is dispatched in one
step (`Dispatch` and `Pipeline` have both). Of the slog side nothing is known but its level, and that it may
refuse a record with an error.

## What TLC checks

| Run | Question | Bounds |
|---|---|---|
| `async_safety` | are the bookkeeping, the fates, the guarantees of Flush and Close, the notices and the wake-ups right, and does nobody wait in a circle? | 2 writers, 1 Flush goroutine, 2 Close goroutines, capacity 2, 4 messages |
| `async_liveness` | do Flush, Close and blocked writers come back, and is the promise of `LossyFifo` kept? | 2 writers, 1 Flush and 1 Close goroutine, capacity 1, 2 messages |
| `rotate_safety` | does every message stay in one file, in its order, is the counter honest, are files bounded, the oldest and no others pruned, and does a write recover? | files of 2 bytes, messages of 1 and 3, 3 writes, 1 backup, 3 instants |
| `dispatch` | is every message served as configured, does nothing outlive a call, are errors reported, is every exit justified, does every call end? | 1 caller, up to 2 messages per call, 2 outputs, 3 environments, 1 change |
| `fatal_despite_hung_sink` | does a Fatal exit although a sink hangs? (no) | 1 caller, 1 output |
| `pipeline` | do processors run in order, are lines and records true, is every message routed once, does every write return, and what does it take to panic? | 1 writer, 2 at a shared recorder, one message each, 1 change |
| `pipeline_reconfigured` | can an output be reconfigured while logging? (no) | 1 writer, 1 change |
| `loggers` | does a message have the outputs, tags and fields it should, is the cache bounded, are loggers isolated? | 2 loggers, 2 callers, 2 keys, 2 tags, up to 4 outputs, cache of 1; per setup up to 4 changes and 3 prints |
| `globals_lost` | does a message with nil fields keep the global ones? (no) | 1 print, no change |
| `windowed` | is each muting justified, what passes bounded, each muting reported, and nobody blocked? | 4 runs, 2 keys, map of 1 key, window of 2 instants, 4 instants, first 1, thereafter 2 |
| `es_bulk` | is no closed indexer used and no item lost in silence, is nobody locked out, do all calls come back and agree? | 2 goroutines, 2 writes, 2 flushes, any number of Close, room for 1 item |
| `bridge` | do handlers stay what they are, and do records arrive once and true? | 2 goroutines, 2 outputs, up to 3 derived handlers, 1 change |

Some properties are conjunctions of parts with names of their own, which say
what a violation is about:

| Property | Parts |
|---|---|
| `Accounted` (AsyncOutput) | `SeqAccounting`: sequence numbers and buffer agree; `OneFateEach`: a message is written or dropped, once |
| `FlushHolds` | `FlushGuarantee`: all that Flush covers is resolved when it calls the inner Flush; `FlushIsDurable`: it has been flushed when nil is returned; `NoOpIsCovered`: or, if Flush left that to Close, Close has flushed it, is still to do so, or has failed |
| `CloseHolds` (AsyncOutput) | `CloseGuarantee`: nothing is left, both goroutines are gone; `CloseOutcome`: all calls return what the first one did, and nil means that the final flush covered everything |
| `WaitsEnd` | `NoLostWakeup`: who is parked has reason to be; `NoCircularWait`: who waits, waits for somebody that can go on |
| `CallsReturn` | `FlushReturns`, `CloseReturns`, `CloseReleasesWriters` |
| `EachOnce` (RotatingFile) | `NothingLost`, `NothingTwice`, `ReadsInOrder`: the backups and then the live file read like one log |
| `RetainsAndHeals` | `PruneKeepsNewest`, `PruneCatchesUp`: what prune removes, and that it removes it all; `WritesHeal`: a write brings back the live file |
| `ServedFaithfully` (Dispatch) | `HandedExactly`, with the gate and the environment variables; `NothingOutlives`: no goroutine outlives its call; `OnlyWritersHoldUp`: a call waits for nothing but writers that hang |
| `ErrorsReported` (Dispatch) | `WriteErrorsReported`: of a call that is over, the errors of failed writes and no others; `FlushErrorsReported`: before an exit, those of every flush that failed, or none when the time is up, and each output that was there has been flushed |
| `RecorderWorks` (Pipeline) | `RecordsTrue`; `NobodyInACircle`: who waits for the mutex, or for what a processor logs, waits for somebody that can go on |
| `WritesReturn` | `PanicsOnlyWithoutMatchers`: while nobody reconfigures, only a direct write under `SYPL_LEVEL` panics; every write returns |
| `FilesBounded` | `LiveBounded`, `NoEmptyBackup` |
| `Measured` (Windowed) | `MutedForCause`, `PassesBounded`, `NoLongSilence` |
| `NothingLostSilently` (EsBulk) | `LossesTold`: an item is left behind only by a drain whose error is returned; `NilCovers`: a Flush or Close that returns nil leaves nothing behind that was accepted before, but for such a drain |
| `CloseHolds` (EsBulk) | `NeverAddToClosed`, `CloseAgrees`, `NobodyLockedOut`: who waits for the mutex waits for a call or a worker that can go on |
| `Delivered` (Loggers) | `Routed` (outputs, tags), fields |
| `HandlersHold` (Bridge) | `Apart`: handlers never change; they mean what their derivation says; so does a record |

Why these bounds are enough to see the interesting cases. In `async_safety`
the buffer holds two messages and a third is in flight; with four messages
drop-oldest removes a message while another is in flight and a later one is
buffered, two writers are blocked at once, a woken writer finds the buffer
full again, and calls of Close overlap. Every policy, with and without the
interval flusher, is an initial state. `async_liveness` needs the refinement to
be checked together with fairness; with room for one message and two of them,
a writer blocks and Close releases it. In `rotate_safety` a message of three
bytes is longer than a whole file, one of one byte is not, and three writes
make up to two rotations, of which with one backup the second prunes; the clock
may stand, go on, or be stepped back, so that names are taken, or sort against
their age; a process may start again on a filesystem that fails, and not learn
the size of its file. In `dispatch` outputs differ in level and status, the second may be
added during the call, messages are plain, forced, muted, named, or Fatal, and
one change falls between any two reads of a setting, or between the gate and
the gathering. `SYPL_LEVEL` is unset, or holds one output down and raises
another that by itself wants Fatal only, so that a gate which did not defer would drop
what it wants; or the filter excludes the logger. (A filter that lets it
through makes the gate defer, as switching the gate off does.) Any flush before an exit may fail, or hang. One caller is enough for safety as calls share only the settings,
which change at any moment anyway.

In `loggers` each setup is built around a hazard: children and parents that
change side by side, with spare slots in their arrays; a logger reconfigured
while its message is on the way; two messages that share a map; a message
printed again through another logger, and changed by its outputs; malformed
lists of keys and values; more component names than the cache has room for. In
`pipeline` the setups are the pair of outputs that `NewDefault` builds, behind
processors that force, tag and rewrite, an output whose processor logs, a
recorder whose processor logs, and a recorder that two goroutines share, with
`SYPL_LEVEL` unset, matching, or not matching this output.

In `windowed` four messages suffice to pass, be muted, roll the window over
with a report, and log from the callback; one key in the map makes the second
key evict it, and with four instants a reading of the clock can be a whole
window old when its goroutine gets the lock. In `es_bulk` one item in the queue
and one in the worker's hand make `Add` wait with the mutex held, a first
Flush can fail to drain, or to rebuild, and a second one repair it, before or
while the other goroutine closes. In `bridge` two goroutines derive siblings of
one handler from an array with a spare slot, or one logs while the other
derives; groups are opened before and after attributes; every pair of
attributes goes through one record; every level, flag and processor mark meets
every level of the slog side.

Deadlock checking is off where the model stops by itself: after the process
has exited (`dispatch`, `fatal_despite_hung_sink`), and where each goroutine
prints a bounded number of messages (`windowed`, `pipeline*`, `loggers`,
`globals_lost`, `bridge`). In `windowed`, `NobodyBlocked` says that the model
stops only when all runs have ended; in `pipeline`, `RecorderWorks` says the
same of writes, and in `dispatch` `ServedFaithfully` of calls. These, and
`WaitsEnd` and `CloseHolds` of the bulk output, are state predicates: `CanGo`
and its like spell out the guards of the steps that are under way (which TLC
has compared with ENABLED), so that they can be proved. The other passing runs check for deadlock: after `Close`,
another `Write` is refused, another `Flush` is a no-op and another `Close`
returns, so there is always a step. Two runs use symmetry: the writers and the
callers of Close in `async_safety`, the runs and the keys in `windowed`;
neither checks liveness.

### Fairness

The calls are never forced: the environment may stop logging at any time.

* `AsyncOutput`: what is under way goes on. Goroutines are scheduled, a Go
  mutex does not starve a goroutine, and the inner output and the handler
  return (weak fairness). The `select` of the interval flusher chooses at
  random among the ready cases, so it does not pass over a closed stop channel
  for ever (strong fairness of `FlusherExit`).
* `Dispatch`: each goroutine is scheduled, and the timer of the bounded flush
  fires. A write returns unless its sink hangs; in `dispatch` none does,
  because the code puts no bound on a write, and this is exactly what
  `fatal_despite_hung_sink` shows. A flush may hang in both runs. The error
  handler returns.
* `Pipeline`: each goroutine is scheduled (weak fairness of `FrameStep`). This
  suffices for the recorder's mutex, since each goroutine logs one message, so
  that the mutex is not taken for ever by others.
* `EsBulk`: who waits for the mutex gets it (strong fairness of `Enters`; Go's
  mutex hands over to a waiter after a millisecond), the holder goes on, a
  drain ends at the latest when its time is up, and the workers go on (weak
  fairness). It is not assumed that an `Add` that waits ever fails: the queue
  must get room. The callbacks are assumed to return; one that logs through
  its own output is a hazard that is listed, and not covered.

### Where the code departs from its comments

1. `fatal_despite_hung_sink`: the wait for the writes is not bounded, only the
   flush is (`sypl.go:782-785`).
2. `pipeline_reconfigured`: `write` reads the formatter to see whether there is
   one (`output/output.go:330`) and reads it again to run it (334), so that a
   `SetFormatter(nil)` between the two is a nil dereference, in a goroutine
   where nobody recovers.
3. `globals_lost`: `fields.Copy` returns nil for a nil source, not the
   destination (`fields/fields.go:13`), so a message with nil fields loses the
   global ones.

Noticed while reading, and not shown by a run:

* Asynchronous output: `Close` sets the closed flag before it drains and flushes,
  and `Flush` takes the flag for a `Close` that is over. A `Flush` that is called,
  or still waits, while `Close` is under way waits for its messages to be written or dropped,
  but then returns nil although nobody may have flushed the inner output yet
  (`output/async.go:246`; 224-225 says "Close already drained, and flushed everything").
  `NoOpIsCovered` says what does hold.
* Rotating file: `prune` sorts by name, so after the clock was stepped back a
  newer backup may go first (`output/rotate.go:301` and 69-70);
  `PruneKeepsNewest` holds, and is proved: as long as each rotation reads a
  later clock, the oldest go. `Sync` does not try to reopen the file, only
  `Write` does (`output/rotate.go:164` and 41-43).
* Dispatch: a Fatal message of a logger that `SYPL_FILTER` leaves out returns
  to its caller (`sypl.go:728` and 355). The status of the logger itself is
  never looked at.
* Options: the names in the options of `PrintMessagesToOutputsWithOptions` take
  the place of the output each message names. A message printed through a second
  logger keeps the names, fields and tags of the first. `WithField` writes into
  the map that `WithFields` was given.
* Child loggers: `New` promises an accurate copy (`sypl.go:674`), and hands on
  neither the error handler, nor the gate, nor the context extractor.
* Output: `Write` called by the application while `SYPL_LEVEL` is set
  dereferences the nil matchers of a message that never passed a logger
  (`output/output.go:260-263`; `Decide`); `PanicsOnlyWithoutMatchers` says that
  without a reconfiguration nothing else panics. A message written twice directly gets
  its line breaks twice. `SetWriter` does not redirect the built-in logger.
  A message that skips the processors, an Error on `NewDefault`, appears on both outputs.
  Names go unescaped into regular expressions (`debug/debug.go:190-199`).
  `AddProcessors` does not refuse a name that is taken.
* Recorder: a processor that logs to the recorder it runs in waits for itself
  (`Stuck`, the exception in `RecorderWorks` and `WritesReturn`), although `processor/dedup.go:53-54`
  says that the callback may log even through the same pipeline. A write to the
  recorder's own writer during a `Write` is recorded with the pending message.
* Bridge: `Enabled` looks neither at processors that force nor at `SYPL_LEVEL`,
  as documented. The key `a.b` and the key `b` in the group `a` are one key, and
  the last one wins. Raw messages of a slog logger that leads back to the same
  output wait for the built-in logger's mutex.

## What is proved

For all values of the constants that meet the named assumptions, and without
any bound on the number of goroutines, messages or outputs. The bounds of the
exploration (`MaxWrites`, `MaxClock`, `MaxChanges`) are constants as well: the theorems hold
for each of them.

### `AsyncOutputProofs`

Assumed: the capacity is positive, a Flush goroutine is no writer, and the
worker is neither (`CapacityAssumption`, `ThreadsAssumption`,
`MaxWritesAssumption`).

`TypeCorrect`, `AccountsAreTrue`, `FlushHoldsAlways`, `NobodyOversleeps`,
`NobodyWaitsInACircle`, `CloseHoldsAlways`, `EveryDropIsReportedOnce`, and `ImplementsLossyFifo`: the
safety half of the refinement.

The argument rests on `SeqAccounting`: the buffer holds the most recent accepted messages, without
a gap. `OneFateEach` needs it to know that a message appended is new.
`FlushGuarantee` needs both: the number that Flush waits for is at most the
oldest unresolved one, so whatever is numbered below has met its fate.
`CloseGuarantee` is not inductive as it stands. It is strengthened with the
order in which the fields of Close change: the `Once` is running exactly while
one caller is between its first and its last step, the worker exits
only when closed and empty, and past each join the goroutine in question is gone. `CloseOutcome` and `NoOpIsCovered` need
what the call that runs the `Once` knows before it is done: that the final
flush covered everything written (`OutcomeParts`). `NoLostWakeup` needs the agreement
between each wait's condition and the state in which it was entered.

`NoCircularWait` is the safety half of `CallsReturn`: whenever somebody waits,
the one waited for can take a step. It follows from `NoLostWakeup`, since a
parked writer or Flush means that there is something for the worker to do, from
`CloseInv`, by which the worker is there until all is closed and empty, and
from `LifeParts`: the interval flusher has been told to stop before Close joins
it, and as long as the `Once` is running some call of Close is in its body.

### `RotatingFileProofs`

Assumed: `RotationAssumption`, the ranges of the configuration.

`TypeCorrect`, `CounterIsHonest`, `FilesStayBounded`, `EveryMessageIsOnce` with
`FilesReadInOrder`, and the action properties `PruneIsSafe`, `PruneIsComplete`
and `WritesDoHeal`, together `RetentionAndRecovery`.

There are two inductive invariants. One is about the sizes: the counter never
overstates the length of the file and equals it unless a Stat failed; only an open and non-empty file is
being rotated. The other is about the place of messages: backups have
different names, and different rotation numbers; as long as the clock went forward at each rotation, the
order of names is the order of rotation numbers, so the backups sorted before
a given one are the younger ones. `ReadsInOrder` is inductive with the second
one, whatever the clock does, since a rotation takes the whole live file.
`PruneIsComplete` counts: of the backups that prune leaves, the one whose name
is first (`FirstName`) has all others after it, and these are fewer than the
cap (`FewLeft`). `WritesDoHeal` needs the first invariant: a counter that never
overstates starts no rotation of a file that is short enough.

### `DispatchProofs`

Assumed: `DispatchAssumption`, the ranges of the constants.

`TypeCorrect`, `EveryCallIsServed`, `ErrorsReachTheHandler`, `NoFalseExit`.
`EveryCallIsServed` has three parts: what a call has handed over when it ends,
that nothing of it is left by then (`NothingOutlives`), and that until then it,
or one of its goroutines, can take a step unless a writer hangs
(`OnlyWritersHoldUp`).

`ServeInv` follows a message through the pipeline. `InGate` and `Scanned` say
what a scan of the gate has established: outputs already scanned that nobody touched since do
not want the message. `Phases` and `Gathered` say the same for the
gathering: an untouched output already passed is pending exactly if it is enabled and named. `Delivered` says that an untouched output is, at
any moment of the writing, either pending or decided, and that decided means
handed to its writer exactly if wanted, by its own level or by that of
`SYPL_LEVEL`; a scan of the gate goes on only where both variables are unset, so that
the levels it compares are those that decide. No goroutine of a call that waits is
left in the gate (`InGate`), where nobody would start it. `ErrorInv` (`Accounted`) splits the failed writes into those
reported and those still to be reported. `FlushInv` (`FlushAccounted`) follows the flush: its list of
outputs takes in all that were there when the call began, nothing is reported before
its end, and then all that failed or, without a handler, nothing. `ExitInv` says who may be flushing:
a caller whose Fatal message is through the pipeline.

### `WindowedProofs`

Assumed: `WindowAssumption`, finitely many runs, and the ranges of the
configuration.

`TypeCorrect`, `DedupIsOncePerWindow`, `ReportsAreExact`, `DecisionsAreMeasured`,
`NobodyIsBlocked`.

The bound of the map needs the cardinality of the keys to be followed through
`Remember`. `OncePerWindow` compares pairs of passes that may be far apart, so
`PassInv` (`PassParts`) relates each pass of the current epoch to what the map knows: its
key is known, and its reading is no later than the start of the key's window. `MutesReported` compares counters with sets of messages; `ReportInv`
adds that an undecided run has neither a verdict nor a reporter, so that a
decision adds exactly one message to the set that its counter counts.

`Measured` counts decisions. All three processors decide by the rank of a
message in its window, so one account serves them. `Chronicle` ties the history
to the map: a key is known when a message of it was decided since the last
eviction. `CauseInv`: the passes in the window of a key are as many as its
messages, or at least what it allows; a message muted is one past that.
`SilenceInv`: the messages since the last pass of a key are the remainder that
the counter leaves over `Thereafter`. `GroupInv` bounds the passes of a key between
two evictions: there are numbers of past windows and of shares of the sampler
that account for all of them, and the clock and the messages have paid for
these (`Spent`). `PastBounded` keeps the bound of the groups before the last
eviction, which nothing joins any more.

`NobodyIsBlocked` is about the callbacks, which log through the same instance,
inside which another callback may run, and so on. A run in a callback waits for
the run inside; `NestInv` says that this one has begun, and is decided after the
one that waits. Nobody holds the mutex across a callback, so either somebody
can decide, or take the mutex, or call, or all that are under way wait inside a
callback; of these the one decided last (`GreatestNatural`, for any number of
runs) waits for a run that is done, and can go on.

### `EsBulkProofs`

Assumed: `BulkAssumption`, finitely many goroutines, room for at least one
item.

`TypeCorrect`, `CloseHoldsAlways` with `MutexComesFree`, `NothingIsLostSilently`.

`TypeInv` adds `Numbered`, which counts the calls of Flush that may still
build an indexer, so that indexers stay within their bound, and `HasIndexer`.
`LifeInv` adds what makes the use of indexers inductive: the indexers not
built yet are untouched (`FreshAhead`); a drained one stays empty
(`Emptied`); once closed, the mutex is only held by the call that closed
(`Roles`), and the outcome kept is that of its drain (`Outcome`).
`NobodyLockedOut` follows from the types: the holder of the mutex can go on, or
is an `Add` that waits for room in the queue of an existing indexer, which is not
empty then.

`NothingLostSilently` rests on `Placed`: an item that an indexer took and that
is not settled is in its queue or in its worker's hand, once, and in those of
no other indexer. `KnownInv` is what the calls know of the indexer: one that is past its
drain has the phase that its error says (`DrainKnown`), an indexer that was
replaced is empty unless some call has told (`Left`), and a drain that failed
is told, or is about to be by the call that holds the mutex (`Confessed`).
`NilCovers` is about calls that have returned: it is inductive with these.

### `PipelineProofs`

Assumed: `PipelineAssumption`, the ranges of the constants and that the
processors of an output have different names.

`TypeCorrect`, `ProcessorsInOrder`, `ErrorsAreRouted`, `LinesAreTrue`,
`RecordsAreTrue`, `RecorderIsSafe`, `PanicsExplained`.

The types include who holds the recorder's mutex, since that is needed to see
that releasing it is right. `ProcessorsInOrder` has two halves. `OrderInv`: what
a message has run and what it has still to run are, one after the other, sorted
by the place of their names in the list of the output, which no setter
changes but at its end. `AccountInv`: each processor that nobody touched
since the message arrived is still to be run, or has been run exactly if it is
enabled and named; `Touch` is what keeps this true when a status changes
between two messages. `RecordsAreTrue` needs that only a recorder has a pending message, and
that it is the writer's own: the last line of `TypeOK`. `RecorderIsSafe` adds
that nobody waits in a circle. `CallInv`: only the first frame of a goroutine
waits for a call, which is under way or back; hence who is stopped by the mutex
waits for a holder that is inside `Write` and can go, or for what the processor of
that holder has logged, which has not come to the mutex yet unless it is `Stuck`.

`PanicsExplained` bounds the exception in `WritesReturn`. `PanicInv`
(`Equipped`): as long as nothing has changed, a message that came from a logger
has its matchers from `NewDebug` on whenever `SYPL_LEVEL` is set, which no
processor takes away; and a formatter found by the check is there to be run.

`RoutedOnce` follows two things. `ListInv`: the list that a message met has, by
name, the processors of the output, at the places they were added. `SayInv`
(`Said`): if the router was the last processor to run and the level is one it
keeps off its output, the flag is Mute, whatever it was before; and nothing that
is muted gets to the writer. With `OrderInv` and `AccountInv`, a router that
nobody touched, at the end of the list, is the last one that has run. `LinesTrue` is about the parts of a line. `TextInv`
(`Carried`): until the names are read the text is the one given; from then on
it wraps the given text without its line breaks, which `chars` keeps reversed;
and a line that is out ends as the given text did and surrounds the rest of
it. Stripping, wrapping and restoring are followed for texts of any length.

### `LoggersProofs`

Assumed: `LoggersAssumption` (finitely many callers, a cache with room for one),
`SetupsAssumption`, `NilAssumption` (nil is neither a location nor a map) and
`FieldsAssumption` (Logw is given lists, a context yields a map).

`TypeCorrect`, `CacheBounded`, `LoggersAreValues`, which says that `Loggers` implements
`LoggerValues`, `MessagesReachTheirOutputs`, and `MessagesAreDelivered`, which
adds the fields.

`IInv` is inductive by itself: every slice is a window on written slots of an
array, and no two loggers have windows on one array (`SlicesInv`); the
locations that a logger or a call holds are its own, or the application's. It
follows that an append through one logger does not change what any other
logger sees, nor a call that iterates over the list it has read: an append in
place writes behind the end of every window on that array (`Frozen`,
`FrozenStays`). `CacheInv` counts entries and goroutines: the size is behind the
entries by the number of goroutines about to count, and the entries, with the
goroutines about to store one, are at most the bound plus the other callers.
`RouteInv` follows a call: which member of `seen` gave it its names, its tags,
and its list of outputs, and that the copies so far are the named ones of the
part of the list that is behind.

`FieldsInv` (`Fielding`) does the same for the fields. A call starts at a map
that holds what the caller meant, its own or the application's, and nobody
writes there while the call may read it; past the merge it is at its own map,
which holds the given fields over the global ones of some member of `seen`, and
each copy at a map of that copy alone, so that what an output adds to one shows
in no other. `PairsAreMeant` is about the loop of `Logw`: for a list of any length,
what it builds pair by pair is what `PairsMean` says of the whole list, in which the
last of equal keys counts and a key without a value is `Missing`.

### `BridgeProofs`

Assumed: `BridgeAssumption`, the ranges of the constants; the empty string is a
part, and attributes are finite, in the form that any set of them has one that
is no group of others in the set.

`TypeCorrect`, `HandlersStayApart`, `HandlersHoldAlways`, of which that is the
first half, and `ForwardsTruly`.

`ApartInv`: what `meant` kept of a handler is still what its slices show
(`Kept`), because every array that is being appended to belongs to one
goroutine that derives, and to no handler yet (`Owned`). `Undisturbed` is the
lemma all of it rests on: a memory that grows, or changes one array, leaves the
slices of the others as they were.

What handlers and records mean is `Held`: in a derivation or a record under
way, what has been appended, and then what the attributes still to be appended
will say (`All`), are together what the handler and the new attributes say
(`Said`). A step of `appendAttr` takes the first of those attributes; it
appends it, or puts the members of a group in its place, and neither changes
the whole (`Unfold`, `StepSays`). At the end nothing is left to append, so the
slices are the meaning, and `MeaningMore` is the law by which a meaning grows
with one more derivation. `HoldsInv` combines this with `ApartInv`, with the
slices being windows on arrays that exist (`SlicesOK`), and with the types.

`Flatten` is a recursive function over groups, so that it has its equation
only if a function that satisfies it exists. `FlattenExists` shows it for every
set of attributes that contains its members, by a minimal counterexample (`Outermost`);
`FlattenIsBody` is the equation. `FlattenConcat` and its relatives are about the
concatenation of lists of lists, a fold in the library, for lists of any
length, by a least counterexample (`LeastNatural`).

`ForwardInv` says, by the place that a write has come to (`Stage`), whether the
slog side can have heard of the message, and if it has not and nobody
reconfigures, that one side does not accept its level; and that all it has
heard is one true record (`Heard`). `RoundTrip` is about the levels alone: a
slog level turned into a sypl level and back is the standard level at or below
it, for every integer, which `Standard` says without either conversion.

### Only model-checked

* Liveness: `CallsReturn`, `CallsEnd` of `Dispatch` and `EsBulk`, the leads-to
  in `WritesReturn`, and the liveness half of `KeepsPromise`, because this prover
  does not handle fairness. What is proved is their safety half: that somebody
  can always go on (`WaitsEnd`, `OnlyWritersHoldUp`, `NobodyLockedOut`,
  `NobodyInACircle`, `NobodyBlocked`), in terms of guards, not of ENABLED.
* The three properties that a run refutes, for which see above.

Every other property of a passing run is proved. The induction principles of
the library take an operator as a parameter and the provers installed cannot
instantiate them; where an argument goes by induction over numbers or
attributes, it is made by a minimal element instead, as in `LeastNatural` and
`Outermost`.

## What is not modelled

* Data that no property tells apart: formatting, colours, JSON, the mask of a
  prefix, the identifiers and the timestamp of a message.
* In the rotating file: what an operating system loses in a power failure
  (the model's crash is the end of the process); foreign files whose names
  match the pattern of a backup; ten or more backups with one timestamp, whose
  suffixes would not sort as numbers.
* In dispatch: a change of an environment variable while a call is under way;
  `Breakpoint`, the `io.Writer` side of the logger, `Serror`, all
  of which print one message and more of nothing; the logger's `Close`, which
  is a plain loop over the outputs.
* In the pipeline: `SetWriter`, which no write looks at; the regular
  expressions of `SYPL_LEVEL`, of which a setup says which match; the built-in
  logger's mutex, under which `Emit` is one step.
* In the asynchronous and the bulk output: callbacks that log through the
  output that calls them. `Pipeline` shows the shape of it for the recorder.
* In the window processors: the status flag, which `Pipeline` has, and counts
  beyond 64 bits. In the bulk output: the parsing and compaction of a
  document, which only decide whether it is refused.
* The components that the table above marks "no": the synchronous
  Elasticsearch output makes one HTTP request per message and keeps no state;
  formatters and colours are text; levels, flags and status are enumerations,
  whose numbers appear in the modules that compare them.

## What could come next

1. Callbacks that log through the asynchronous output from its worker, and
   through the bulk output from its indexer.
2. The composition of an asynchronous output with a rotating file: a Flush
   that has to heal the file first.
