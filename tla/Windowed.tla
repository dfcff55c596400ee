------------------------------ MODULE Windowed ------------------------------
(***************************************************************************)
(* The processors that mute messages by counting them over a window of     *)
(* time: Sample, RateLimit and Dedup (processor/sample.go, ratelimit.go,   *)
(* dedup.go), one instance of one of them.                                 *)
(*                                                                         *)
(* Concurrent messages run the instance at the same time.  Each run reads  *)
(* the clock before it takes the mutex, so that the readings may arrive    *)
(* out of order, and calls the callback after it has released it, so that  *)
(* the callback may log through the same instance.                         *)
(***************************************************************************)
EXTENDS Integers, FiniteSets

CONSTANTS
    Kinds,          \* which processors to consider
    Keys,           \* keys of messages, for Sample and Dedup
    All,            \* stands for the key where there is none, in RateLimit
    Runs,           \* executions of the processor, one per message
    First,          \* SampleConfig, RateLimit's maxPerWindow
    Thereafter,     \* SampleConfig; 0 for none
    Window,         \* 0 for one infinite window
    MaxKeys,        \* sampleMaxKeys, dedupMaxKeys
    MaxClock        \* bound: readings of the clock

ASSUME WindowAssumption ==
    /\ Kinds \subseteq {"Sample", "RateLimit", "Dedup"}
    /\ All \notin Keys
    /\ Runs \cap {"free", "none", "held", "lost"} = {}
    /\ IsFiniteSet(Runs)
    /\ First \in Nat
    /\ Thereafter \in Nat
    /\ Window \in Nat
    /\ MaxKeys \in Nat \ {0}
    /\ MaxClock \in Nat

VARIABLES
    \* Fixed by the factory.
    kind, callback,
    clock,
    \* The instance: the mutex; the keys in the map; per key the start of its
    \* window (lastLogged in Dedup) and its count (suppressed in Dedup).  The
    \* rate limiter has the one key All, known once it has started.
    lock, known, start, count, dropped,
    \* The runs: where they are, and their local variables.
    pc, key, now, report, nested,
    \* History.
    verdict,        \* what was decided
    order,          \* the rank of the decision; 0: none yet
    decided,        \* decisions so far
    at,             \* the clock when it was decided
    epoch,          \* evictions before it
    evictions,
    reporter        \* of a muted message: "held" in a counter, "lost" by an
                    \* eviction, or the run whose report counts it

instanceVars == <<known, start, count, dropped>>
localVars == <<key, now, nested>>
decisionVars == <<report, verdict, order, decided, at, epoch, evictions, reporter>>

vars == <<kind, callback, clock, lock, instanceVars, pc, localVars, decisionVars>>

AllKeys == Keys \cup {All}

----------------------------------------------------------------------------
(* A run begins: its key, and its reading of the clock.                    *)

KeysOfKind == IF kind = "RateLimit" THEN {All} ELSE Keys

\* The run s begins, in the goroutine of a message, or inside the callback of
\* the run r, which then waits for it.
Begin(s, place) ==
    /\ pc[s] = "idle"
    /\ \E k \in KeysOfKind : key' = [key EXCEPT ![s] = k]
    /\ now' = [now EXCEPT ![s] = clock]
    /\ pc' = [place EXCEPT ![s] = "timed"]

Run(r) ==
    /\ Begin(r, pc)
    /\ UNCHANGED <<kind, callback, clock, lock, instanceVars, nested, decisionVars>>

Lock(r) ==
    /\ pc[r] = "timed"
    /\ lock = "free"
    /\ lock' = r
    /\ pc' = [pc EXCEPT ![r] = "locked"]
    /\ UNCHANGED <<kind, callback, clock, instanceVars, localVars, decisionVars>>

----------------------------------------------------------------------------
(* The critical sections.                                                  *)

\* Faulty variant: the window is one instant too long.
ElapsedLate(since, t) == Window > 0 /\ t - since > Window

Elapsed(since, t) == Window > 0 /\ t - since >= Window

\* Faulty variant: one key too many.
FullLate == Cardinality(known) > MaxKeys

FullMap == Cardinality(known) >= MaxKeys

Evicts(r) == key[r] \notin known /\ kind # "RateLimit" /\ FullMap

\* A key that is not in the map is put there, after all others have been
\* evicted when the map is full.
Remember(r) ==
    IF Evicts(r) THEN {key[r]} ELSE known \cup {key[r]}

\* Faulty variant: the mutex is held until the callback has returned.
UnlockLate(r, n) ==
    /\ pc' = [pc EXCEPT ![r] = IF n > 0 /\ callback = "set" THEN "calling" ELSE "done"]
    /\ lock' = IF n > 0 /\ callback = "set" THEN lock ELSE "free"

\* The end of the critical section, with n to report.
Unlock(r, n) ==
    /\ pc' = [pc EXCEPT ![r] = IF n > 0 /\ callback = "set" THEN "calling" ELSE "done"]
    /\ lock' = "free"

\* The messages whose muting has not been reported yet.
HeldOf(k) == {m \in Runs : key[m] = k /\ reporter[m] = "held"}

\* What is decided about the message of r, with n mutings to report.
Decide(r, v, n) ==
    /\ Unlock(r, n)
    /\ verdict' = [verdict EXCEPT ![r] = v]
    /\ report' = [report EXCEPT ![r] = n]
    /\ decided' = decided + 1
    /\ order' = [order EXCEPT ![r] = decided + 1]
    /\ at' = [at EXCEPT ![r] = clock]
    /\ evictions' = evictions + (IF Evicts(r) THEN 1 ELSE 0)
    /\ epoch' = [epoch EXCEPT ![r] = evictions']
    /\ reporter' = [m \in Runs |->
            IF m = r THEN (IF v = "mute" /\ kind # "Sample" THEN "held" ELSE "none")
            ELSE IF Evicts(r) /\ reporter[m] = "held" THEN "lost"
            ELSE IF n > 0 /\ m \in HeldOf(key[r]) THEN r
            ELSE reporter[m]]
    /\ UNCHANGED <<kind, callback, clock, localVars>>

SamplePasses(n) ==
    n <= First \/ (Thereafter > 0 /\ (n - First) % Thereafter = 0)

\* Whether the window of the key is over; a key that is not in the map opens
\* one at its own reading of the clock.
RollsOver(r) == key[r] \in known /\ Elapsed(start[key[r]], now[r])

Fresh(r) == key[r] \notin known \/ RollsOver(r)

\* The messages of the window of key[r], that of r included.
Counted(r) == IF Fresh(r) THEN 1 ELSE count[key[r]] + 1

Sample(r) ==
    LET k == key[r]
        n == Counted(r)
    IN  /\ kind = "Sample"
        /\ pc[r] = "locked"
        /\ known' = Remember(r)
        /\ start' = [start EXCEPT ![k] = IF Fresh(r) THEN now[r] ELSE @]
        /\ count' = [count EXCEPT ![k] = n]
        /\ Decide(r, IF SamplePasses(n) THEN "pass" ELSE "mute", 0)
        /\ UNCHANGED dropped

\* Faulty variant: the number reported is not reset.
RateLimitTwice(r) ==
    LET n == Counted(r)
        muted == n > First
        base == dropped
    IN  /\ kind = "RateLimit"
        /\ pc[r] = "locked"
        /\ known' = Remember(r)
        /\ start' = [start EXCEPT ![All] = IF Fresh(r) THEN now[r] ELSE @]
        /\ count' = [count EXCEPT ![All] = n]
        /\ dropped' = base + (IF muted THEN 1 ELSE 0)
        /\ Decide(r, IF muted THEN "mute" ELSE "pass", IF RollsOver(r) THEN dropped ELSE 0)

RateLimit(r) ==
    LET n == Counted(r)
        muted == n > First
        base == IF RollsOver(r) THEN 0 ELSE dropped
    IN  /\ kind = "RateLimit"
        /\ pc[r] = "locked"
        /\ known' = Remember(r)
        /\ start' = [start EXCEPT ![All] = IF Fresh(r) THEN now[r] ELSE @]
        /\ count' = [count EXCEPT ![All] = n]
        /\ dropped' = base + (IF muted THEN 1 ELSE 0)
        /\ Decide(r, IF muted THEN "mute" ELSE "pass", IF RollsOver(r) THEN dropped ELSE 0)

\* A new key passes; with the map full, the others lose their counts.
DedupNew(r) ==
    /\ kind = "Dedup"
    /\ pc[r] = "locked"
    /\ key[r] \notin known
    /\ known' = Remember(r)
    /\ start' = [start EXCEPT ![key[r]] = now[r]]
    /\ count' = [count EXCEPT ![key[r]] = 0]
    /\ Decide(r, "pass", 0)
    /\ UNCHANGED dropped

\* Faulty variant: the time of the pass is not kept.
DedupAgainUntimed(r) ==
    /\ kind = "Dedup"
    /\ pc[r] = "locked"
    /\ RollsOver(r)
    /\ count' = [count EXCEPT ![key[r]] = 0]
    /\ Decide(r, "pass", count[key[r]])
    /\ UNCHANGED <<known, start, dropped>>

\* The window has elapsed: the key passes again.
DedupAgain(r) ==
    /\ kind = "Dedup"
    /\ pc[r] = "locked"
    /\ RollsOver(r)
    /\ start' = [start EXCEPT ![key[r]] = now[r]]
    /\ count' = [count EXCEPT ![key[r]] = 0]
    /\ Decide(r, "pass", count[key[r]])
    /\ UNCHANGED <<known, dropped>>

DedupSuppress(r) ==
    /\ kind = "Dedup"
    /\ pc[r] = "locked"
    /\ ~Fresh(r)
    /\ count' = [count EXCEPT ![key[r]] = @ + 1]
    /\ Decide(r, "mute", 0)
    /\ UNCHANGED <<known, start, dropped>>

----------------------------------------------------------------------------
(* The callback.                                                           *)

CallbackQuiet(r) ==
    /\ pc[r] = "calling"
    /\ pc' = [pc EXCEPT ![r] = "done"]
    /\ UNCHANGED <<kind, callback, clock, lock, instanceVars, localVars, decisionVars>>

\* The callback logs, which runs this instance again.
CallbackLogs(r) ==
    /\ pc[r] = "calling"
    /\ \E s \in Runs :
          /\ Begin(s, [pc EXCEPT ![r] = "logging"])
          /\ nested' = [nested EXCEPT ![r] = s]
    /\ UNCHANGED <<kind, callback, clock, lock, instanceVars, decisionVars>>

CallbackReturns(r) ==
    /\ pc[r] = "logging"
    /\ pc[nested[r]] = "done"
    /\ pc' = [pc EXCEPT ![r] = "done"]
    /\ UNCHANGED <<kind, callback, clock, lock, instanceVars, localVars, decisionVars>>

----------------------------------------------------------------------------
\* Go's clock readings are monotonic.
Tick ==
    /\ clock < MaxClock
    /\ clock' = clock + 1
    /\ UNCHANGED <<kind, callback, lock, instanceVars, pc, localVars, decisionVars>>

Init ==
    /\ kind \in Kinds
    /\ callback \in {"set", "nil"}
    /\ clock = 0
    /\ lock = "free"
    /\ known = {}
    /\ start = [k \in AllKeys |-> 0]
    /\ count = [k \in AllKeys |-> 0]
    /\ dropped = 0
    /\ pc = [r \in Runs |-> "idle"]
    /\ key = [r \in Runs |-> All]
    /\ now = [r \in Runs |-> 0]
    /\ report = [r \in Runs |-> 0]
    /\ nested = [r \in Runs |-> r]
    /\ verdict = [r \in Runs |-> "none"]
    /\ order = [r \in Runs |-> 0]
    /\ decided = 0
    /\ at = [r \in Runs |-> 0]
    /\ epoch = [r \in Runs |-> 0]
    /\ evictions = 0
    /\ reporter = [r \in Runs |-> "none"]

Dedup(r) == DedupNew(r) \/ DedupAgain(r) \/ DedupSuppress(r)

Callback(r) == CallbackQuiet(r) \/ CallbackLogs(r) \/ CallbackReturns(r)

Goes(r) == Lock(r) \/ Sample(r) \/ RateLimit(r) \/ Dedup(r) \/ Callback(r)

Next == Tick \/ \E r \in Runs : Run(r) \/ Goes(r)

Spec == Init /\ [][Next]_vars

----------------------------------------------------------------------------
(* Properties.                                                             *)

InstanceType ==
    /\ kind \in Kinds
    /\ callback \in {"set", "nil"}
    /\ clock \in Nat
    /\ lock \in Runs \cup {"free"}
    /\ known \subseteq KeysOfKind
    /\ start \in [AllKeys -> Nat]
    /\ count \in [AllKeys -> Nat]
    /\ dropped \in Nat

RunType ==
    /\ pc \in [Runs -> {"idle", "timed", "locked", "calling", "logging", "done"}]
    /\ key \in [Runs -> AllKeys]
    /\ now \in [Runs -> Nat]
    /\ report \in [Runs -> Nat]
    /\ nested \in [Runs -> Runs]

HistoryType ==
    /\ verdict \in [Runs -> {"none", "pass", "mute"}]
    /\ order \in [Runs -> Nat]
    /\ decided \in Nat
    /\ at \in [Runs -> Nat]
    /\ epoch \in [Runs -> Nat]
    /\ evictions \in Nat
    /\ reporter \in [Runs -> Runs \cup {"none", "held", "lost"}]

Undecided == {"idle", "timed", "locked"}

\* Where a run is fits the mutex and what has been decided about it.
Places ==
    \A r \in Runs :
        /\ pc[r] = "locked" <=> lock = r
        /\ pc[r] # "idle" => key[r] \in KeysOfKind
        /\ pc[r] \in Undecided => verdict[r] = "none"

\* Every variable keeps its type, the mutex is held by the one run inside the
\* critical section, and the map stays within its bound (sampleMaxKeys,
\* dedupMaxKeys).
TypeOK ==
    /\ InstanceType /\ RunType /\ HistoryType /\ Places
    /\ IsFiniteSet(known)
    /\ Cardinality(known) <= MaxKeys

Like(p, r) == verdict[p] # "none" /\ key[p] = key[r]

\* How many messages of a key pass in a window whatever else happens.
Allowance == IF kind = "Dedup" THEN 1 ELSE First

\* No message is muted without cause: as many messages of its key as the
\* window allows have passed before it, less than a window before its reading
\* of the clock - however late its goroutine is, and whatever was evicted.
\* (sample.go:65-67, ratelimit.go:80-82, dedup.go:96-98)
MutedForCause ==
    \A m \in Runs : verdict[m] = "mute" =>
        Cardinality({p \in Runs : /\ Like(p, m)
                                  /\ verdict[p] = "pass"
                                  /\ order[p] < order[m]
                                  /\ Window = 0 \/ now[m] - at[p] < Window})
            >= Allowance

\* What the windows that have begun since the first message of a key allow is
\* an upper bound of the messages that pass, between two evictions.
PassesBounded ==
    \A f \in Runs :
        LET Mine == {r \in Runs : Like(r, f) /\ epoch[r] = epoch[f]}
            Windows == 1 + (IF Window = 0 THEN 0 ELSE (clock - now[f]) \div Window)
            Extra == IF kind = "Sample" /\ Thereafter > 0
                     THEN Cardinality(Mine) \div Thereafter ELSE 0
        IN  verdict[f] # "none" /\ (\A r \in Mine : order[f] <= order[r]) =>
                Cardinality({r \in Mine : verdict[r] = "pass"})
                    <= Allowance * Windows + Extra

\* Dedup is "log once per window" (dedup.go:176): two messages of a key that
\* pass have readings of the clock a window apart, unless the map was evicted
\* in between.
OncePerWindow ==
    kind = "Dedup" => \A p, q \in Runs :
        /\ verdict[p] = "pass"
        /\ verdict[q] = "pass"
        /\ key[p] = key[q]
        /\ epoch[p] = epoch[q]
        /\ order[p] < order[q]
        => Window > 0 /\ now[q] - now[p] >= Window

\* A sampler that lets a first message pass never mutes Thereafter messages of
\* a key in a row, across windows and evictions.  (sample.go:108)
NoLongSilence ==
    kind = "Sample" /\ First > 0 /\ Thereafter > 0 =>
        \A m \in Runs : verdict[m] = "mute" =>
            \E p \in Runs :
                /\ Like(p, m)
                /\ verdict[p] = "pass"
                /\ Cardinality({q \in Runs : /\ Like(q, m)
                                             /\ order[p] < order[q]
                                             /\ order[q] <= order[m]}) < Thereafter

\* Measured: no message is muted or passed that the windows of its key would
\* not have.
Measured == MutedForCause /\ PassesBounded /\ NoLongSilence

\* Each report counts exactly the messages muted since the report before it,
\* and the counters those not reported yet; none is reported twice.  Mutings
\* are lost in an eviction only.  (ratelimit.go:94-105, dedup.go:122-133)
MutesReported ==
    /\ kind = "Dedup" => \A k \in known : count[k] = Cardinality(HeldOf(k))
    /\ kind = "RateLimit" => dropped = Cardinality(HeldOf(All))
    /\ \A r \in Runs : report[r] = Cardinality({m \in Runs : reporter[m] = r})
    /\ \A m \in Runs :
          /\ verdict[m] = "mute" /\ kind # "Sample" => reporter[m] # "none"
          /\ reporter[m] = "held" => key[m] \in known
          /\ reporter[m] = "lost" => evictions > 0

\* The run r can take a step of its own: it waits for nothing, or for what is
\* there.
CanGo(r) ==
    \/ pc[r] = "timed" /\ lock = "free"
    \/ pc[r] \in {"locked", "calling"}
    \/ pc[r] = "logging" /\ pc[nested[r]] = "done"

\* The processor does not block the goroutines that log, those inside a callback
\* included: as long as a run has not ended, some run can go on.
\* (ratelimit.go:117-119, dedup.go:138-140)
NobodyBlocked ==
    (\E r \in Runs : pc[r] \notin {"idle", "done"}) => \E r \in Runs : CanGo(r)
=============================================================================
