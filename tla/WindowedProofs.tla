--------------------------- MODULE WindowedProofs ---------------------------
(***************************************************************************)
(* Theorems about the window processors, for any number of keys, runs and  *)
(* instants, and any configuration.                                        *)
(***************************************************************************)
EXTENDS Windowed, FiniteSetTheorems, WellFoundedInduction, TLAPS

LEMMA KindsAre == kind \in Kinds => kind \in {"Sample", "RateLimit", "Dedup"}
  BY WindowAssumption

LEMMA KeysAre == KeysOfKind \subseteq AllKeys
  BY DEF KeysOfKind, AllKeys

LEMMA InitTypes == Init => TypeOK
<1> SUFFICES ASSUME Init PROVE TypeOK
  OBVIOUS
<1>1. InstanceType
  BY DEF Init, InstanceType
<1>2. RunType
  BY DEF Init, RunType, AllKeys
<1>3. HistoryType
  BY DEF Init, HistoryType
<1>4. Places
  BY WindowAssumption DEF Init, Places
<1>5. IsFiniteSet(known) /\ Cardinality(known) <= MaxKeys
  BY FS_EmptySet, WindowAssumption DEF Init
<1>6. QED
  BY <1>1, <1>2, <1>3, <1>4, <1>5 DEF TypeOK

\* A run is put in the map without exceeding its bound.
LEMMA RememberBounded ==
    ASSUME TypeOK, NEW r \in Runs, key[r] \in KeysOfKind
    PROVE  /\ Remember(r) \subseteq KeysOfKind
           /\ IsFiniteSet(Remember(r))
           /\ Cardinality(Remember(r)) <= MaxKeys
<1>1. Remember(r) \subseteq KeysOfKind
  BY DEF TypeOK, InstanceType, Remember
<1>2. IsFiniteSet({key[r]}) /\ Cardinality({key[r]}) = 1
  BY FS_Singleton
<1>3. MaxKeys \in Nat \ {0}
  BY WindowAssumption
<1>4. CASE Evicts(r)
  BY <1>1, <1>2, <1>3, <1>4 DEF Remember
<1>5. CASE key[r] \in known
  <2>1. Remember(r) = known
    BY <1>5 DEF Remember, Evicts
  <2>2. QED
    BY <1>1, <2>1 DEF TypeOK
<1>6. CASE kind = "RateLimit"
  <2>1. Remember(r) = {key[r]}
    BY <1>1, <1>6 DEF KeysOfKind, Remember
  <2>2. QED
    BY <1>1, <1>2, <1>3, <2>1
<1>7. CASE key[r] \notin known /\ kind # "RateLimit" /\ ~FullMap
  <2>1. Remember(r) = known \cup {key[r]}
    BY <1>7 DEF Remember, Evicts
  <2>2. /\ IsFiniteSet(known \cup {key[r]})
        /\ Cardinality(known \cup {key[r]}) = Cardinality(known) + 1
    BY <1>7, FS_AddElement DEF TypeOK
  <2>3. Cardinality(known) \in Nat
    BY FS_CardinalityType DEF TypeOK
  <2>4. Cardinality(known) < MaxKeys
    BY <1>3, <1>7, <2>3 DEF FullMap
  <2>5. QED
    BY <1>1, <1>3, <2>1, <2>2, <2>3, <2>4
<1>8. QED
  BY <1>4, <1>5, <1>6, <1>7 DEF Evicts

\* The number of messages in a window is a number.
LEMMA CountedType ==
    ASSUME TypeOK, NEW r \in Runs
    PROVE  Counted(r) \in Nat
  BY DEF TypeOK, InstanceType, RunType, Counted

\* What a decision leaves behind, apart from the instance.
LEMMA DecideTypes ==
    ASSUME TypeOK, NEW r \in Runs, pc[r] = "locked",
           NEW v \in {"pass", "mute"}, NEW n \in Nat, Decide(r, v, n)
    PROVE  /\ RunType' /\ HistoryType' /\ Places'
           /\ kind' = kind /\ callback' = callback /\ clock' = clock
           /\ lock' = "free"
<1>1. UNCHANGED <<kind, callback, clock, localVars>> /\ lock' = "free"
  BY DEF Decide, Unlock
<1>2. RunType'
  BY <1>1 DEF TypeOK, RunType, Decide, Unlock, localVars
<1>3. HistoryType'
  <2>1. verdict' \in [Runs -> {"none", "pass", "mute"}]
    BY DEF TypeOK, HistoryType, Decide
  <2>2. order' \in [Runs -> Nat] /\ decided' \in Nat
    BY DEF TypeOK, HistoryType, Decide
  <2>3. at' \in [Runs -> Nat]
    BY DEF TypeOK, HistoryType, InstanceType, Decide
  <2>4. evictions' \in Nat
    BY DEF TypeOK, HistoryType, Decide
  <2>5. epoch' \in [Runs -> Nat]
    BY <2>4 DEF TypeOK, HistoryType, Decide
  <2>6. reporter' \in [Runs -> Runs \cup {"none", "held", "lost"}]
    BY DEF TypeOK, HistoryType, Decide
  <2>7. QED
    BY <2>1, <2>2, <2>3, <2>4, <2>5, <2>6 DEF HistoryType
<1>4. Places'
  <2>1. ASSUME NEW q \in Runs
        PROVE  /\ pc'[q] = "locked" <=> lock' = q
               /\ pc'[q] # "idle" => key'[q] \in KeysOfKind
               /\ pc'[q] \in Undecided => verdict'[q] = "none"
    <3>1. pc'[r] \in {"calling", "done"} /\ (q # r => pc'[q] = pc[q])
      BY DEF TypeOK, RunType, Decide, Unlock
    <3>2. q # r => pc[q] # "locked"
      BY DEF TypeOK, Places
    <3>3. lock' # q
      BY <1>1, WindowAssumption
    <3>4. key'[q] = key[q] /\ (q # r => verdict'[q] = verdict[q])
      BY <1>1 DEF TypeOK, HistoryType, Decide, localVars
    <3>5. QED
      BY <3>1, <3>2, <3>3, <3>4 DEF TypeOK, Places, Undecided
  <2>2. KeysOfKind' = KeysOfKind
    BY <1>1 DEF KeysOfKind
  <2>3. QED
    BY <2>1, <2>2 DEF Places
<1>5. QED
  BY <1>1, <1>2, <1>3, <1>4

\* What the critical sections have in common: each is a decision, and a change
\* of the instance.
LEMMA DecisionTypes ==
    ASSUME TypeOK, NEW r \in Runs, Sample(r) \/ RateLimit(r) \/ Dedup(r)
    PROVE  /\ pc[r] = "locked"
           /\ \E v \in {"pass", "mute"}, n \in Nat : Decide(r, v, n)
           /\ known' \in {known, Remember(r)}
           /\ start' \in [AllKeys -> Nat]
           /\ count' \in [AllKeys -> Nat]
           /\ dropped' \in Nat
<1>1. key[r] \in AllKeys /\ now[r] \in Nat /\ count[key[r]] \in Nat
  BY DEF TypeOK, RunType, InstanceType
<1>2. start \in [AllKeys -> Nat] /\ count \in [AllKeys -> Nat] /\ dropped \in Nat
  BY DEF TypeOK, InstanceType
<1>3. CASE Sample(r)
  BY <1>1, <1>2, <1>3, CountedType DEF Sample
<1>4. CASE RateLimit(r)
  <2> DEFINE n == IF RollsOver(r) THEN dropped ELSE 0
             v == IF Counted(r) > First THEN "mute" ELSE "pass"
  <2>1. n \in Nat /\ v \in {"pass", "mute"} /\ Decide(r, v, n)
    BY <1>2, <1>4 DEF RateLimit
  <2>2. dropped' \in Nat
    BY <1>2, <1>4 DEF RateLimit
  <2>3. start' \in [AllKeys -> Nat] /\ count' \in [AllKeys -> Nat]
    BY <1>1, <1>2, <1>4, CountedType DEF RateLimit
  <2>4. pc[r] = "locked" /\ known' = Remember(r)
    BY <1>4 DEF RateLimit
  <2> HIDE DEF n, v
  <2>5. QED
    BY <2>1, <2>2, <2>3, <2>4
<1>5. CASE DedupNew(r)
  BY <1>1, <1>2, <1>5 DEF DedupNew
<1>6. CASE DedupAgain(r)
  BY <1>1, <1>2, <1>6 DEF DedupAgain
<1>7. CASE DedupSuppress(r)
  BY <1>1, <1>2, <1>7 DEF DedupSuppress
<1>8. QED
  BY <1>3, <1>4, <1>5, <1>6, <1>7 DEF Dedup

LEMMA DecisionStep ==
    ASSUME TypeOK, NEW r \in Runs, Sample(r) \/ RateLimit(r) \/ Dedup(r)
    PROVE  TypeOK'
<1>1. key[r] \in KeysOfKind
  BY DecisionTypes DEF TypeOK, Places
<1>2. PICK v \in {"pass", "mute"}, n \in Nat : Decide(r, v, n)
  BY DecisionTypes
<1>3. /\ RunType' /\ HistoryType' /\ Places'
      /\ kind' = kind /\ callback' = callback /\ clock' = clock
      /\ lock' = "free"
  BY <1>2, DecideTypes, DecisionTypes
<1>4. /\ known' \subseteq KeysOfKind
      /\ IsFiniteSet(known')
      /\ Cardinality(known') <= MaxKeys
  BY <1>1, DecisionTypes, RememberBounded DEF TypeOK, InstanceType
<1>5. KeysOfKind' = KeysOfKind
  BY <1>3 DEF KeysOfKind
<1>6. InstanceType'
  BY <1>3, <1>4, <1>5, DecisionTypes DEF TypeOK, InstanceType
<1>7. QED
  BY <1>3, <1>4, <1>6 DEF TypeOK

\* The beginning of a run, by a message or inside a callback.
LEMMA BeginStep ==
    ASSUME TypeOK, NEW s \in Runs, NEW place \in {pc} \cup
               {[pc EXCEPT ![r] = "logging"] : r \in {q \in Runs : pc[q] = "calling"}},
           Begin(s, place), nested' \in [Runs -> Runs],
           UNCHANGED <<kind, callback, clock, lock, instanceVars, decisionVars>>
    PROVE  TypeOK'
<1>1. key' \in [Runs -> AllKeys] /\ key'[s] \in KeysOfKind
  BY KeysAre DEF TypeOK, RunType, Begin
<1>2. /\ place \in [Runs -> {"idle", "timed", "locked", "calling", "logging", "done"}]
      /\ \A q \in Runs : place[q] = pc[q] \/ (pc[q] = "calling" /\ place[q] = "logging")
  BY DEF TypeOK, RunType
<1>3. RunType'
  BY <1>1, <1>2 DEF TypeOK, RunType, InstanceType, Begin, decisionVars
<1>4. InstanceType' /\ HistoryType'
  BY DEF TypeOK, InstanceType, HistoryType, instanceVars, decisionVars, KeysOfKind
<1>5. Places'
  <2>1. KeysOfKind' = KeysOfKind
    BY DEF KeysOfKind
  <2>2. ASSUME NEW q \in Runs
        PROVE  /\ pc'[q] = "locked" <=> lock = q
               /\ pc'[q] # "idle" => key'[q] \in KeysOfKind
               /\ pc'[q] \in Undecided => verdict[q] = "none"
    <3>1. pc'[s] = "timed" /\ (q # s => pc'[q] = place[q] /\ key'[q] = key[q])
      BY <1>2 DEF Begin, TypeOK, RunType
    <3>2. pc[s] = "idle"
      BY DEF Begin
    <3>3. QED
      BY <1>1, <1>2, <3>1, <3>2 DEF TypeOK, Places, Undecided
  <2>3. QED
    BY <2>1, <2>2 DEF Places, decisionVars
<1>6. QED
  BY <1>3, <1>4, <1>5 DEF TypeOK, instanceVars

LEMMA TypeStep == TypeOK /\ [Next]_vars => TypeOK'
<1> SUFFICES ASSUME TypeOK, [Next]_vars PROVE TypeOK'
  OBVIOUS
<1>1. CASE UNCHANGED vars
  BY <1>1 DEF TypeOK, InstanceType, RunType, HistoryType, Places, KeysOfKind, vars,
              instanceVars, localVars, decisionVars
<1>2. CASE Tick
  BY <1>2 DEF TypeOK, InstanceType, RunType, HistoryType, Places, KeysOfKind, Tick,
              instanceVars, localVars, decisionVars
<1>3. ASSUME NEW r \in Runs, Run(r) PROVE TypeOK'
  BY <1>3, BeginStep DEF Run, TypeOK, RunType
<1>4. ASSUME NEW r \in Runs, Lock(r) PROVE TypeOK'
  <2>1. UNCHANGED <<kind, callback, clock, instanceVars, localVars, decisionVars>>
    BY <1>4 DEF Lock
  <2>2. InstanceType' /\ HistoryType'
    BY <1>4, <2>1 DEF Lock, TypeOK, InstanceType, HistoryType, KeysOfKind, instanceVars,
                      decisionVars
  <2>3. RunType'
    BY <1>4, <2>1 DEF Lock, TypeOK, RunType, localVars, decisionVars
  <2>4. Places'
    BY <1>4, <2>1, WindowAssumption
      DEF Lock, TypeOK, RunType, Places, KeysOfKind, Undecided, localVars, decisionVars
  <2>5. QED
    BY <2>1, <2>2, <2>3, <2>4 DEF TypeOK, instanceVars
<1>5. ASSUME NEW r \in Runs, Sample(r) \/ RateLimit(r) \/ Dedup(r) PROVE TypeOK'
  BY <1>5, DecisionStep
<1>6. ASSUME NEW r \in Runs, CallbackLogs(r) PROVE TypeOK'
  <2>1. PICK s \in Runs : /\ Begin(s, [pc EXCEPT ![r] = "logging"])
                          /\ nested' = [nested EXCEPT ![r] = s]
    BY <1>6 DEF CallbackLogs
  <2>2. nested' \in [Runs -> Runs]
    BY <2>1 DEF TypeOK, RunType
  <2>3. [pc EXCEPT ![r] = "logging"] \in
            {[pc EXCEPT ![q] = "logging"] : q \in {q \in Runs : pc[q] = "calling"}}
    BY <1>6 DEF CallbackLogs
  <2>4. UNCHANGED <<kind, callback, clock, lock, instanceVars, decisionVars>>
    BY <1>6 DEF CallbackLogs
  <2>5. QED
    BY <2>1, <2>2, <2>3, <2>4, BeginStep
<1>7. ASSUME NEW r \in Runs, CallbackQuiet(r) \/ CallbackReturns(r) PROVE TypeOK'
  <2>1. /\ UNCHANGED <<kind, callback, clock, lock, instanceVars, localVars, decisionVars>>
        /\ pc[r] \in {"calling", "logging"}
        /\ pc' = [pc EXCEPT ![r] = "done"]
    BY <1>7 DEF CallbackQuiet, CallbackReturns
  <2>2. InstanceType' /\ HistoryType' /\ RunType'
    BY <2>1 DEF TypeOK, InstanceType, HistoryType, RunType, KeysOfKind, instanceVars,
                localVars, decisionVars
  <2>3. Places'
    BY <2>1 DEF TypeOK, RunType, Places, KeysOfKind, Undecided, localVars, decisionVars
  <2>4. QED
    BY <2>1, <2>2, <2>3 DEF TypeOK, instanceVars
<1>8. QED
  BY <1>1, <1>2, <1>3, <1>4, <1>5, <1>6, <1>7 DEF Next, Goes, Callback

\* Every variable keeps its type, and the map its bound.
THEOREM TypeCorrect == Spec => []TypeOK
  BY InitTypes, TypeStep, PTL DEF Spec

----------------------------------------------------------------------------
(* Dedup is once per window: a key that has passed since the last eviction *)
(* is in the map, with a start no earlier than the readings of its passes. *)

PassParts ==
    \A p \in Runs :
        /\ epoch[p] <= evictions
        /\ order[p] <= decided
        /\ verdict[p] = "pass" /\ epoch[p] = evictions =>
              key[p] \in known /\ now[p] <= start[key[p]]

PassInv == kind = "Dedup" => PassParts /\ OncePerWindow

\* What one decision changes in the history.
LEMMA DecideFacts ==
    ASSUME TypeOK, NEW r \in Runs, NEW v, NEW n, Decide(r, v, n)
    PROVE  /\ kind' = kind /\ key' = key /\ now' = now
           /\ decided' = decided + 1
           /\ evictions' = evictions + (IF Evicts(r) THEN 1 ELSE 0)
           /\ verdict'[r] = v /\ order'[r] = decided + 1 /\ epoch'[r] = evictions'
           /\ \A q \in Runs \ {r} : /\ verdict'[q] = verdict[q]
                                    /\ order'[q] = order[q]
                                    /\ epoch'[q] = epoch[q]
  BY DEF TypeOK, HistoryType, Decide, localVars

LEMMA PassDecision ==
    ASSUME TypeOK, PassInv, kind = "Dedup", NEW r \in Runs, Dedup(r)
    PROVE  PassParts' /\ OncePerWindow'
<1> DEFINE k == key[r]
<1>0. /\ k \in AllKeys
      /\ evictions \in Nat /\ decided \in Nat
      /\ start \in [AllKeys -> Nat]
      /\ order \in [Runs -> Nat] /\ epoch \in [Runs -> Nat]
      /\ now \in [Runs -> Nat] /\ key \in [Runs -> AllKeys]
      /\ pc[r] = "locked" /\ verdict[r] = "none"
  BY DecisionTypes DEF TypeOK, RunType, HistoryType, InstanceType, Places, Undecided
<1>1. PassParts /\ OncePerWindow
  BY DEF PassInv
<1>2. CASE DedupSuppress(r)
  <2>1. Decide(r, "mute", 0) /\ UNCHANGED <<known, start>> /\ k \in known
    BY <1>2 DEF DedupSuppress, Fresh
  <2>2. evictions' = evictions
    BY <1>0, <2>1, DecideFacts DEF Evicts
  <2>3. PassParts'
    BY <1>0, <1>1, <2>1, <2>2, DecideFacts DEF PassParts
  <2>4. OncePerWindow'
    BY <1>0, <1>1, <2>1, DecideFacts DEF OncePerWindow
  <2>5. QED
    BY <2>3, <2>4
<1>3. CASE DedupAgain(r)
  <2>1. /\ \E n : Decide(r, "pass", n)
        /\ known' = known /\ start' = [start EXCEPT ![k] = now[r]]
        /\ k \in known
        /\ Window > 0 /\ now[r] - start[k] >= Window
    BY <1>3 DEF DedupAgain, RollsOver, Elapsed
  <2>2. evictions' = evictions
    BY <1>0, <2>1, DecideFacts DEF Evicts
  <2>3. Window \in Nat
    BY WindowAssumption
  <2>4. PassParts'
    <3>1. ASSUME NEW p \in Runs
          PROVE  /\ epoch'[p] <= evictions'
                 /\ order'[p] <= decided'
                 /\ verdict'[p] = "pass" /\ epoch'[p] = evictions' =>
                       key'[p] \in known' /\ now'[p] <= start'[key'[p]]
      <4>1. CASE p = r
        BY <1>0, <2>1, <2>2, <4>1, DecideFacts
      <4>2. CASE p # r
        BY <1>0, <1>1, <2>1, <2>2, <2>3, <4>2, DecideFacts DEF PassParts
      <4>3. QED
        BY <4>1, <4>2
    <3>2. QED
      BY <3>1 DEF PassParts
  <2>5. ASSUME NEW p \in Runs, NEW q \in Runs,
               verdict'[p] = "pass", verdict'[q] = "pass", key'[p] = key'[q],
               epoch'[p] = epoch'[q], order'[p] < order'[q]
        PROVE  Window > 0 /\ now'[q] - now'[p] >= Window
    <3>1. CASE p # r /\ q # r
      BY <1>1, <2>1, <2>5, <3>1, DecideFacts DEF OncePerWindow
    <3>2. CASE p = r
      BY <1>0, <1>1, <2>1, <2>5, <3>2, DecideFacts DEF PassParts
    <3>3. CASE p # r /\ q = r
      <4>1. epoch[p] = evictions /\ key[p] = k /\ verdict[p] = "pass"
        BY <2>1, <2>2, <2>5, <3>3, DecideFacts
      <4>2. now[p] <= start[k]
        BY <1>1, <4>1 DEF PassParts
      <4>3. QED
        BY <1>0, <2>1, <2>3, <3>3, <4>2, DecideFacts
    <3>4. QED
      BY <3>1, <3>2, <3>3
  <2>6. OncePerWindow'
    BY <2>5 DEF OncePerWindow
  <2>7. QED
    BY <2>4, <2>6
<1>4. CASE DedupNew(r)
  <2>1. /\ Decide(r, "pass", 0)
        /\ known' = Remember(r) /\ start' = [start EXCEPT ![k] = now[r]]
        /\ k \notin known
    BY <1>4 DEF DedupNew
  <2>2. \A p \in Runs : verdict[p] = "pass" /\ epoch[p] = evictions' =>
            key[p] \in known /\ ~Evicts(r) /\ key[p] # k
    BY <1>0, <1>1, <2>1, DecideFacts DEF PassParts
  <2>3. PassParts'
    <3>1. ASSUME NEW p \in Runs
          PROVE  /\ epoch'[p] <= evictions'
                 /\ order'[p] <= decided'
                 /\ verdict'[p] = "pass" /\ epoch'[p] = evictions' =>
                       key'[p] \in known' /\ now'[p] <= start'[key'[p]]
      <4>1. CASE p = r
        BY <1>0, <2>1, <4>1, DecideFacts DEF Remember
      <4>2. CASE p # r
        <5>1. epoch'[p] <= evictions' /\ order'[p] <= decided'
          BY <1>0, <1>1, <2>1, <4>2, DecideFacts DEF PassParts
        <5>2. ASSUME verdict'[p] = "pass", epoch'[p] = evictions'
              PROVE  key'[p] \in known' /\ now'[p] <= start'[key'[p]]
          <6>1. verdict[p] = "pass" /\ epoch[p] = evictions'
            BY <2>1, <4>2, <5>2, DecideFacts
          <6>2. ~Evicts(r) /\ key[p] \in known /\ key[p] # k
            BY <2>2, <6>1
          <6>3. epoch[p] = evictions
            BY <1>0, <2>1, <6>1, <6>2, DecideFacts
          <6>4. now[p] <= start[key[p]]
            BY <1>1, <6>1, <6>3 DEF PassParts
          <6>5. QED
            BY <1>0, <2>1, <6>2, <6>4, DecideFacts DEF Remember
        <5>3. QED
          BY <5>1, <5>2
      <4>3. QED
        BY <4>1, <4>2
    <3>2. QED
      BY <3>1 DEF PassParts
  <2>4. ASSUME NEW p \in Runs, NEW q \in Runs,
               verdict'[p] = "pass", verdict'[q] = "pass", key'[p] = key'[q],
               epoch'[p] = epoch'[q], order'[p] < order'[q]
        PROVE  Window > 0 /\ now'[q] - now'[p] >= Window
    <3>1. CASE p # r /\ q # r
      BY <1>1, <2>1, <2>4, <3>1, DecideFacts DEF OncePerWindow
    <3>2. CASE p = r
      BY <1>0, <1>1, <2>1, <2>4, <3>2, DecideFacts DEF PassParts
    <3>3. CASE p # r /\ q = r
      BY <2>1, <2>2, <2>4, <3>3, DecideFacts
    <3>4. QED
      BY <3>1, <3>2, <3>3
  <2>5. OncePerWindow'
    BY <2>4 DEF OncePerWindow
  <2>6. QED
    BY <2>3, <2>5
<1>5. QED
  BY <1>2, <1>3, <1>4 DEF Dedup

\* A run that begins has not been decided.
LEMMA BeginFacts ==
    ASSUME TypeOK, NEW s \in Runs, NEW place, Begin(s, place)
    PROVE  /\ verdict[s] = "none"
           /\ \A q \in Runs \ {s} : key'[q] = key[q] /\ now'[q] = now[q]
  BY DEF TypeOK, RunType, Places, Undecided, Begin

LEMMA PassStep == TypeOK /\ PassInv /\ [Next]_vars => PassInv'
<1> SUFFICES ASSUME TypeOK, PassInv, [Next]_vars PROVE PassInv'
  OBVIOUS
<1>1. CASE \E r \in Runs : Sample(r) \/ RateLimit(r)
  BY <1>1 DEF PassInv, Sample, RateLimit, Decide
<1>2. CASE \E r \in Runs : Dedup(r)
  <2>1. PICK r \in Runs : Dedup(r)
    BY <1>2
  <2>2. kind = "Dedup"
    BY <2>1 DEF Dedup, DedupNew, DedupAgain, DedupSuppress
  <2>3. QED
    BY <2>1, <2>2, PassDecision DEF PassInv
<1>3. ASSUME NEW s \in Runs, NEW place, Begin(s, place),
             UNCHANGED <<kind, instanceVars, decisionVars>>
      PROVE  PassInv'
  <2>1. ASSUME kind = "Dedup" PROVE PassParts' /\ OncePerWindow'
    <3>1. PassParts /\ OncePerWindow
      BY <2>1 DEF PassInv
    <3>2. \A q \in Runs : verdict[q] = "pass" => key'[q] = key[q] /\ now'[q] = now[q]
      BY <1>3, BeginFacts
    <3>3. QED
      BY <1>3, <3>1, <3>2 DEF PassParts, OncePerWindow, instanceVars, decisionVars
  <2>2. QED
    BY <1>3, <2>1 DEF PassInv
<1>4. CASE \E r \in Runs : Run(r) \/ CallbackLogs(r)
  BY <1>3, <1>4 DEF Run, CallbackLogs
<1>5. CASE UNCHANGED <<kind, instanceVars, localVars, decisionVars>>
  BY <1>5 DEF PassInv, PassParts, OncePerWindow, instanceVars, localVars, decisionVars
<1>6. QED
  BY <1>1, <1>2, <1>4, <1>5
    DEF Next, Goes, Callback, Tick, Lock, CallbackQuiet, CallbackReturns, vars

\* Two messages of a key that pass are a window apart.
THEOREM DedupIsOncePerWindow == Spec => []OncePerWindow
<1>1. Init => PassInv
  BY DEF Init, PassInv, PassParts, OncePerWindow
<1>2. PassInv => OncePerWindow
  BY DEF PassInv, OncePerWindow
<1>3. QED
  BY <1>1, <1>2, PassStep, TypeCorrect, PTL DEF Spec

----------------------------------------------------------------------------
(* Reports: what a counter holds are the messages whose muting has not     *)
(* been reported; a report takes all of them.                              *)

UndecidedParts ==
    /\ \A r \in Runs : pc[r] \in Undecided => report[r] = 0 /\ reporter[r] = "none"
    /\ kind = "Sample" => \A r \in Runs : reporter[r] = "none"

ReportedBy(r) == {m \in Runs : reporter[m] = r}

ReportInv == UndecidedParts /\ MutesReported

LEMMA SetsAreFinite ==
    /\ \A k : IsFiniteSet(HeldOf(k)) /\ Cardinality(HeldOf(k)) \in Nat
    /\ \A r : IsFiniteSet(ReportedBy(r)) /\ Cardinality(ReportedBy(r)) \in Nat
<1>1. IsFiniteSet(Runs)
  BY WindowAssumption
<1>2. \A k : HeldOf(k) \subseteq Runs
  BY DEF HeldOf
<1>3. \A r : ReportedBy(r) \subseteq Runs
  BY DEF ReportedBy
<1>4. QED
  BY <1>1, <1>2, <1>3, FS_Subset, FS_CardinalityType

\* What a decision does to the messages still to be reported, when the number
\* to report is that of the messages held.
LEMMA DecideReports ==
    ASSUME TypeOK, ReportInv, NEW r \in Runs, pc[r] = "locked",
           NEW v \in {"pass", "mute"}, NEW n \in Nat, Decide(r, v, n),
           n = 0 \/ n = Cardinality(HeldOf(key[r])),
           Evicts(r) => v = "pass" /\ n = 0,
           (key[r] \in known' /\ known \subseteq known') \/ Evicts(r)
    PROVE  /\ UndecidedParts'
           /\ \A q \in Runs : report'[q] = Cardinality(ReportedBy(q)')
           /\ \A m \in Runs :
                 /\ verdict'[m] = "mute" /\ kind' # "Sample" => reporter'[m] # "none"
                 /\ reporter'[m] = "held" => key'[m] \in known'
                 /\ reporter'[m] = "lost" => evictions' > 0
<1>0. /\ kind' = kind /\ key' = key
      /\ Runs \cap {"free", "none", "held", "lost"} = {}
      /\ reporter \in [Runs -> Runs \cup {"none", "held", "lost"}]
      /\ report \in [Runs -> Nat]
      /\ evictions \in Nat
      /\ report[r] = 0 /\ reporter[r] = "none"
  BY WindowAssumption
    DEF Decide, localVars, TypeOK, RunType, HistoryType, ReportInv, UndecidedParts,
        Undecided
<1>1. /\ reporter'[r] = IF v = "mute" /\ kind # "Sample" THEN "held" ELSE "none"
      /\ \A m \in Runs \ {r} : reporter'[m] =
            IF Evicts(r) /\ reporter[m] = "held" THEN "lost"
            ELSE IF n > 0 /\ m \in HeldOf(key[r]) THEN r ELSE reporter[m]
      /\ verdict'[r] = v /\ report'[r] = n
      /\ \A q \in Runs \ {r} : verdict'[q] = verdict[q] /\ report'[q] = report[q]
      /\ evictions' = evictions + (IF Evicts(r) THEN 1 ELSE 0)
      /\ pc'[r] \in {"calling", "done"}
      /\ \A q \in Runs \ {r} : pc'[q] = pc[q]
  BY DEF TypeOK, RunType, HistoryType, Decide, Unlock
<1>2. ReportedBy(r) = {}
  <2>1. Cardinality(ReportedBy(r)) = 0
    BY <1>0 DEF ReportInv, MutesReported, ReportedBy
  <2>2. QED
    BY <2>1, SetsAreFinite, FS_EmptySet
<1>3. UndecidedParts'
  <2>1. ASSUME NEW q \in Runs, pc'[q] \in Undecided
        PROVE  report'[q] = 0 /\ reporter'[q] = "none"
    <3>1. q # r /\ pc[q] \in Undecided
      BY <1>1, <2>1 DEF Undecided
    <3>2. report[q] = 0 /\ reporter[q] = "none"
      BY <3>1 DEF ReportInv, UndecidedParts
    <3>3. q \notin HeldOf(key[r])
      BY <3>2 DEF HeldOf
    <3>4. QED
      BY <1>1, <3>1, <3>2, <3>3
  <2>2. kind = "Sample" => \A q \in Runs : reporter'[q] = "none"
    BY <1>1 DEF ReportInv, UndecidedParts, HeldOf
  <2>3. QED
    BY <1>0, <2>1, <2>2 DEF UndecidedParts
<1>4. ASSUME NEW q \in Runs PROVE report'[q] = Cardinality(ReportedBy(q)')
  <2>1. CASE q # r
    <3>1. \A m \in Runs : reporter'[m] = q <=> reporter[m] = q
      BY <1>0, <1>1, <2>1 DEF HeldOf
    <3>2. ReportedBy(q)' = ReportedBy(q)
      BY <3>1 DEF ReportedBy
    <3>3. QED
      BY <1>1, <2>1, <3>2 DEF ReportInv, MutesReported, ReportedBy
  <2>2. CASE q = r /\ n = 0
    <3>1. \A m \in Runs : reporter'[m] # r
      BY <1>0, <1>1, <1>2, <2>2 DEF ReportedBy
    <3>2. ReportedBy(r)' = {}
      BY <3>1 DEF ReportedBy
    <3>3. QED
      BY <1>1, <2>2, <3>2, FS_EmptySet
  <2>3. CASE q = r /\ n > 0
    <3>1. ~Evicts(r) /\ n = Cardinality(HeldOf(key[r]))
      BY <2>3
    <3>2. \A m \in Runs : reporter'[m] = r <=> m \in HeldOf(key[r])
      BY <1>0, <1>1, <1>2, <2>3, <3>1 DEF ReportedBy, HeldOf
    <3>3. ReportedBy(r)' = HeldOf(key[r])
      BY <3>2 DEF ReportedBy, HeldOf
    <3>4. QED
      BY <1>1, <2>3, <3>1, <3>3
  <2>4. QED
    BY <2>1, <2>2, <2>3
<1>5. ASSUME NEW m \in Runs
      PROVE  /\ verdict'[m] = "mute" /\ kind' # "Sample" => reporter'[m] # "none"
             /\ reporter'[m] = "held" => key'[m] \in known'
             /\ reporter'[m] = "lost" => evictions' > 0
  <2>1. CASE m = r
    BY <1>0, <1>1, <2>1
  <2>2. CASE m # r
    <3>1. /\ verdict[m] = "mute" /\ kind # "Sample" => reporter[m] # "none"
          /\ reporter[m] = "held" => key[m] \in known
          /\ reporter[m] = "lost" => evictions > 0
      BY DEF ReportInv, MutesReported
    <3>2. QED
      BY <1>0, <1>1, <2>2, <3>1
  <2>3. QED
    BY <2>1, <2>2
<1>6. QED
  BY <1>3, <1>4, <1>5

\* The messages held after a decision.
LEMMA DecideHolds ==
    ASSUME TypeOK, ReportInv, NEW r \in Runs, pc[r] = "locked", kind # "Sample",
           NEW v \in {"pass", "mute"}, NEW n \in Nat, Decide(r, v, n)
    PROVE  /\ Evicts(r) /\ v = "pass" => \A k : HeldOf(k)' = {}
           /\ ~Evicts(r) => \A k : k # key[r] => HeldOf(k)' = HeldOf(k)
           /\ ~Evicts(r) /\ n = 0 /\ v = "pass" => HeldOf(key[r])' = HeldOf(key[r])
           /\ ~Evicts(r) /\ n = 0 /\ v = "mute" =>
                 Cardinality(HeldOf(key[r])') = Cardinality(HeldOf(key[r])) + 1
           /\ ~Evicts(r) /\ n > 0 =>
                 Cardinality(HeldOf(key[r])') = IF v = "mute" THEN 1 ELSE 0
<1>0. /\ key' = key
      /\ Runs \cap {"free", "none", "held", "lost"} = {}
      /\ reporter[r] = "none"
  BY WindowAssumption
    DEF Decide, localVars, ReportInv, UndecidedParts, Undecided
<1>1. /\ reporter'[r] = IF v = "mute" THEN "held" ELSE "none"
      /\ \A m \in Runs \ {r} : reporter'[m] =
            IF Evicts(r) /\ reporter[m] = "held" THEN "lost"
            ELSE IF n > 0 /\ m \in HeldOf(key[r]) THEN r ELSE reporter[m]
  BY DEF TypeOK, HistoryType, Decide
<1>2. Evicts(r) /\ v = "pass" => \A k : HeldOf(k)' = {}
  BY <1>0, <1>1 DEF HeldOf
<1>3. ASSUME ~Evicts(r), NEW k, k # key[r] PROVE HeldOf(k)' = HeldOf(k)
  <2>1. \A m \in Runs : key[m] = k => (reporter'[m] = "held" <=> reporter[m] = "held")
    BY <1>0, <1>1, <1>3 DEF HeldOf
  <2>2. QED
    BY <1>0, <2>1 DEF HeldOf
<1>4. ASSUME ~Evicts(r), n = 0
      PROVE  HeldOf(key[r])' = HeldOf(key[r]) \cup (IF v = "mute" THEN {r} ELSE {})
  <2>1. \A m \in Runs \ {r} : reporter'[m] = reporter[m]
    BY <1>1, <1>4
  <2>2. QED
    BY <1>0, <1>1, <2>1 DEF HeldOf
<1>5. r \notin HeldOf(key[r])
  BY <1>0 DEF HeldOf
<1>6. ASSUME ~Evicts(r), n > 0
      PROVE  HeldOf(key[r])' = IF v = "mute" THEN {r} ELSE {}
  <2>1. \A m \in Runs \ {r} : ~(reporter'[m] = "held" /\ key[m] = key[r])
    BY <1>0, <1>1, <1>6 DEF HeldOf
  <2>2. QED
    BY <1>0, <1>1, <2>1 DEF HeldOf
<1>7. ~Evicts(r) /\ n = 0 /\ v = "mute" =>
          Cardinality(HeldOf(key[r])') = Cardinality(HeldOf(key[r])) + 1
  BY <1>4, <1>5, SetsAreFinite, FS_AddElement
<1>8. Cardinality({r}) = 1 /\ Cardinality({}) = 0
  BY FS_Singleton, FS_EmptySet
<1>9. QED
  BY <1>2, <1>3, <1>4, <1>6, <1>7, <1>8

LEMMA ReportDecision ==
    ASSUME TypeOK, ReportInv, NEW r \in Runs, Sample(r) \/ RateLimit(r) \/ Dedup(r)
    PROVE  ReportInv'
<1> DEFINE k == key[r]
<1>0. /\ pc[r] = "locked" /\ k \in KeysOfKind /\ k \in AllKeys
      /\ count \in [AllKeys -> Nat] /\ dropped \in Nat
      /\ known \subseteq KeysOfKind /\ known \subseteq AllKeys
  BY DecisionTypes, KeysAre DEF TypeOK, InstanceType, RunType, Places
<1>1. CASE Sample(r)
  <2>1. PICK v \in {"pass", "mute"} : Decide(r, v, 0)
    BY <1>1 DEF Sample
  <2>2. kind = "Sample" /\ kind' = kind /\ key' = key
    BY <1>1, <2>1 DEF Sample, Decide, localVars
  <2>3. /\ Runs \cap {"free", "none", "held", "lost"} = {}
        /\ \A m \in Runs : reporter[m] = "none"
    BY <2>2, WindowAssumption DEF ReportInv, UndecidedParts
  <2>4. /\ \A m \in Runs : reporter'[m] = "none"
        /\ \A q \in Runs \ {r} : report'[q] = report[q] /\ pc'[q] = pc[q]
        /\ report'[r] = 0 /\ pc'[r] \in {"calling", "done"}
    BY <2>1, <2>2, <2>3
      DEF TypeOK, RunType, HistoryType, Decide, Unlock, HeldOf
  <2>5. \A q \in Runs : report[q] = 0
    <3>1. \A q \in Runs : ReportedBy(q) = {}
      BY <2>3 DEF ReportedBy
    <3>2. QED
      BY <3>1, FS_EmptySet DEF ReportInv, MutesReported, ReportedBy
  <2>6. \A q \in Runs : report'[q] = Cardinality(ReportedBy(q)')
    <3>1. \A q \in Runs : ReportedBy(q)' = {}
      BY <2>3, <2>4 DEF ReportedBy
    <3>2. QED
      BY <2>4, <2>5, <3>1, FS_EmptySet
  <2>7. UndecidedParts'
    BY <2>4, <2>5 DEF UndecidedParts
  <2>8. MutesReported'
    BY <2>2, <2>4, <2>6 DEF MutesReported, ReportedBy
  <2>9. QED
    BY <2>7, <2>8 DEF ReportInv
<1>2. CASE RateLimit(r)
  <2> DEFINE n == IF RollsOver(r) THEN dropped ELSE 0
             v == IF Counted(r) > First THEN "mute" ELSE "pass"
             base == IF RollsOver(r) THEN 0 ELSE dropped
  <2>1. /\ n \in Nat /\ v \in {"pass", "mute"} /\ Decide(r, v, n)
        /\ kind = "RateLimit" /\ known' = Remember(r)
        /\ dropped' = base + (IF v = "mute" THEN 1 ELSE 0)
    BY <1>0, <1>2 DEF RateLimit
  <2>2. /\ k = All /\ ~Evicts(r) /\ kind' = kind
        /\ known' = known \cup {k}
    BY <1>0, <2>1 DEF KeysOfKind, Evicts, Remember, Decide
  <2>3. dropped = Cardinality(HeldOf(k))
    BY <2>1, <2>2 DEF ReportInv, MutesReported
  <2>4. n = 0 \/ n = Cardinality(HeldOf(k))
    BY <2>3
  <2>5. base = IF n > 0 THEN 0 ELSE Cardinality(HeldOf(k))
    BY <1>0, <2>3
  <2> HIDE DEF n, v, base
  <2>6. dropped' = Cardinality(HeldOf(k)')
    <3>1. Cardinality(HeldOf(k)) \in Nat
      BY SetsAreFinite
    <3>2. CASE n > 0
      BY <1>0, <2>1, <2>2, <2>5, <3>2, DecideHolds
    <3>3. CASE n = 0 /\ v = "mute"
      BY <1>0, <2>1, <2>2, <2>5, <3>1, <3>3, DecideHolds
    <3>4. CASE n = 0 /\ v = "pass"
      BY <1>0, <2>1, <2>2, <2>5, <3>1, <3>4, DecideHolds
    <3>5. QED
      BY <2>1, <3>2, <3>3, <3>4
  <2>7. HeldOf(All)' = HeldOf(k)'
    BY <2>1, <2>2, DecideFacts
  <2>8. /\ UndecidedParts'
        /\ \A q \in Runs : report'[q] = Cardinality(ReportedBy(q)')
        /\ \A m \in Runs :
              /\ verdict'[m] = "mute" /\ kind' # "Sample" => reporter'[m] # "none"
              /\ reporter'[m] = "held" => key'[m] \in known'
              /\ reporter'[m] = "lost" => evictions' > 0
    <3>1. k \in known' /\ known \subseteq known'
      BY <2>2
    <3>2. QED
      BY <1>0, <2>1, <2>2, <2>4, <3>1, DecideReports
  <2>9. kind' = "RateLimit" /\ dropped' = Cardinality(HeldOf(All)')
    BY <2>1, <2>2, <2>6, <2>7
  <2>10. QED
    BY <2>8, <2>9 DEF ReportInv, MutesReported, ReportedBy
<1>3. CASE Dedup(r)
  <2>1. kind = "Dedup" /\ \A q \in known : count[q] = Cardinality(HeldOf(q))
    BY <1>3 DEF Dedup, DedupNew, DedupAgain, DedupSuppress, ReportInv, MutesReported
  <2>2. kind' = "Dedup"
    BY <1>3, <2>1 DEF Dedup, DedupNew, DedupAgain, DedupSuppress, Decide
  <2>3. \A q : Cardinality(HeldOf(q)) \in Nat
    BY SetsAreFinite
  <2>4. CASE DedupNew(r)
    <3>1. /\ Decide(r, "pass", 0) /\ known' = Remember(r) /\ k \notin known
          /\ count' = [count EXCEPT ![k] = 0]
      BY <2>4 DEF DedupNew
    <3>2. ASSUME NEW q \in known' PROVE count'[q] = Cardinality(HeldOf(q)')
      <4>1. CASE Evicts(r)
        <5>1. q = k /\ count'[k] = 0
          BY <1>0, <3>1, <3>2, <4>1 DEF Remember
        <5>2. HeldOf(q)' = {}
          BY <1>0, <2>1, <3>1, <4>1, DecideHolds
        <5>3. QED
          BY <5>1, <5>2, FS_EmptySet
      <4>2. CASE ~Evicts(r) /\ q # k
        BY <1>0, <2>1, <3>1, <3>2, <4>2, DecideHolds DEF Remember
      <4>3. CASE ~Evicts(r) /\ q = k
        <5>1. HeldOf(k) = {}
          BY <3>1 DEF ReportInv, MutesReported, HeldOf
        <5>2. HeldOf(k)' = {}
          BY <1>0, <2>1, <3>1, <4>3, <5>1, DecideHolds
        <5>3. HeldOf(q)' = HeldOf(k)'
          BY <3>1, <4>3 DEF HeldOf, Decide, localVars
        <5>4. QED
          BY <1>0, <3>1, <4>3, <5>2, <5>3, FS_EmptySet
      <4>4. QED
        BY <4>1, <4>2, <4>3
    <3>3. k \in known' /\ (known \subseteq known' \/ Evicts(r))
      BY <3>1 DEF Remember
    <3>4. QED
      BY <1>0, <2>2, <3>1, <3>2, <3>3, DecideReports
        DEF ReportInv, MutesReported, ReportedBy
  <2>5. CASE DedupAgain(r)
    <3>1. /\ Decide(r, "pass", count[k]) /\ known' = known /\ k \in known
          /\ count' = [count EXCEPT ![k] = 0]
          /\ count[k] \in Nat /\ count[k] = Cardinality(HeldOf(k)) /\ ~Evicts(r)
      BY <1>0, <2>1, <2>5 DEF DedupAgain, RollsOver, Evicts
    <3>2. ASSUME NEW q \in known' PROVE count'[q] = Cardinality(HeldOf(q)')
      <4>1. CASE q # k
        BY <1>0, <2>1, <3>1, <3>2, <4>1, DecideHolds
      <4>2. CASE q = k
        <5>1. HeldOf(q)' = HeldOf(k)'
          BY <3>1, <4>2 DEF HeldOf, Decide, localVars
        <5>2. CASE count[k] > 0
          BY <1>0, <2>1, <3>1, <4>2, <5>1, <5>2, DecideHolds
        <5>3. CASE count[k] = 0
          BY <1>0, <2>1, <3>1, <4>2, <5>1, <5>3, DecideHolds
        <5>4. QED
          BY <3>1, <5>2, <5>3
      <4>3. QED
        BY <4>1, <4>2
    <3>3. QED
      BY <1>0, <2>2, <3>1, <3>2, DecideReports DEF ReportInv, MutesReported, ReportedBy
  <2>6. CASE DedupSuppress(r)
    <3>1. /\ Decide(r, "mute", 0) /\ known' = known /\ k \in known
          /\ count' = [count EXCEPT ![k] = @ + 1]
          /\ count[k] = Cardinality(HeldOf(k)) /\ ~Evicts(r)
      BY <1>0, <2>1, <2>6 DEF DedupSuppress, Fresh, Evicts
    <3>2. ASSUME NEW q \in known' PROVE count'[q] = Cardinality(HeldOf(q)')
      <4>1. CASE q # k
        BY <1>0, <2>1, <3>1, <3>2, <4>1, DecideHolds
      <4>2. CASE q = k
        <5>1. HeldOf(q)' = HeldOf(k)'
          BY <3>1, <4>2 DEF HeldOf, Decide, localVars
        <5>2. QED
          BY <1>0, <2>1, <3>1, <4>2, <5>1, DecideHolds
      <4>3. QED
        BY <4>1, <4>2
    <3>3. QED
      BY <1>0, <2>2, <3>1, <3>2, DecideReports DEF ReportInv, MutesReported, ReportedBy
  <2>7. QED
    BY <1>3, <2>4, <2>5, <2>6 DEF Dedup
<1>4. QED
  BY <1>1, <1>2, <1>3

LEMMA ReportStep == TypeOK /\ ReportInv /\ [Next]_vars => ReportInv'
<1> SUFFICES ASSUME TypeOK, ReportInv, [Next]_vars PROVE ReportInv'
  OBVIOUS
<1>1. CASE \E r \in Runs : Sample(r) \/ RateLimit(r) \/ Dedup(r)
  BY <1>1, ReportDecision
<1>2. ASSUME UNCHANGED <<kind, instanceVars, decisionVars>>,
             \A m \in Runs : reporter[m] = "held" => key'[m] = key[m],
             \A m \in Runs : key'[m] # key[m] => reporter[m] = "none",
             \A m \in Runs : pc'[m] \in Undecided => pc[m] \in Undecided
      PROVE  ReportInv'
  <2>1. \A k : HeldOf(k)' = HeldOf(k)
    BY <1>2 DEF HeldOf, decisionVars
  <2>2. UndecidedParts'
    BY <1>2 DEF ReportInv, UndecidedParts, decisionVars
  <2>3. UNCHANGED <<kind, known, count, dropped, report, reporter, verdict, evictions>>
    BY <1>2 DEF instanceVars, decisionVars
  <2>4. MutesReported'
    BY <1>2, <2>1, <2>3 DEF ReportInv, MutesReported
  <2>5. QED
    BY <2>2, <2>4 DEF ReportInv
<1>3. ASSUME NEW s \in Runs, NEW place, Begin(s, place),
             place = pc \/ \E q \in Runs : place = [pc EXCEPT ![q] = "logging"],
             UNCHANGED <<kind, instanceVars, decisionVars>>
      PROVE  ReportInv'
  <2>1. reporter[s] = "none" /\ pc[s] = "idle"
    BY <1>3 DEF Begin, ReportInv, UndecidedParts, Undecided
  <2>2. \A m \in Runs : m # s => key'[m] = key[m]
    BY <1>3, BeginFacts
  <2>3. \A m \in Runs : pc'[m] \in Undecided => pc[m] \in Undecided
    BY <1>3, <2>1 DEF TypeOK, RunType, Begin, Undecided
  <2>4. QED
    BY <1>2, <1>3, <2>1, <2>2, <2>3
<1>4. CASE \E r \in Runs : Run(r) \/ CallbackLogs(r)
  BY <1>3, <1>4 DEF Run, CallbackLogs
<1>5. CASE \E r \in Runs : Lock(r) \/ CallbackQuiet(r) \/ CallbackReturns(r)
  <2>1. \A m \in Runs : pc'[m] \in Undecided => pc[m] \in Undecided
    BY <1>5 DEF Lock, CallbackQuiet, CallbackReturns, TypeOK, RunType, Undecided
  <2>2. UNCHANGED <<kind, instanceVars, localVars, decisionVars>>
    BY <1>5 DEF Lock, CallbackQuiet, CallbackReturns
  <2>3. QED
    BY <1>2, <2>1, <2>2 DEF localVars
<1>6. CASE Tick \/ UNCHANGED vars
  BY <1>2, <1>6 DEF Tick, vars, localVars
<1>7. QED
  BY <1>1, <1>4, <1>5, <1>6 DEF Next, Goes, Callback

\* Every report counts the messages muted since the one before, no more and no
\* fewer, and nothing muted goes unreported but by an eviction.
THEOREM ReportsAreExact == Spec => []MutesReported
<1>1. Init => ReportInv
  <2> SUFFICES ASSUME Init PROVE ReportInv
    OBVIOUS
  <2>1. /\ \A m \in Runs : reporter[m] = "none" /\ verdict[m] = "none" /\ report[m] = 0
        /\ known = {} /\ dropped = 0
    BY DEF Init
  <2>2. \A k : HeldOf(k) = {}
    BY <2>1 DEF HeldOf
  <2>3. \A r \in Runs : ReportedBy(r) = {}
    BY <2>1, WindowAssumption DEF ReportedBy
  <2>4. QED
    BY <2>1, <2>2, <2>3, FS_EmptySet
      DEF ReportInv, UndecidedParts, MutesReported, ReportedBy
<1>2. ReportInv => MutesReported
  BY DEF ReportInv
<1>3. QED
  BY <1>1, <1>2, ReportStep, TypeCorrect, PTL DEF Spec

----------------------------------------------------------------------------
(* Measured: each critical section counts its message in the window of its *)
(* key, a new one when the key is fresh, and what it decides depends on the *)
(* rank of the message in its window alone.                                *)

Settled(r) == verdict[r] # "none"

\* The messages in the window of a key.
InWindow(k) == IF kind = "Dedup" THEN count[k] + 1 ELSE count[k]

Rank(r) == IF Fresh(r) THEN 1 ELSE InWindow(key[r]) + 1

Passing(n) ==
    IF kind = "Dedup" THEN n = 1
    ELSE IF kind = "RateLimit" THEN n <= First ELSE SamplePasses(n)

\* What the critical sections do to the instance, and decide.
LEMMA Counting ==
    ASSUME TypeOK, NEW r \in Runs, Sample(r) \/ RateLimit(r) \/ Dedup(r)
    PROVE  /\ known' = Remember(r)
           /\ start' = IF Fresh(r) THEN [start EXCEPT ![key[r]] = now[r]] ELSE start
           /\ \A k \in AllKeys :
                 InWindow(k)' = IF k = key[r] THEN Rank(r) ELSE InWindow(k)
           /\ verdict'[r] = IF Passing(Rank(r)) THEN "pass" ELSE "mute"
<1>0. /\ key[r] \in AllKeys /\ key[r] \in KeysOfKind
      /\ start \in [AllKeys -> Nat] /\ count \in [AllKeys -> Nat]
      /\ verdict \in [Runs -> {"none", "pass", "mute"}]
  BY DecisionTypes DEF TypeOK, RunType, InstanceType, HistoryType, Places
<1>1. kind' = kind
  BY DecisionTypes, DecideTypes
<1>2. CASE Sample(r)
  <2>1. Rank(r) = Counted(r)
    BY <1>2 DEF Sample, Rank, Counted, InWindow
  <2>2. Passing(Rank(r)) = SamplePasses(Counted(r))
    BY <1>2, <2>1 DEF Sample, Passing
  <2>3. verdict'[r] = IF SamplePasses(Counted(r)) THEN "pass" ELSE "mute"
    BY <1>0, <1>2 DEF Sample, Decide
  <2>4. known' = Remember(r) /\ kind = "Sample"
    BY <1>2 DEF Sample
  <2>5. start' = IF Fresh(r) THEN [start EXCEPT ![key[r]] = now[r]] ELSE start
    BY <1>0, <1>2 DEF Sample
  <2>6. count' = [count EXCEPT ![key[r]] = Rank(r)]
    BY <1>2, <2>1 DEF Sample
  <2>7. QED
    BY <1>0, <1>1, <2>2, <2>3, <2>4, <2>5, <2>6 DEF InWindow
<1>3. CASE RateLimit(r)
  <2>0. kind = "RateLimit" /\ key[r] = All
    BY <1>0, <1>3 DEF RateLimit, KeysOfKind
  <2>1. Rank(r) = Counted(r) /\ Counted(r) \in Nat
    BY <2>0, CountedType DEF Rank, Counted, InWindow
  <2>2. Passing(Rank(r)) <=> ~(Counted(r) > First)
    BY <2>0, <2>1, WindowAssumption DEF Passing
  <2>3. verdict'[r] = IF Counted(r) > First THEN "mute" ELSE "pass"
    BY <1>0, <1>3 DEF RateLimit, Decide
  <2>4. known' = Remember(r)
    BY <1>3 DEF RateLimit
  <2>5. start' = IF Fresh(r) THEN [start EXCEPT ![key[r]] = now[r]] ELSE start
    BY <1>0, <1>3, <2>0 DEF RateLimit
  <2>6. count' = [count EXCEPT ![key[r]] = Rank(r)]
    BY <1>3, <2>0, <2>1 DEF RateLimit
  <2>7. QED
    BY <1>0, <1>1, <2>0, <2>2, <2>3, <2>4, <2>5, <2>6 DEF InWindow
<1>4. CASE DedupNew(r)
  <2>1. /\ kind = "Dedup" /\ Fresh(r) /\ known' = Remember(r)
        /\ start' = [start EXCEPT ![key[r]] = now[r]]
        /\ count' = [count EXCEPT ![key[r]] = 0]
        /\ Decide(r, "pass", 0)
    BY <1>4 DEF DedupNew, Fresh
  <2>2. verdict'[r] = "pass" /\ Rank(r) = 1 /\ Passing(Rank(r))
    BY <1>0, <2>1 DEF Decide, Rank, Passing
  <2>3. QED
    BY <1>0, <1>1, <2>1, <2>2 DEF InWindow
<1>5. CASE DedupAgain(r)
  <2>1. /\ kind = "Dedup" /\ Fresh(r) /\ known' = Remember(r)
        /\ start' = [start EXCEPT ![key[r]] = now[r]]
        /\ count' = [count EXCEPT ![key[r]] = 0]
        /\ Decide(r, "pass", count[key[r]])
    BY <1>5 DEF DedupAgain, Fresh, RollsOver, Remember, Evicts
  <2>2. verdict'[r] = "pass" /\ Rank(r) = 1 /\ Passing(Rank(r))
    BY <1>0, <2>1 DEF Decide, Rank, Passing
  <2>3. QED
    BY <1>0, <1>1, <2>1, <2>2 DEF InWindow
<1>6. CASE DedupSuppress(r)
  <2>1. /\ kind = "Dedup" /\ ~Fresh(r) /\ known' = Remember(r) /\ start' = start
        /\ count' = [count EXCEPT ![key[r]] = count[key[r]] + 1]
        /\ Decide(r, "mute", 0)
    BY <1>6 DEF DedupSuppress, Fresh, Remember, Evicts
  <2>2. verdict'[r] = "mute" /\ Rank(r) = count[key[r]] + 2 /\ ~Passing(Rank(r))
    BY <1>0, <2>1 DEF Decide, Rank, Passing, InWindow
  <2>3. QED
    BY <1>0, <1>1, <2>1, <2>2 DEF InWindow
<1>7. QED
  BY <1>2, <1>3, <1>4, <1>5, <1>6 DEF Dedup

\* What a decision writes down.
LEMMA Chronicles ==
    ASSUME TypeOK, NEW r \in Runs, Sample(r) \/ RateLimit(r) \/ Dedup(r)
    PROVE  /\ kind' = kind /\ clock' = clock /\ key' = key /\ now' = now
           /\ ~Settled(r) /\ Settled(r)'
           /\ decided' = decided + 1 /\ order'[r] = decided + 1
           /\ evictions' = evictions + (IF Evicts(r) THEN 1 ELSE 0)
           /\ epoch'[r] = evictions' /\ at'[r] = clock
           /\ \A q \in Runs \ {r} :
                 /\ verdict'[q] = verdict[q] /\ order'[q] = order[q]
                 /\ epoch'[q] = epoch[q] /\ at'[q] = at[q]
<1>1. PICK v \in {"pass", "mute"}, n \in Nat : Decide(r, v, n)
  BY DecisionTypes
<1>2. clock' = clock
  BY <1>1 DEF Decide
<1>3. at'[r] = clock /\ \A q \in Runs \ {r} : at'[q] = at[q]
  BY <1>1 DEF TypeOK, HistoryType, Decide
<1>4. ~Settled(r)
  BY DecisionTypes DEF TypeOK, Places, Undecided, Settled
<1>5. QED
  BY <1>1, <1>2, <1>3, <1>4, DecideFacts DEF Settled

\* The numbers of the history never run ahead; a key is known when a message
\* of it has been decided since the last eviction.
Chronicle ==
    /\ \A r \in Runs : now[r] <= clock /\ order[r] <= decided /\ epoch[r] <= evictions
    /\ \A k \in AllKeys : start[k] <= clock
    /\ known = {key[r] : r \in {q \in Runs : Settled(q) /\ epoch[q] = evictions}}

LEMMA ChronicleDecision ==
    ASSUME TypeOK, Chronicle, NEW r \in Runs, Sample(r) \/ RateLimit(r) \/ Dedup(r)
    PROVE  Chronicle'
<1>0. /\ key[r] \in AllKeys /\ decided \in Nat /\ evictions \in Nat /\ clock \in Nat
      /\ start \in [AllKeys -> Nat] /\ order \in [Runs -> Nat] /\ epoch \in [Runs -> Nat]
  BY DEF TypeOK, RunType, InstanceType, HistoryType
<1>1. \A q \in Runs : now'[q] <= clock' /\ order'[q] <= decided' /\ epoch'[q] <= evictions'
  <2> TAKE q \in Runs
  <2>1. CASE q = r
    BY <1>0, <2>1, Chronicles DEF Chronicle
  <2>2. CASE q # r
    BY <1>0, <2>2, Chronicles DEF Chronicle
  <2>3. QED
    BY <2>1, <2>2
<1>2. \A k \in AllKeys : start'[k] <= clock'
  BY <1>0, Chronicles, Counting DEF Chronicle
<1>3. ASSUME NEW k
      PROVE  k \in known' <=>
                 \E q \in Runs : Settled(q)' /\ epoch'[q] = evictions' /\ key'[q] = k
  <2>1. CASE Evicts(r)
    <3>1. known' = {key[r]}
      BY <2>1, Counting DEF Remember
    <3>2. \A q \in Runs \ {r} : epoch'[q] # evictions'
      BY <1>0, <2>1, Chronicles DEF Chronicle
    <3>3. QED
      BY <3>1, <3>2, Chronicles
  <2>2. CASE ~Evicts(r)
    <3>1. known' = known \cup {key[r]} /\ evictions' = evictions
      BY <1>0, <2>2, Counting, Chronicles DEF Remember
    <3>2. \A q \in Runs \ {r} : /\ Settled(q)' <=> Settled(q)
                                /\ epoch'[q] = epoch[q] /\ key'[q] = key[q]
      BY Chronicles DEF Settled
    <3>3. k \in known <=> \E q \in Runs : Settled(q) /\ epoch[q] = evictions /\ key[q] = k
      BY DEF Chronicle
    <3>4. QED
      BY <3>1, <3>2, <3>3, Chronicles
  <2>3. QED
    BY <2>1, <2>2
<1>4. known' = {key'[q] : q \in {p \in Runs : Settled(p)' /\ epoch'[p] = evictions'}}
  BY <1>3
<1>5. QED
  BY <1>1, <1>2, <1>4 DEF Chronicle

\* The steps that decide nothing leave everything about the decided messages,
\* but the clock, as it was.
LEMMA Otherwise ==
    ASSUME TypeOK, Chronicle, [Next]_vars,
           ~ \E r \in Runs : Sample(r) \/ RateLimit(r) \/ Dedup(r)
    PROVE  /\ Chronicle'
           /\ clock <= clock'
           /\ UNCHANGED <<kind, instanceVars, decisionVars>>
           /\ \A q \in Runs : Settled(q) => key'[q] = key[q] /\ now'[q] = now[q]
<1>0. clock \in Nat /\ now \in [Runs -> Nat] /\ start \in [AllKeys -> Nat]
  BY DEF TypeOK, InstanceType, RunType
<1>1. ASSUME clock <= clock', UNCHANGED <<kind, instanceVars, decisionVars>>,
             \A q \in Runs : /\ Settled(q) => key'[q] = key[q] /\ now'[q] = now[q]
                             /\ now'[q] \in {now[q], clock'},
             clock' \in Nat
      PROVE  Chronicle'
  <2>1. \A q \in Runs : now'[q] <= clock' /\ order'[q] <= decided' /\ epoch'[q] <= evictions'
    BY <1>0, <1>1 DEF Chronicle, decisionVars
  <2>2. \A k \in AllKeys : start'[k] <= clock'
    BY <1>0, <1>1 DEF Chronicle, instanceVars
  <2>3. known' = {key'[q] : q \in {p \in Runs : Settled(p)' /\ epoch'[p] = evictions'}}
    BY <1>1 DEF Chronicle, instanceVars, decisionVars, Settled
  <2>4. QED
    BY <2>1, <2>2, <2>3 DEF Chronicle
<1>2. CASE \E s \in Runs : \E place : Begin(s, place) /\
               UNCHANGED <<kind, clock, instanceVars, decisionVars>>
  <2>1. PICK s \in Runs : /\ \E place : Begin(s, place)
                          /\ UNCHANGED <<kind, clock, instanceVars, decisionVars>>
    BY <1>2
  <2>2. \A q \in Runs : Settled(q) => key'[q] = key[q] /\ now'[q] = now[q]
    BY <2>1, BeginFacts DEF Settled
  <2>3. \A q \in Runs : now'[q] \in {now[q], clock}
    BY <1>0, <2>1 DEF Begin
  <2>4. QED
    BY <1>0, <1>1, <2>1, <2>2, <2>3
<1>3. CASE clock' \in {clock, clock + 1} /\
           UNCHANGED <<kind, instanceVars, localVars, decisionVars>>
  <2>1. clock <= clock' /\ clock' \in Nat
    BY <1>0, <1>3
  <2>2. QED
    BY <1>1, <1>3, <2>1 DEF localVars
<1>4. QED
  BY <1>2, <1>3
    DEF Next, Goes, Callback, Tick, Lock, Run, CallbackLogs, CallbackQuiet,
        CallbackReturns, vars

----------------------------------------------------------------------------
(* No message is muted without cause: the messages that passed in the      *)
(* window of a key are as many as it has, or at least what it allows.      *)

\* The passes in the window of a key.
Causes(k) == {p \in Runs : verdict[p] = "pass" /\ key[p] = k /\ at[p] >= start[k]}

CauseInv ==
    \A k \in known : \/ Cardinality(Causes(k)) >= Allowance
                     \/ Cardinality(Causes(k)) >= InWindow(k)

LEMMA RunSets == \A S \in SUBSET Runs : IsFiniteSet(S) /\ Cardinality(S) \in Nat
  BY WindowAssumption, FS_Subset, FS_CardinalityType

\* One more of the runs.
LEMMA OneMore ==
    ASSUME NEW S \in SUBSET Runs, NEW r \in Runs \ S
    PROVE  Cardinality(S \cup {r}) = Cardinality(S) + 1
  BY RunSets, FS_AddElement

LEMMA Fewer ==
    ASSUME NEW S \in SUBSET Runs, NEW T \in SUBSET S
    PROVE  Cardinality(T) <= Cardinality(S)
  BY RunSets, FS_Subset

\* The first message of a window passes, where any does; a later one that is
\* muted comes when the window has let pass all it allows.
LEMMA Ranks ==
    ASSUME kind \in Kinds, NEW n \in Nat
    PROVE  /\ Allowance \in Nat
           /\ ~Passing(1) => Allowance = 0
           /\ ~Passing(n + 1) => n >= Allowance
  BY KindsAre, WindowAssumption DEF Allowance, Passing, SamplePasses

LEMMA CauseDecision ==
    ASSUME TypeOK, Chronicle, CauseInv, NEW r \in Runs,
           Sample(r) \/ RateLimit(r) \/ Dedup(r)
    PROVE  CauseInv'
<1>0. /\ key[r] \in AllKeys /\ key[r] \in KeysOfKind
      /\ clock \in Nat /\ now \in [Runs -> Nat] /\ at \in [Runs -> Nat]
      /\ start \in [AllKeys -> Nat] /\ count \in [AllKeys -> Nat]
      /\ kind \in Kinds /\ known \subseteq AllKeys
  BY DecisionTypes, KeysAre DEF TypeOK, RunType, InstanceType, HistoryType, Places
<1>1. \A k \in AllKeys : InWindow(k) \in Nat
  BY <1>0 DEF InWindow
<1>2. Allowance' = Allowance /\ Allowance \in Nat
  BY <1>0, Ranks, Chronicles DEF Allowance
<1>3. ASSUME NEW k \in known'
      PROVE  \/ Cardinality(Causes(k)') >= Allowance
             \/ Cardinality(Causes(k)') >= InWindow(k)'
  <2>1. Causes(k) \in SUBSET Runs /\ Causes(k)' \in SUBSET Runs
    BY DEF Causes
  <2>2. CASE k # key[r]
    <3>1. k \in known /\ ~Evicts(r)
      BY <1>3, <2>2, Counting DEF Remember
    <3>2. start'[k] = start[k] /\ InWindow(k)' = InWindow(k)
      BY <1>0, <2>2, <3>1, Counting
    <3>3. Causes(k)' = Causes(k)
      BY <2>2, <3>2, Chronicles DEF Causes
    <3>4. QED
      BY <3>1, <3>2, <3>3 DEF CauseInv
  <2>3. CASE k = key[r] /\ Fresh(r)
    <3>1. start'[k] = now[r] /\ InWindow(k)' = 1 /\ Rank(r) = 1
      BY <1>0, <2>3, Counting DEF Rank
    <3>2. CASE Passing(1)
      <4>1. verdict'[r] = "pass" /\ key'[r] = k /\ at'[r] >= start'[k]
        BY <1>0, <2>3, <3>1, <3>2, Counting, Chronicles DEF Chronicle
      <4>2. {r} \in SUBSET Causes(k)'
        BY <4>1 DEF Causes
      <4>3. QED
        BY <2>1, <3>1, <4>2, RunSets, Fewer, FS_Singleton
    <3>3. CASE ~Passing(1)
      BY <1>0, <1>2, <2>1, <3>3, Ranks, RunSets
    <3>4. QED
      BY <3>2, <3>3
  <2>4. CASE k = key[r] /\ ~Fresh(r)
    <3>1. /\ start' = start /\ InWindow(k)' = InWindow(k) + 1 /\ k \in known
          /\ Rank(r) = InWindow(k) + 1
      BY <1>0, <2>4, Counting DEF Rank, Fresh
    <3>2. at'[r] >= start'[k]
      BY <1>0, <2>4, <3>1, Chronicles DEF Chronicle
    <3>3. Causes(k)' = Causes(k) \cup (IF Passing(Rank(r)) THEN {r} ELSE {})
      BY <2>4, <3>1, <3>2, Counting, Chronicles DEF Causes, Settled
    <3>4. r \notin Causes(k)
      BY Chronicles DEF Causes, Settled
    <3>5. \/ Cardinality(Causes(k)) >= Allowance
          \/ Cardinality(Causes(k)) >= InWindow(k)
      BY <3>1 DEF CauseInv
    <3>6. InWindow(k) \in Nat /\ Cardinality(Causes(k)) \in Nat
      BY <1>0, <1>1, <2>1, <2>4, RunSets
    <3>7. CASE Passing(Rank(r))
      BY <1>2, <2>1, <3>1, <3>3, <3>4, <3>5, <3>6, <3>7, OneMore
    <3>8. CASE ~Passing(Rank(r))
      <4>1. InWindow(k) >= Allowance
        BY <1>0, <3>1, <3>6, <3>8, Ranks
      <4>2. Causes(k)' = Causes(k)
        BY <3>3, <3>8
      <4>3. QED
        BY <1>2, <3>5, <3>6, <4>1, <4>2
    <3>9. QED
      BY <3>7, <3>8
  <2>5. QED
    BY <2>2, <2>3, <2>4
<1>4. QED
  BY <1>2, <1>3 DEF CauseInv

\* What the message of r is muted for, if it is.
LEMMA CauseNow ==
    ASSUME TypeOK, Chronicle, CauseInv, NEW r \in Runs,
           Sample(r) \/ RateLimit(r) \/ Dedup(r), verdict'[r] = "mute"
    PROVE  Cardinality({p \in Runs : /\ Like(p, r)'
                                     /\ verdict'[p] = "pass"
                                     /\ order'[p] < order'[r]
                                     /\ Window = 0 \/ now'[r] - at'[p] < Window})
               >= Allowance
<1>0. /\ key[r] \in AllKeys
      /\ clock \in Nat /\ now \in [Runs -> Nat] /\ at \in [Runs -> Nat]
      /\ start \in [AllKeys -> Nat] /\ count \in [AllKeys -> Nat]
      /\ order \in [Runs -> Nat] /\ decided \in Nat
      /\ kind \in Kinds /\ Window \in Nat
  BY WindowAssumption DEF TypeOK, RunType, InstanceType, HistoryType
<1>1. PICK P : P = {p \in Runs : /\ Like(p, r)'
                                 /\ verdict'[p] = "pass"
                                 /\ order'[p] < order'[r]
                                 /\ Window = 0 \/ now'[r] - at'[p] < Window}
  OBVIOUS
<1>2. ~Passing(Rank(r)) /\ P \in SUBSET Runs
  BY <1>1, Counting
<1>3. CASE Fresh(r)
  BY <1>0, <1>2, <1>3, Ranks, RunSets DEF Rank
<1>4. CASE ~Fresh(r)
  <2>1. /\ key[r] \in known /\ Rank(r) = InWindow(key[r]) + 1
        /\ InWindow(key[r]) \in Nat
    BY <1>0, <1>4 DEF Fresh, Rank, InWindow
  <2>2. InWindow(key[r]) >= Allowance /\ Allowance \in Nat
    BY <1>0, <1>2, <2>1, Ranks
  <2>3. Cardinality(Causes(key[r])) >= Allowance
    <3>1. Cardinality(Causes(key[r])) \in Nat
      BY RunSets DEF Causes
    <3>2. QED
      BY <2>1, <2>2, <3>1 DEF CauseInv
  <2>4. Window = 0 \/ now[r] - start[key[r]] < Window
    BY <1>0, <1>4, <2>1 DEF Fresh, RollsOver, Elapsed
  <2>5. ASSUME NEW p \in Causes(key[r]) PROVE p \in P
    <3>1. /\ p \in Runs \ {r} /\ verdict[p] = "pass" /\ key[p] = key[r]
          /\ at[p] >= start[key[r]]
      BY <2>5, Chronicles DEF Causes, Settled
    <3>2. verdict'[p] = "pass" /\ Like(p, r)'
      BY <3>1, Chronicles DEF Like
    <3>3. order'[p] < order'[r]
      BY <1>0, <3>1, Chronicles DEF Chronicle
    <3>4. Window = 0 \/ now'[r] - at'[p] < Window
      BY <1>0, <2>4, <3>1, Chronicles
    <3>5. QED
      BY <1>1, <3>1, <3>2, <3>3, <3>4
  <2>6. Causes(key[r]) \in SUBSET P
    BY <2>5
  <2>7. Cardinality(Causes(key[r])) <= Cardinality(P)
    BY <1>2, <2>6, Fewer
  <2>8. Cardinality(Causes(key[r])) \in Nat /\ Cardinality(P) \in Nat
    BY <1>2, RunSets DEF Causes
  <2>9. QED
    BY <1>1, <2>2, <2>3, <2>7, <2>8
<1>5. QED
  BY <1>3, <1>4

LEMMA CauseStep ==
    TypeOK /\ Chronicle /\ CauseInv /\ MutedForCause /\ [Next]_vars
        => CauseInv' /\ MutedForCause'
<1> SUFFICES ASSUME TypeOK, Chronicle, CauseInv, MutedForCause, [Next]_vars
             PROVE  CauseInv' /\ MutedForCause'
  OBVIOUS
<1>1. CASE \E r \in Runs : Sample(r) \/ RateLimit(r) \/ Dedup(r)
  <2>1. PICK r \in Runs : Sample(r) \/ RateLimit(r) \/ Dedup(r)
    BY <1>1
  <2>2. Allowance' = Allowance
    BY <2>1, Chronicles DEF Allowance
  <2>3. ASSUME NEW m \in Runs, verdict'[m] = "mute"
        PROVE  Cardinality({p \in Runs : /\ Like(p, m)'
                                         /\ verdict'[p] = "pass"
                                         /\ order'[p] < order'[m]
                                         /\ Window = 0 \/ now'[m] - at'[p] < Window})
                   >= Allowance
    <3>1. CASE m = r
      BY <2>1, <2>3, <3>1, CauseNow
    <3>2. CASE m # r
      <4>1. /\ verdict[m] = "mute" /\ order'[m] = order[m]
            /\ now'[m] = now[m] /\ key' = key
        BY <2>1, <2>3, <3>2, Chronicles
      <4>2. order[m] <= decided /\ order'[r] = decided + 1
            /\ order \in [Runs -> Nat] /\ decided \in Nat
        BY <2>1, Chronicles DEF Chronicle, TypeOK, HistoryType
      <4>3. ~(order'[r] < order'[m])
        BY <4>1, <4>2
      <4>4. ASSUME NEW p \in Runs
            PROVE  (/\ Like(p, m)'
                    /\ verdict'[p] = "pass"
                    /\ order'[p] < order'[m]
                    /\ Window = 0 \/ now'[m] - at'[p] < Window)
                   <=> (/\ Like(p, m)
                        /\ verdict[p] = "pass"
                        /\ order[p] < order[m]
                        /\ Window = 0 \/ now[m] - at[p] < Window)
        <5>1. CASE p = r
          BY <2>1, <4>3, <5>1, Chronicles DEF Settled
        <5>2. CASE p # r
          BY <2>1, <4>1, <5>2, Chronicles DEF Like
        <5>3. QED
          BY <5>1, <5>2
      <4>5. {p \in Runs : /\ Like(p, m)'
                          /\ verdict'[p] = "pass"
                          /\ order'[p] < order'[m]
                          /\ Window = 0 \/ now'[m] - at'[p] < Window}
            = {p \in Runs : /\ Like(p, m)
                            /\ verdict[p] = "pass"
                            /\ order[p] < order[m]
                            /\ Window = 0 \/ now[m] - at[p] < Window}
        BY <4>4
      <4>6. QED
        BY <4>1, <4>5 DEF MutedForCause
    <3>3. QED
      BY <3>1, <3>2
  <2>4. MutedForCause'
    BY <2>2, <2>3 DEF MutedForCause
  <2>5. QED
    BY <2>1, <2>4, CauseDecision
<1>2. CASE ~ \E r \in Runs : Sample(r) \/ RateLimit(r) \/ Dedup(r)
  <2>1. /\ UNCHANGED <<kind, instanceVars, decisionVars>>
        /\ \A q \in Runs : Settled(q) => key'[q] = key[q] /\ now'[q] = now[q]
    BY <1>2, Otherwise
  <2>2. \A k : Causes(k)' = Causes(k) /\ InWindow(k)' = InWindow(k)
    BY <2>1 DEF Causes, InWindow, Settled, instanceVars, decisionVars
  <2>3. CauseInv'
    BY <2>1, <2>2 DEF CauseInv, Allowance, instanceVars
  <2>4. ASSUME NEW m \in Runs, verdict[m] = "mute", NEW p \in Runs
        PROVE  Like(p, m)' <=> Like(p, m)
    BY <2>1, <2>4 DEF Like, Settled, decisionVars
  <2>5. MutedForCause'
    <3>1. \A m \in Runs : verdict[m] = "mute" => now'[m] = now[m]
      BY <2>1 DEF Settled
    <3>2. ASSUME NEW m \in Runs, verdict'[m] = "mute"
          PROVE  {p \in Runs : /\ Like(p, m)'
                               /\ verdict'[p] = "pass"
                               /\ order'[p] < order'[m]
                               /\ Window = 0 \/ now'[m] - at'[p] < Window}
                 = {p \in Runs : /\ Like(p, m)
                                 /\ verdict[p] = "pass"
                                 /\ order[p] < order[m]
                                 /\ Window = 0 \/ now[m] - at[p] < Window}
      BY <2>1, <2>4, <3>1, <3>2 DEF decisionVars
    <3>3. Allowance' = Allowance /\ verdict' = verdict
      BY <2>1 DEF Allowance, decisionVars
    <3>4. QED
      BY <3>2, <3>3 DEF MutedForCause
  <2>6. QED
    BY <2>3, <2>5
<1>3. QED
  BY <1>1, <1>2

----------------------------------------------------------------------------
(* No silence is long: the messages of a key muted in a row are those over *)
(* the last multiple of Thereafter.                                        *)

LEMMA Division ==
    ASSUME NEW a \in Nat, NEW b \in Nat \ {0}
    PROVE  \E q \in Nat, m \in 0..(b - 1) : q = a \div b /\ m = a % b /\ a = b * q + m
<1>1. a \div b \in Nat /\ a % b \in 0..(b - 1)
  OBVIOUS
<1>2. PICK q \in Nat, m \in 0..(b - 1) : q = a \div b /\ m = a % b
  BY <1>1
<1>3. a - m = b * q
  BY <1>2
<1>4. b * q \in Int
  OBVIOUS
<1>5. a = b * q + m
  BY <1>3, <1>4
<1>6. QED
  BY <1>2, <1>5

LEMMA Quotient ==
    ASSUME NEW a \in Nat, NEW b \in Nat \ {0}, NEW q \in Int, NEW m \in 0..(b - 1),
           a = b * q + m
    PROVE  q = a \div b /\ m = a % b
  OBVIOUS

\* One more.
LEMMA NextDivision ==
    ASSUME NEW a \in Nat, NEW b \in Nat \ {0}
    PROVE  /\ (a + 1) \div b = a \div b + (IF (a + 1) % b = 0 THEN 1 ELSE 0)
           /\ (a + 1) % b = IF (a % b) + 1 = b THEN 0 ELSE (a % b) + 1
<1>1. PICK q \in Nat, m \in 0..(b - 1) : q = a \div b /\ m = a % b /\ a = b * q + m
  BY Division
<1>2. PICK c \in Nat, p \in Int, n \in Nat : c = a + 1 /\ p = q + 1 /\ n = m + 1
  OBVIOUS
<1>3. CASE n = b
  <2>1. c = b * p + 0
    BY <1>1, <1>2, <1>3
  <2>2. p = c \div b /\ 0 = c % b
    BY <2>1, Quotient
  <2>3. QED
    BY <1>1, <1>2, <1>3, <2>2
<1>4. CASE n # b
  <2>1. c = b * q + n /\ n \in 0..(b - 1)
    BY <1>1, <1>2, <1>4
  <2>2. q = c \div b /\ n = c % b
    BY <2>1, Quotient
  <2>3. QED
    BY <1>1, <1>2, <1>4, <2>2
<1>5. QED
  BY <1>3, <1>4

Thinned == kind = "Sample" /\ Thereafter > 0

\* The messages muted since the last that passed, in a window of n.
Silent(n) == IF n <= First THEN 0 ELSE (n - First) % Thereafter

\* The messages of a key decided after p.
Later(p, k) == {q \in Runs : Settled(q) /\ key[q] = k /\ order[p] < order[q]}

SilenceInv ==
    Thinned /\ First > 0 =>
        \A k \in known : \E p \in Runs :
            /\ verdict[p] = "pass"
            /\ key[p] = k
            /\ Cardinality(Later(p, k)) <= Silent(InWindow(k))

\* One more message in the window: it passes, or is one more in a row.
LEMMA SilentStep ==
    ASSUME Thinned, NEW n \in Nat
    PROVE  /\ Silent(n) \in Nat
           /\ ~Passing(n + 1) => Silent(n + 1) = Silent(n) + 1 /\ Silent(n + 1) < Thereafter
<1>1. First \in Nat /\ Thereafter \in Nat \ {0}
  BY WindowAssumption DEF Thinned
<1>2. Passing(n + 1) <=> n + 1 <= First \/ (n + 1 - First) % Thereafter = 0
  BY <1>1 DEF Thinned, Passing, SamplePasses
<1>3. CASE n < First
  BY <1>1, <1>2, <1>3 DEF Silent
<1>4. CASE n >= First
  <2>1. PICK d \in Nat : d = n - First
    BY <1>1, <1>4
  <2>2. d % Thereafter \in Nat /\ d % Thereafter < Thereafter
    BY <1>1, <2>1, Division
  <2>3. n + 1 - First = d + 1 /\ n + 1 > First
    BY <1>1, <1>4, <2>1
  <2>4. (d + 1) % Thereafter =
            IF (d % Thereafter) + 1 = Thereafter THEN 0 ELSE (d % Thereafter) + 1
    BY <1>1, NextDivision
  <2>5. Silent(n) = d % Thereafter
    <3>1. CASE n = First
      <4>1. 0 % Thereafter = 0
        BY <1>1, Quotient
      <4>2. QED
        BY <1>1, <2>1, <3>1, <4>1 DEF Silent
    <3>2. CASE n > First
      BY <1>1, <2>1, <3>2 DEF Silent
    <3>3. QED
      BY <1>1, <1>4, <3>1, <3>2
  <2>6. Silent(n + 1) = (d + 1) % Thereafter
    BY <1>1, <2>3 DEF Silent
  <2>7. Passing(n + 1) <=> (d + 1) % Thereafter = 0
    BY <1>1, <1>2, <2>3
  <2>8. QED
    BY <1>1, <2>2, <2>4, <2>5, <2>6, <2>7
<1>5. QED
  BY <1>1, <1>3, <1>4

\* The decided messages of a key after p, and one more.
LEMMA LaterStep ==
    ASSUME TypeOK, Chronicle, NEW r \in Runs, Sample(r) \/ RateLimit(r) \/ Dedup(r),
           NEW k
    PROVE  /\ Later(r, k)' = {}
           /\ \A p \in Runs \ {r} :
                 /\ k = key[r] => Later(p, k)' = Later(p, k) \cup {r}
                 /\ k # key[r] => Later(p, k)' = Later(p, k)
           /\ \A p : r \notin Later(p, k)
<1>0. order \in [Runs -> Nat] /\ decided \in Nat
  BY DEF TypeOK, HistoryType
<1>1. \A q \in Runs : order[q] < order'[r]
  BY <1>0, Chronicles DEF Chronicle
<1>2. \A q \in Runs \ {r} : ~(order'[r] < order'[q])
  BY <1>0, <1>1, Chronicles
<1>3. Later(r, k)' = {}
  BY <1>0, <1>2, Chronicles DEF Later
<1>4. ASSUME NEW p \in Runs \ {r}
      PROVE  /\ k = key[r] => Later(p, k)' = Later(p, k) \cup {r}
             /\ k # key[r] => Later(p, k)' = Later(p, k)
  <2>1. order'[p] < order'[r]
    BY <1>1, Chronicles
  <2>2. QED
    BY <2>1, Chronicles DEF Later, Settled
<1>5. \A p : r \notin Later(p, k)
  BY Chronicles DEF Later
<1>6. QED
  BY <1>3, <1>4, <1>5

LEMMA SilenceDecision ==
    ASSUME TypeOK, Chronicle, SilenceInv, Thinned, First > 0, NEW r \in Runs,
           Sample(r) \/ RateLimit(r) \/ Dedup(r), NEW k \in known'
    PROVE  \E p \in Runs : /\ verdict'[p] = "pass"
                           /\ key'[p] = k
                           /\ Cardinality(Later(p, k)') <= Silent(InWindow(k)')
                           /\ k = key[r] /\ verdict'[r] = "mute" =>
                                 Cardinality(Later(p, k)') < Thereafter
<1>0. /\ key[r] \in AllKeys /\ key[r] \in KeysOfKind
      /\ count \in [AllKeys -> Nat] /\ known \subseteq AllKeys
  BY DecisionTypes, KeysAre DEF TypeOK, RunType, InstanceType, Places
<1>1. First \in Nat \ {0} /\ Thereafter \in Nat \ {0}
  BY WindowAssumption DEF Thinned
<1>2. \A j \in AllKeys : InWindow(j) \in Nat
  BY <1>0 DEF InWindow
<1>3. \A p : Later(p, k) \in SUBSET Runs
  BY DEF Later
<1>4. Cardinality({}) = 0
  BY FS_EmptySet
<1>5. CASE k # key[r]
  <2>1. k \in known /\ ~Evicts(r)
    BY <1>5, Counting DEF Remember
  <2>2. InWindow(k)' = InWindow(k)
    BY <1>0, <1>5, <2>1, Counting
  <2>3. PICK p \in Runs : /\ verdict[p] = "pass" /\ key[p] = k
                          /\ Cardinality(Later(p, k)) <= Silent(InWindow(k))
    BY <2>1 DEF SilenceInv
  <2>4. p # r
    BY <2>3, Chronicles DEF Settled
  <2>5. verdict'[p] = "pass" /\ key'[p] = k
    BY <2>3, <2>4, Chronicles
  <2>6. Later(p, k)' = Later(p, k)
    BY <1>5, <2>4, LaterStep
  <2>7. QED
    BY <1>5, <2>2, <2>3, <2>5, <2>6
<1>6. CASE k = key[r] /\ Passing(Rank(r))
  <2>1. verdict'[r] = "pass" /\ key'[r] = k /\ InWindow(k)' = Rank(r)
    BY <1>0, <1>6, Counting, Chronicles
  <2>2. Silent(Rank(r)) >= 0
    <3>1. Rank(r) \in Nat
      BY <1>0, <1>2 DEF Rank
    <3>2. QED
      BY <3>1, SilentStep
  <2>3. QED
    BY <1>4, <2>1, <2>2, LaterStep
<1>7. CASE k = key[r] /\ ~Passing(Rank(r))
  <2>1. Passing(1)
    BY <1>1 DEF Passing, SamplePasses, Thinned
  <2>2. /\ ~Fresh(r) /\ k \in known /\ Rank(r) = InWindow(k) + 1
        /\ InWindow(k)' = InWindow(k) + 1
    BY <1>0, <1>7, <2>1, Counting DEF Rank, Fresh
  <2>3. PICK p \in Runs : /\ verdict[p] = "pass" /\ key[p] = k
                          /\ Cardinality(Later(p, k)) <= Silent(InWindow(k))
    BY <2>2 DEF SilenceInv
  <2>4. p # r
    BY <2>3, Chronicles DEF Settled
  <2>5. /\ verdict'[p] = "pass" /\ key'[p] = k
        /\ Later(p, k)' = Later(p, k) \cup {r} /\ r \notin Later(p, k)
    BY <1>7, <2>3, <2>4, Chronicles, LaterStep
  <2>6. Cardinality(Later(p, k)') = Cardinality(Later(p, k)) + 1
    BY <1>3, <2>5, OneMore
  <2>7. /\ Silent(InWindow(k)) \in Nat
        /\ Silent(InWindow(k) + 1) = Silent(InWindow(k)) + 1
        /\ Silent(InWindow(k) + 1) < Thereafter
    BY <1>0, <1>2, <1>7, <2>2, SilentStep
  <2>8. Cardinality(Later(p, k)) \in Nat
    BY <1>3, RunSets
  <2>9. QED
    BY <1>1, <2>2, <2>3, <2>5, <2>6, <2>7, <2>8
<1>8. QED
  BY <1>5, <1>6, <1>7

\* The messages of a key after p, up to that of m.
Between(p, m) == {q \in Runs : /\ Like(q, m)
                               /\ order[p] < order[q]
                               /\ order[q] <= order[m]}

LEMMA SilenceStep ==
    TypeOK /\ Chronicle /\ SilenceInv /\ NoLongSilence /\ [Next]_vars
        => SilenceInv' /\ NoLongSilence'
<1> SUFFICES ASSUME TypeOK, Chronicle, SilenceInv, NoLongSilence, [Next]_vars
             PROVE  SilenceInv' /\ NoLongSilence'
  OBVIOUS
<1>1. CASE \E r \in Runs : Sample(r) \/ RateLimit(r) \/ Dedup(r)
  <2>1. PICK r \in Runs : Sample(r) \/ RateLimit(r) \/ Dedup(r)
    BY <1>1
  <2>0. /\ Thinned' = Thinned /\ \A n : Silent(n)' = Silent(n)
        /\ order \in [Runs -> Nat] /\ decided \in Nat
        /\ kind' = kind
    BY <2>1, Chronicles DEF Thinned, Silent, TypeOK, HistoryType
  <2>2. ASSUME Thinned, First > 0, NEW k \in known'
        PROVE  \E p \in Runs : /\ verdict'[p] = "pass"
                               /\ key'[p] = k
                               /\ Cardinality(Later(p, k)') <= Silent(InWindow(k)')
    BY <2>1, <2>2, SilenceDecision
  <2>3. SilenceInv'
    BY <2>0, <2>2 DEF SilenceInv, Silent
  <2>4. ASSUME Thinned, First > 0, NEW m \in Runs, verdict'[m] = "mute"
        PROVE  \E p \in Runs : /\ Like(p, m)'
                               /\ verdict'[p] = "pass"
                               /\ Cardinality(Between(p, m)') < Thereafter
    <3>1. CASE m = r
      <4>1. PICK k : k = key[r]
        OBVIOUS
      <4>2. k \in known'
        BY <2>1, <4>1, Counting DEF Remember
      <4>3. PICK p \in Runs : /\ verdict'[p] = "pass"
                              /\ key'[p] = k
                              /\ Cardinality(Later(p, k)') < Thereafter
        BY <2>1, <2>4, <3>1, <4>1, <4>2, SilenceDecision
      <4>4. Between(p, r)' \in SUBSET Later(p, k)'
        BY <2>1, <4>1, Chronicles DEF Between, Later, Like, Settled
      <4>5. Later(p, k)' \in SUBSET Runs
        BY DEF Later
      <4>6. Cardinality(Between(p, r)') <= Cardinality(Later(p, k)')
        BY <4>4, <4>5, Fewer
      <4>7. Cardinality(Between(p, r)') \in Nat /\ Cardinality(Later(p, k)') \in Nat
        BY <4>4, <4>5, RunSets
      <4>8. Like(p, r)'
        BY <2>1, <4>1, <4>3, Chronicles DEF Like
      <4>9. QED
        BY <3>1, <4>3, <4>6, <4>7, <4>8, WindowAssumption
    <3>2. CASE m # r
      <4>1. verdict[m] = "mute" /\ order'[m] = order[m] /\ key' = key
        BY <2>1, <2>4, <3>2, Chronicles
      <4>2. PICK p \in Runs : /\ Like(p, m)
                              /\ verdict[p] = "pass"
                              /\ Cardinality(Between(p, m)) < Thereafter
        BY <2>4, <4>1 DEF NoLongSilence, Thinned, Between
      <4>3. p # r
        BY <2>1, <4>2, Chronicles DEF Settled
      <4>4. ~(order'[r] <= order'[m])
        <5>1. order[m] <= decided /\ order'[r] = decided + 1
          BY <2>1, Chronicles DEF Chronicle
        <5>2. QED
          BY <2>0, <4>1, <5>1
      <4>5. r \notin Between(p, m)
        BY <2>1, Chronicles DEF Between, Like, Settled
      <4>6. ASSUME NEW q \in Runs
            PROVE  q \in Between(p, m)' <=> q \in Between(p, m)
        <5>1. CASE q = r
          BY <4>4, <4>5, <5>1 DEF Between
        <5>2. CASE q # r
          BY <2>1, <4>1, <4>3, <5>2, Chronicles DEF Between, Like
        <5>3. QED
          BY <5>1, <5>2
      <4>7. Between(p, m)' = Between(p, m)
        BY <4>6 DEF Between
      <4>8. verdict'[p] = "pass" /\ Like(p, m)'
        BY <2>1, <4>1, <4>2, <4>3, Chronicles DEF Like
      <4>9. QED
        BY <4>2, <4>7, <4>8
    <3>3. QED
      BY <3>1, <3>2
  <2>5. NoLongSilence'
    BY <2>0, <2>4 DEF NoLongSilence, Thinned, Between
  <2>6. QED
    BY <2>3, <2>5
<1>2. CASE ~ \E r \in Runs : Sample(r) \/ RateLimit(r) \/ Dedup(r)
  <2>1. /\ UNCHANGED <<kind, instanceVars, decisionVars>>
        /\ \A q \in Runs : Settled(q) => key'[q] = key[q] /\ now'[q] = now[q]
    BY <1>2, Otherwise
  <2>2. \A p, k : Later(p, k)' = Later(p, k) /\ InWindow(k)' = InWindow(k)
    BY <2>1 DEF Later, InWindow, Settled, instanceVars, decisionVars
  <2>3. \A p \in Runs : verdict[p] = "pass" => key'[p] = key[p]
    BY <2>1 DEF Settled
  <2>4. SilenceInv'
    BY <2>1, <2>2, <2>3 DEF SilenceInv, Thinned, Silent, instanceVars, decisionVars
  <2>5. \A m \in Runs : verdict[m] = "mute" => \A p \in Runs : Like(p, m)' <=> Like(p, m)
    BY <2>1 DEF Like, Settled, decisionVars
  <2>6. \A m \in Runs : verdict[m] = "mute" => \A p \in Runs : Between(p, m)' = Between(p, m)
    BY <2>1, <2>5 DEF Between, decisionVars
  <2>7. ASSUME kind = "Sample" /\ First > 0 /\ Thereafter > 0,
               NEW m \in Runs, verdict[m] = "mute"
        PROVE  \E p \in Runs : /\ Like(p, m)'
                               /\ verdict[p] = "pass"
                               /\ Cardinality(Between(p, m)') < Thereafter
    BY <2>5, <2>6, <2>7 DEF NoLongSilence, Between
  <2>8. NoLongSilence'
    BY <2>1, <2>7 DEF NoLongSilence, Between, decisionVars
  <2>9. QED
    BY <2>4, <2>8
<1>3. QED
  BY <1>1, <1>2

----------------------------------------------------------------------------
(* The passes are bounded: those of the messages of a key since the last   *)
(* eviction that passed in the windows before the present one, and in it.  *)

\* The messages of the key of f between the same evictions.
Group(f) == {r \in Runs : Like(r, f) /\ epoch[r] = epoch[f]}

Passed(f) == {r \in Group(f) : verdict[r] = "pass"}

\* f is the first of them.
Heads(f) == Settled(f) /\ \A r \in Group(f) : order[f] <= order[r]

\* How many pass in a window of n.
Own(n) ==
    IF n <= Allowance THEN n
    ELSE Allowance + (IF Thinned THEN (n - First) \div Thereafter ELSE 0)

\* With w windows before the present one, in which x passed by Thereafter.
Spent(f, w, x) ==
    /\ Window = 0 => w = 0
    /\ ~Thinned => x = 0
    /\ Window * w <= start[key[f]] - now[f]
    /\ Thereafter * x + InWindow(key[f]) <= Cardinality(Group(f))
    /\ Cardinality(Passed(f)) <= Allowance * w + x + Own(InWindow(key[f]))

GroupInv ==
    \A f \in Runs : Heads(f) /\ epoch[f] = evictions => \E w, x \in Nat : Spent(f, w, x)

Bounded(f) ==
    Cardinality(Passed(f)) <=
        Allowance * (1 + (IF Window = 0 THEN 0 ELSE (clock - now[f]) \div Window))
            + (IF Thinned THEN Cardinality(Group(f)) \div Thereafter ELSE 0)

\* What passed before the last eviction.
PastBounded == \A f \in Runs : Heads(f) /\ epoch[f] < evictions => Bounded(f)

LEMMA GroupSets ==
    \A f \in Runs : /\ Group(f) \in SUBSET Runs /\ Passed(f) \in SUBSET Runs
                    /\ Cardinality(Group(f)) \in Nat /\ Cardinality(Passed(f)) \in Nat
<1>1. \A f \in Runs : Group(f) \in SUBSET Runs /\ Passed(f) \in SUBSET Runs
  BY DEF Group, Passed
<1>2. QED
  BY <1>1, RunSets

LEMMA GroupTypes ==
    TypeOK => /\ \A k \in AllKeys : InWindow(k) \in Nat /\ start[k] \in Nat
              /\ \A r \in Runs : key[r] \in AllKeys /\ now[r] \in Nat /\ Rank(r) \in Nat
              /\ kind \in Kinds /\ Allowance \in Nat
              /\ clock \in Nat /\ decided \in Nat /\ evictions \in Nat
              /\ order \in [Runs -> Nat] /\ epoch \in [Runs -> Nat]
              /\ Window \in Nat /\ Thereafter \in Nat
  BY WindowAssumption
    DEF TypeOK, InstanceType, RunType, HistoryType, InWindow, Rank, Allowance

\* A window of n lets pass what it allows, and one in Thereafter.
LEMMA OwnStep ==
    ASSUME kind \in Kinds, NEW n \in Nat
    PROVE  /\ Own(n) \in Nat
           /\ Own(0) = 0
           /\ Own(n + 1) = Own(n) + (IF Passing(n + 1) THEN 1 ELSE 0)
           /\ \E y \in Nat : /\ Own(n) <= Allowance + y
                             /\ Thereafter * y <= n
                             /\ ~Thinned => y = 0
<1>0. First \in Nat /\ Thereafter \in Nat /\ Allowance \in Nat
  BY WindowAssumption DEF Allowance
<1>1. Own(0) = 0
  BY <1>0 DEF Own
<1>2. CASE n < Allowance
  <2>1. Passing(n + 1)
    BY <1>0, <1>2, KindsAre DEF Allowance, Passing, SamplePasses
  <2>2. Own(n) = n /\ Own(n + 1) = n + 1
    BY <1>0, <1>2 DEF Own
  <2>3. Own(n) <= Allowance + 0 /\ Thereafter * 0 <= n
    BY <1>0, <1>2, <2>2
  <2>4. QED
    BY <1>1, <2>1, <2>2, <2>3
<1>3. CASE n >= Allowance /\ ~Thinned
  <2>1. ~Passing(n + 1)
    BY <1>0, <1>3, KindsAre DEF Allowance, Passing, SamplePasses, Thinned
  <2>2. Own(n) = Allowance /\ Own(n + 1) = Allowance
    BY <1>0, <1>3 DEF Own
  <2>3. Own(n) <= Allowance + 0 /\ Thereafter * 0 <= n
    BY <1>0, <2>2
  <2>4. QED
    BY <1>0, <1>1, <2>1, <2>2, <2>3
<1>4. CASE n >= Allowance /\ Thinned
  <2>0. Allowance = First /\ Thereafter \in Nat \ {0}
    BY <1>0, <1>4 DEF Allowance, Thinned
  <2>1. PICK d \in Nat : d = n - First
    BY <1>0, <1>4, <2>0
  <2>2. PICK y \in Nat, m \in 0..(Thereafter - 1) :
            y = d \div Thereafter /\ m = d % Thereafter /\ d = Thereafter * y + m
    BY <2>0, Division
  <2>3. (d + 1) \div Thereafter = y + (IF (d + 1) % Thereafter = 0 THEN 1 ELSE 0)
    BY <2>0, <2>2, NextDivision
  <2>4. Passing(n + 1) <=> (d + 1) % Thereafter = 0
    <3>1. n + 1 - First = d + 1 /\ ~(n + 1 <= First)
      BY <1>0, <1>4, <2>0, <2>1
    <3>2. (n + 1 - First) % Thereafter = (d + 1) % Thereafter
      BY <3>1
    <3>3. kind = "Sample" /\ Thereafter > 0
      BY <1>4 DEF Thinned
    <3>4. Passing(n + 1) <=> n + 1 <= First \/ (n + 1 - First) % Thereafter = 0
      BY <1>0, <3>3 DEF Passing, SamplePasses
    <3>5. QED
      BY <3>1, <3>2, <3>4
  <2>5. Own(n) = Allowance + y
    <3>1. CASE n = Allowance
      <4>1. d = 0
        BY <1>0, <2>0, <2>1, <3>1
      <4>2. 0 = Thereafter * 0 + 0
        BY <2>0
      <4>3. 0 = 0 \div Thereafter
        BY <2>0, <4>2, Quotient
      <4>4. y = 0
        BY <2>2, <4>1, <4>3
      <4>5. QED
        BY <1>0, <3>1, <4>4 DEF Own
    <3>2. CASE n > Allowance
      <4>1. (n - First) \div Thereafter = y
        BY <2>1, <2>2
      <4>2. ~(n <= Allowance)
        BY <1>0, <3>2
      <4>3. QED
        BY <1>4, <4>1, <4>2 DEF Own
    <3>3. QED
      BY <1>0, <1>4, <3>1, <3>2
  <2>6. Own(n + 1) = Allowance + (d + 1) \div Thereafter
    <3>1. n + 1 - First = d + 1 /\ ~(n + 1 <= Allowance)
      BY <1>0, <1>4, <2>0, <2>1
    <3>2. (n + 1 - First) \div Thereafter = (d + 1) \div Thereafter
      BY <3>1
    <3>3. QED
      BY <1>0, <1>4, <3>1, <3>2 DEF Own
  <2>7. Own(n + 1) = Own(n) + (IF Passing(n + 1) THEN 1 ELSE 0)
    <3>1. CASE Passing(n + 1)
      BY <1>0, <2>3, <2>4, <2>5, <2>6, <3>1
    <3>2. CASE ~Passing(n + 1)
      BY <1>0, <2>3, <2>4, <2>5, <2>6, <3>2
    <3>3. QED
      BY <3>1, <3>2
  <2>8. Thereafter * y <= n
    <3>1. Thereafter * y \in Nat
      BY <2>0
    <3>2. QED
      BY <1>0, <2>1, <2>2, <3>1
  <2>9. Own(n) \in Nat /\ Own(n) <= Allowance + y
    BY <1>0, <2>5
  <2>10. QED
    BY <1>1, <1>4, <2>7, <2>8, <2>9
<1>5. QED
  BY <1>0, <1>2, <1>3, <1>4

\* The group of a message, after the decision about r.
LEMMA GroupStep ==
    ASSUME TypeOK, Chronicle, NEW r \in Runs, Sample(r) \/ RateLimit(r) \/ Dedup(r),
           NEW f \in Runs \ {r}, Heads(f)'
    PROVE  /\ Heads(f) /\ r \notin Group(f)
           /\ epoch'[f] = epoch[f] /\ key'[f] = key[f] /\ now'[f] = now[f]
           /\ epoch[f] <= evictions /\ evictions <= evictions'
           /\ epoch[f] = evictions' => key[f] \in known /\ ~Evicts(r) /\ evictions' = evictions
           /\ IF epoch[f] = evictions' /\ key[f] = key[r]
              THEN /\ Group(f)' = Group(f) \cup {r}
                   /\ Passed(f)' =
                        Passed(f) \cup (IF Passing(Rank(r)) THEN {r} ELSE {})
              ELSE Group(f)' = Group(f) /\ Passed(f)' = Passed(f)
<1>0. evictions \in Nat /\ epoch \in [Runs -> Nat] /\ order \in [Runs -> Nat]
  BY GroupTypes
<1>1. /\ epoch'[f] = epoch[f] /\ key' = key /\ now' = now /\ epoch'[r] = evictions'
      /\ order'[f] = order[f] /\ verdict'[f] = verdict[f]
  BY Chronicles
<1>2. epoch[f] <= evictions /\ evictions <= evictions'
  BY <1>0, Chronicles DEF Chronicle
<1>3. r \notin Group(f)
  BY Chronicles DEF Group, Like, Settled
<1>4. \A q \in Runs \ {r} : q \in Group(f)' <=> q \in Group(f)
  BY <1>1, Chronicles DEF Group, Like
<1>5. r \in Group(f)' <=> epoch[f] = evictions' /\ key[f] = key[r]
  BY <1>1, Chronicles DEF Group, Like, Settled
<1>6. \A q : q \in Group(f)' => q \in Runs
  BY DEF Group
<1>7. \A q : q \in Group(f) => q \in Runs
  BY DEF Group
<1>8. Heads(f)
  <2>1. Settled(f)
    BY <1>1 DEF Heads, Settled
  <2>2. ASSUME NEW q \in Group(f) PROVE order[f] <= order[q]
    <3>1. q \in Runs \ {r} /\ q \in Group(f)'
      BY <1>3, <1>4, <1>7, <2>2
    <3>2. order'[f] <= order'[q]
      BY <3>1 DEF Heads
    <3>3. QED
      BY <1>1, <3>1, <3>2, Chronicles
  <2>3. QED
    BY <2>1, <2>2 DEF Heads
<1>9. epoch[f] = evictions' => key[f] \in known /\ ~Evicts(r) /\ evictions' = evictions
  <2>1. ASSUME epoch[f] = evictions'
        PROVE  key[f] \in known /\ ~Evicts(r) /\ evictions' = evictions
    <3>1. epoch[f] = evictions /\ evictions' = evictions
      BY <1>0, <1>2, <2>1
    <3>2. ~Evicts(r)
      BY <1>0, <3>1, Chronicles
    <3>3. key[f] \in known
      BY <1>8, <3>1 DEF Chronicle, Heads
    <3>4. QED
      BY <3>1, <3>2, <3>3
  <2>2. QED
    BY <2>1
<1>10. CASE epoch[f] = evictions' /\ key[f] = key[r]
  <2>1. Group(f)' = Group(f) \cup {r}
    BY <1>3, <1>4, <1>5, <1>6, <1>7, <1>10
  <2>2. Passed(f)' = Passed(f) \cup (IF Passing(Rank(r)) THEN {r} ELSE {})
    BY <1>3, <1>6, <1>7, <2>1, Counting, Chronicles DEF Passed
  <2>3. QED
    BY <1>1, <1>2, <1>3, <1>8, <1>9, <1>10, <2>1, <2>2
<1>11. CASE ~(epoch[f] = evictions' /\ key[f] = key[r])
  <2>1. Group(f)' = Group(f)
    BY <1>3, <1>4, <1>5, <1>6, <1>7, <1>11
  <2>2. Passed(f)' = Passed(f)
    BY <1>3, <1>6, <1>7, <2>1, Chronicles DEF Passed
  <2>3. QED
    BY <1>1, <1>2, <1>3, <1>8, <1>9, <1>11, <2>1, <2>2
<1>12. QED
  BY <1>10, <1>11

\* The message of r opens a group when no other of its key has been decided
\* since the last eviction.
LEMMA GroupOpens ==
    ASSUME TypeOK, Chronicle, NEW r \in Runs, Sample(r) \/ RateLimit(r) \/ Dedup(r),
           Heads(r)'
    PROVE  Spent(r, 0, 0)'
<1>0. /\ evictions \in Nat /\ epoch \in [Runs -> Nat] /\ order \in [Runs -> Nat]
      /\ decided \in Nat /\ Allowance \in Nat /\ kind \in Kinds
      /\ key[r] \in AllKeys /\ now[r] \in Nat /\ start \in [AllKeys -> Nat]
      /\ Window \in Nat /\ Thereafter \in Nat
  BY GroupTypes DEF TypeOK, InstanceType
<1>1. key[r] \notin known
  <2>1. SUFFICES ASSUME key[r] \in known PROVE FALSE
    OBVIOUS
  <2>2. evictions' = evictions
    BY <1>0, <2>1, Chronicles DEF Evicts
  <2>3. PICK q \in Runs : Settled(q) /\ epoch[q] = evictions /\ key[q] = key[r]
    BY <2>1 DEF Chronicle
  <2>4. q # r
    BY <2>3, Chronicles
  <2>5. q \in Group(r)'
    BY <2>2, <2>3, <2>4, Chronicles DEF Group, Like, Settled
  <2>6. order'[r] <= order'[q]
    BY <2>5 DEF Heads
  <2>7. order'[q] <= decided /\ order'[r] = decided + 1 /\ order'[q] = order[q]
    BY <2>4, Chronicles DEF Chronicle
  <2>8. QED
    BY <1>0, <2>6, <2>7
<1>2. Fresh(r) /\ Rank(r) = 1
  BY <1>1 DEF Fresh, Rank
<1>3. start'[key[r]] = now[r] /\ InWindow(key[r])' = 1 /\ key' = key /\ now' = now
  <2>1. PICK k \in AllKeys : k = key[r]
    BY <1>0
  <2>2. InWindow(k)' = 1
    BY <1>2, <2>1, Counting
  <2>3. key' = key /\ now' = now
    BY Chronicles
  <2>4. start'[k] = now[r]
    BY <1>0, <1>2, <2>1, Counting
  <2>5. QED
    BY <2>1, <2>2, <2>3, <2>4
<1>4. ASSUME NEW q \in Runs \ {r} PROVE q \notin Group(r)'
  <2>1. SUFFICES ASSUME Settled(q), key[q] = key[r], epoch[q] = evictions' PROVE FALSE
    BY Chronicles DEF Group, Like, Settled
  <2>2. evictions' = evictions
    <3>1. epoch[q] <= evictions
      BY DEF Chronicle
    <3>2. QED
      BY <1>0, <2>1, <3>1, Chronicles
  <2>3. QED
    BY <1>1, <2>1, <2>2 DEF Chronicle
<1>5. Group(r)' = {r}
  BY <1>4, Chronicles DEF Group, Like, Settled
<1>6. Passed(r)' = IF Passing(1) THEN {r} ELSE {}
  BY <1>2, <1>5, Counting DEF Passed
<1>7. Cardinality(Group(r)') = 1 /\ Cardinality(Passed(r)') = IF Passing(1) THEN 1 ELSE 0
  BY <1>5, <1>6, FS_Singleton, FS_EmptySet
<1>8. Own(1) = IF Passing(1) THEN 1 ELSE 0
  <2>1. Own(0 + 1) = Own(0) + (IF Passing(0 + 1) THEN 1 ELSE 0) /\ Own(0) = 0
    BY <1>0, OwnStep
  <2>2. QED
    BY <2>1
<1>9. Own(1)' = Own(1) /\ Allowance' = Allowance /\ Thinned' = Thinned
  BY Chronicles DEF Own, Allowance, Thinned
<1>10. /\ Window * 0 <= start'[key'[r]] - now'[r]
       /\ Thereafter * 0 + InWindow(key[r])' <= Cardinality(Group(r)')
       /\ Cardinality(Passed(r)') <= Allowance' * 0 + 0 + Own(1)'
  BY <1>0, <1>3, <1>7, <1>8, <1>9
<1>11. QED
  BY <1>3, <1>10 DEF Spent, Own

----------------------------------------------------------------------------
\* A later message of the key of f in its window.
LEMMA GroupGrows ==
    ASSUME TypeOK, Chronicle, NEW r \in Runs, Sample(r) \/ RateLimit(r) \/ Dedup(r),
           NEW f \in Runs \ {r}, Heads(f)', epoch[f] = evictions', key[f] = key[r],
           NEW w \in Nat, NEW x \in Nat, Spent(f, w, x)
    PROVE  \E v, y \in Nat : Spent(f, v, y)'
<1> PICK k \in AllKeys : k = key[r]
  BY GroupTypes
<1> PICK n \in Nat : n = InWindow(k)
  BY GroupTypes
<1>0. /\ Allowance \in Nat /\ kind \in Kinds /\ Window \in Nat /\ Thereafter \in Nat
      /\ start \in [AllKeys -> Nat] /\ now[r] \in Nat /\ now[f] \in Nat
  BY GroupTypes DEF TypeOK, InstanceType
<1>1. key'[f] = k /\ now'[f] = now[f] /\ key[f] = k /\ k \in known
  BY GroupStep
<1>2. /\ \A m : Own(m)' = Own(m)
      /\ Allowance' = Allowance /\ (Thinned' <=> Thinned)
  BY Chronicles DEF Own, Allowance, Thinned
<1>3. /\ Window = 0 => w = 0
      /\ ~Thinned => x = 0
      /\ Window * w <= start[k] - now[f]
      /\ Thereafter * x + n <= Cardinality(Group(f))
      /\ Cardinality(Passed(f)) <= Allowance * w + x + Own(n)
  BY <1>1 DEF Spent
<1>4. PICK g \in Nat, p \in Nat : g = Cardinality(Group(f)) /\ p = Cardinality(Passed(f))
  BY GroupSets
<1>5. PICK a \in Nat : a = Rank(r)
  BY GroupTypes
<1>6. PICK b \in {0, 1} : b = IF Passing(a) THEN 1 ELSE 0
  OBVIOUS
<1>7. Cardinality(Group(f)') = g + 1
  BY <1>4, GroupStep, GroupSets, OneMore
<1>8. Cardinality(Passed(f)') = p + b
  <2>1. r \notin Passed(f)
    BY GroupStep DEF Passed
  <2>2. Passed(f)' = Passed(f) \cup (IF Passing(a) THEN {r} ELSE {})
    BY <1>5, GroupStep
  <2>3. CASE Passing(a)
    BY <1>4, <1>6, <2>1, <2>2, <2>3, GroupSets, OneMore
  <2>4. CASE ~Passing(a)
    BY <1>4, <1>6, <2>2, <2>4
  <2>5. QED
    BY <2>3, <2>4
<1>9. InWindow(k)' = a
  BY <1>5, Counting
<1>10. PICK c \in Nat : c = Own(n)
  BY <1>0, OwnStep
<1>11. CASE ~Fresh(r)
  <2>1. start' = start /\ a = n + 1
    BY <1>5, <1>11, Counting DEF Rank
  <2>2. Own(a) = c + b
    BY <1>0, <1>6, <1>10, <2>1, OwnStep
  <2>3. PICK u \in Nat, t \in Nat : u = Allowance * w /\ t = Thereafter * x
    BY <1>0
  <2>4. t + a <= g + 1 /\ p + b <= u + x + (c + b)
    <3>1. t + n <= g /\ p <= u + x + c
      BY <1>3, <1>4, <1>10, <2>3
    <3>2. QED
      BY <2>1, <3>1
  <2>5. /\ Window * w <= start'[k] - now'[f]
        /\ Thereafter * x + InWindow(k)' <= Cardinality(Group(f)')
        /\ Cardinality(Passed(f)') <= Allowance' * w + x + Own(a)'
    BY <1>1, <1>2, <1>3, <1>7, <1>8, <1>9, <2>1, <2>2, <2>3, <2>4
  <2>6. Spent(f, w, x)'
    <3>1. InWindow(key[f])' = InWindow(k)' /\ start'[key'[f]] = start'[k]
      BY <1>1 DEF InWindow
    <3>2. QED
      BY <1>2, <1>3, <1>9, <2>5, <3>1 DEF Spent, Own
  <2>7. QED
    BY <2>6
<1>12. CASE Fresh(r)
  <2>1. /\ start'[k] = now[r] /\ a = 1
        /\ Window > 0 /\ now[r] - start[k] >= Window
    BY <1>0, <1>1, <1>5, <1>12, Counting DEF Rank, Fresh, RollsOver, Elapsed
  <2>2. Own(a) = b
    <3>1. Own(0) = 0 /\ Own(0 + 1) = Own(0) + (IF Passing(0 + 1) THEN 1 ELSE 0)
      BY <1>0, OwnStep
    <3>2. QED
      BY <1>6, <2>1, <3>1
  <2>3. PICK y \in Nat : c <= Allowance + y /\ Thereafter * y <= n /\ (~Thinned => y = 0)
    BY <1>0, <1>10, OwnStep
  <2>4. PICK u \in Nat, t \in Nat, s \in Nat, h \in Nat :
            /\ u = Allowance * w /\ t = Thereafter * x
            /\ s = Thereafter * y /\ h = Window * w
    BY <1>0
  <2>5. /\ Thereafter * (x + y) = t + s
        /\ Allowance * (w + 1) = u + Allowance
        /\ Window * (w + 1) = h + Window
    BY <1>0, <2>4
  <2>6. h + Window <= now[r] - now[f]
    <3>1. h <= start[k] - now[f] /\ start[k] \in Nat
      BY <1>0, <1>3, <2>4
    <3>2. QED
      BY <1>0, <2>1, <3>1
  <2>7. t + s + a <= g + 1
    <3>1. t + n <= g /\ s <= n
      BY <1>3, <1>4, <2>3, <2>4
    <3>2. QED
      BY <2>1, <3>1
  <2>8. p + b <= u + Allowance + (x + y) + b
    <3>1. p <= u + x + c /\ c <= Allowance + y
      BY <1>3, <1>4, <1>10, <2>3, <2>4
    <3>2. QED
      BY <1>0, <3>1
  <2>9. /\ Window * (w + 1) <= start'[k] - now'[f]
        /\ Thereafter * (x + y) + InWindow(k)' <= Cardinality(Group(f)')
        /\ Cardinality(Passed(f)') <= Allowance' * (w + 1) + (x + y) + Own(a)'
    BY <1>1, <1>2, <1>7, <1>8, <1>9, <2>1, <2>2, <2>5, <2>6, <2>7, <2>8
  <2>10. Window # 0 /\ (~Thinned' => x + y = 0)
    BY <1>2, <1>3, <2>1, <2>3
  <2>11. PICK v \in Nat, z \in Nat : v = w + 1 /\ z = x + y
    OBVIOUS
  <2>12. Spent(f, v, z)'
    <3>1. InWindow(key[f])' = InWindow(k)' /\ start'[key'[f]] = start'[k]
      BY <1>1 DEF InWindow
    <3>2. QED
      BY <1>9, <2>9, <2>10, <2>11, <3>1 DEF Spent, Own
  <2>13. QED
    BY <2>12
<1>13. QED
  BY <1>11, <1>12

\* A message of another key.
LEMMA GroupStays ==
    ASSUME TypeOK, Chronicle, NEW r \in Runs, Sample(r) \/ RateLimit(r) \/ Dedup(r),
           NEW f \in Runs \ {r}, Heads(f)', epoch[f] = evictions', key[f] # key[r],
           NEW w \in Nat, NEW x \in Nat, Spent(f, w, x)
    PROVE  Spent(f, w, x)'
<1> PICK k \in AllKeys : k = key[f]
  BY GroupTypes
<1>1. /\ key'[f] = k /\ now'[f] = now[f]
      /\ Group(f)' = Group(f) /\ Passed(f)' = Passed(f)
  BY GroupStep
<1>2. InWindow(k)' = InWindow(k) /\ start'[k] = start[k]
  BY Counting DEF TypeOK, InstanceType
<1>3. /\ \A m : Own(m)' = Own(m)
      /\ Allowance' = Allowance /\ (Thinned' <=> Thinned)
  BY Chronicles DEF Own, Allowance, Thinned
<1>4. InWindow(key[f])' = InWindow(k)
  BY <1>1, <1>2 DEF InWindow
<1>5. QED
  BY <1>1, <1>2, <1>3, <1>4 DEF Spent, Own

LEMMA GroupDecision ==
    ASSUME TypeOK, Chronicle, GroupInv, NEW r \in Runs,
           Sample(r) \/ RateLimit(r) \/ Dedup(r)
    PROVE  GroupInv'
<1>1. ASSUME NEW f \in Runs, Heads(f)', epoch'[f] = evictions'
      PROVE  \E w, x \in Nat : Spent(f, w, x)'
  <2>1. CASE f = r
    BY <1>1, <2>1, GroupOpens
  <2>2. CASE f # r
    <3>1. Heads(f) /\ epoch[f] = evictions /\ epoch[f] = evictions'
      BY <1>1, <2>2, GroupStep
    <3>2. PICK w \in Nat, x \in Nat : Spent(f, w, x)
      BY <3>1 DEF GroupInv
    <3>3. CASE key[f] = key[r]
      BY <1>1, <2>2, <3>1, <3>2, <3>3, GroupGrows
    <3>4. CASE key[f] # key[r]
      BY <1>1, <2>2, <3>1, <3>2, <3>4, GroupStays
    <3>5. QED
      BY <3>3, <3>4
  <2>3. QED
    BY <2>1, <2>2
<1>2. QED
  BY <1>1 DEF GroupInv

LEMMA AtMost ==
    ASSUME NEW a \in Nat, NEW b \in Nat \ {0}, NEW p \in Nat, b * p <= a
    PROVE  p <= a \div b /\ a \div b \in Nat
<1>1. PICK q \in Nat, m \in 0..(b - 1) : q = a \div b /\ m = a % b /\ a = b * q + m
  BY Division
<1>2. ASSUME p > q PROVE FALSE
  <2>1. PICK d \in Nat : p = q + 1 + d
    <3>1. p - q - 1 \in Nat
      BY <1>2
    <3>2. QED
      BY <3>1
  <2>2. b * p = b * q + b + b * d
    BY <2>1
  <2>3. b * q \in Nat /\ b * d \in Nat
    OBVIOUS
  <2>4. QED
    BY <1>1, <2>2, <2>3
<1>3. QED
  BY <1>1, <1>2

\* Products grow with their factors.
LEMMA Times ==
    ASSUME NEW a \in Nat, NEW b \in Nat, NEW c \in Nat, b <= c
    PROVE  a * b <= a * c
<1>1. PICK d \in Nat : c = b + d
  <2>1. c - b \in Nat
    OBVIOUS
  <2>2. QED
    BY <2>1
<1>2. a * c = a * b + a * d /\ a * b \in Nat /\ a * d \in Nat
  BY <1>1
<1>3. QED
  BY <1>2

\* The invariant gives the bound.
LEMMA BoundNow ==
    ASSUME TypeOK, Chronicle, NEW f \in Runs, NEW w \in Nat, NEW x \in Nat,
           Spent(f, w, x)
    PROVE  Bounded(f)
<1> PICK k \in AllKeys : k = key[f]
  BY GroupTypes
<1> PICK n \in Nat : n = InWindow(k)
  BY GroupTypes
<1>0. /\ Allowance \in Nat /\ kind \in Kinds /\ Window \in Nat /\ Thereafter \in Nat
      /\ start[k] \in Nat /\ now[f] \in Nat /\ clock \in Nat
      /\ start[k] <= clock /\ now[f] <= clock
  BY GroupTypes DEF Chronicle
<1>1. /\ Window = 0 => w = 0
      /\ ~Thinned => x = 0
      /\ Window * w <= start[k] - now[f]
      /\ Thereafter * x + n <= Cardinality(Group(f))
      /\ Cardinality(Passed(f)) <= Allowance * w + x + Own(n)
  BY DEF Spent
<1>2. PICK g \in Nat, p \in Nat : g = Cardinality(Group(f)) /\ p = Cardinality(Passed(f))
  BY GroupSets
<1>3. PICK y \in Nat : Own(n) <= Allowance + y /\ Thereafter * y <= n /\ (~Thinned => y = 0)
  BY <1>0, OwnStep
<1>4. Own(n) \in Nat
  BY <1>0, OwnStep
<1>5. PICK v \in Nat : v = IF Window = 0 THEN 0 ELSE (clock - now[f]) \div Window
  <2>1. clock - now[f] \in Nat
    BY <1>0
  <2>2. Window # 0 => (clock - now[f]) \div Window \in Nat
    BY <1>0, <2>1
  <2>3. QED
    BY <2>2
<1>6. w <= v
  <2>1. CASE Window = 0
    BY <1>1, <2>1
  <2>2. CASE Window # 0
    <3>1. PICK e \in Nat : e = clock - now[f]
      BY <1>0
    <3>2. Window * w <= e
      <4>1. Window * w \in Nat
        BY <1>0
      <4>2. QED
        BY <1>0, <1>1, <3>1, <4>1
    <3>3. w <= e \div Window
      BY <1>0, <2>2, <3>2, AtMost
    <3>4. QED
      BY <1>5, <2>2, <3>1, <3>3
  <2>3. QED
    BY <2>1, <2>2
<1>7. PICK z \in Nat : z = IF Thinned THEN g \div Thereafter ELSE 0
  BY <1>0 DEF Thinned
<1>8. x + y <= z
  <2>1. CASE ~Thinned
    BY <1>1, <1>3, <1>7, <2>1
  <2>2. CASE Thinned
    <3>1. PICK t \in Nat, s \in Nat : t = Thereafter * x /\ s = Thereafter * y
      BY <1>0
    <3>2. PICK j \in Nat : j = x + y
      OBVIOUS
    <3>3. Thereafter * j = t + s
      BY <1>0, <3>1, <3>2
    <3>4. Thereafter * j <= g
      BY <1>1, <1>2, <1>3, <3>1, <3>3
    <3>5. Thereafter \in Nat \ {0}
      BY <1>0, <2>2 DEF Thinned
    <3>6. j <= g \div Thereafter
      BY <3>4, <3>5, AtMost
    <3>7. QED
      BY <1>7, <2>2, <3>2, <3>6
  <2>3. QED
    BY <2>1, <2>2
<1>9. PICK u \in Nat, h \in Nat : u = Allowance * w /\ h = Allowance * v
  BY <1>0
<1>10. u <= h /\ Allowance * (1 + v) = h + Allowance
  BY <1>0, <1>6, <1>9, Times
<1>11. p <= u + x + Own(n)
  BY <1>1, <1>2, <1>9
<1>12. p <= h + Allowance + z
  BY <1>0, <1>3, <1>4, <1>8, <1>10, <1>11
<1>13. QED
  BY <1>2, <1>5, <1>7, <1>10, <1>12 DEF Bounded

LEMMA BoundStep ==
    TypeOK /\ Chronicle /\ GroupInv /\ PastBounded /\ [Next]_vars
        => GroupInv' /\ PastBounded'
<1> SUFFICES ASSUME TypeOK, Chronicle, GroupInv, PastBounded, [Next]_vars
             PROVE  GroupInv' /\ PastBounded'
  OBVIOUS
<1>1. CASE \E r \in Runs : Sample(r) \/ RateLimit(r) \/ Dedup(r)
  <2>1. PICK r \in Runs : Sample(r) \/ RateLimit(r) \/ Dedup(r)
    BY <1>1
  <2>2. ASSUME NEW f \in Runs, Heads(f)', epoch'[f] < evictions'
        PROVE  Bounded(f)'
    <3>1. f # r
      <4>1. epoch'[r] = evictions' /\ evictions' \in Nat
        BY <2>1, Chronicles, GroupTypes
      <4>2. QED
        BY <2>2, <4>1
    <3>2. /\ Heads(f) /\ epoch'[f] = epoch[f] /\ epoch[f] <= evictions
          /\ epoch[f] \in Nat /\ evictions \in Nat /\ evictions' \in Nat
      BY <2>1, <2>2, <3>1, GroupStep, GroupTypes, Chronicles
    <3>3. Group(f)' = Group(f) /\ Passed(f)' = Passed(f) /\ now'[f] = now[f]
      BY <2>1, <2>2, <3>1, <3>2, GroupStep
    <3>4. Bounded(f)
      <4>1. CASE epoch[f] < evictions
        BY <3>2, <4>1 DEF PastBounded
      <4>2. CASE epoch[f] = evictions
        BY <3>2, <4>2, BoundNow DEF GroupInv
      <4>3. QED
        BY <3>2, <4>1, <4>2
    <3>5. clock' = clock /\ Allowance' = Allowance /\ (Thinned' <=> Thinned)
      BY <2>1, Chronicles DEF Allowance, Thinned
    <3>6. QED
      BY <3>3, <3>4, <3>5 DEF Bounded
  <2>3. PastBounded'
    BY <2>2 DEF PastBounded
  <2>4. QED
    BY <2>1, <2>3, GroupDecision
<1>2. CASE ~ \E r \in Runs : Sample(r) \/ RateLimit(r) \/ Dedup(r)
  <2>1. /\ UNCHANGED <<kind, instanceVars, decisionVars>> /\ clock <= clock'
        /\ \A q \in Runs : Settled(q) => key'[q] = key[q] /\ now'[q] = now[q]
    BY <1>2, Otherwise
  <2>2. /\ Allowance' = Allowance /\ (Thinned' <=> Thinned)
        /\ \A k : InWindow(k)' = InWindow(k) /\ \A m : Own(m)' = Own(m)
    BY <2>1 DEF Allowance, Thinned, InWindow, Own, instanceVars
  <2>3. ASSUME NEW f \in Runs, Heads(f)'
        PROVE  /\ Heads(f) /\ Group(f)' = Group(f) /\ Passed(f)' = Passed(f)
               /\ key'[f] = key[f] /\ now'[f] = now[f]
    <3>1. Settled(f)
      BY <2>1, <2>3 DEF Heads, Settled, decisionVars
    <3>2. \A q \in Runs : Like(q, f)' <=> Like(q, f)
      BY <2>1, <3>1 DEF Like, Settled, decisionVars
    <3>3. Group(f)' = Group(f)
      BY <2>1, <3>2 DEF Group, decisionVars
    <3>4. Passed(f)' = Passed(f)
      BY <2>1, <3>3 DEF Passed, decisionVars
    <3>5. Heads(f)
      BY <2>1, <2>3, <3>1, <3>3 DEF Heads, decisionVars
    <3>6. QED
      BY <2>1, <3>1, <3>3, <3>4, <3>5
  <2>4. ASSUME NEW f \in Runs, Heads(f)', epoch'[f] = evictions'
        PROVE  \E w, x \in Nat : Spent(f, w, x)'
    <3>1. /\ Heads(f) /\ Group(f)' = Group(f) /\ Passed(f)' = Passed(f)
          /\ key'[f] = key[f] /\ now'[f] = now[f] /\ epoch[f] = evictions
      BY <2>1, <2>3, <2>4 DEF decisionVars
    <3>2. PICK w \in Nat, x \in Nat : Spent(f, w, x)
      BY <3>1 DEF GroupInv
    <3>3. InWindow(key[f])' = InWindow(key[f]) /\ start' = start
      BY <2>1, <3>1 DEF InWindow, instanceVars
    <3>4. Spent(f, w, x)'
      BY <2>2, <3>1, <3>2, <3>3 DEF Spent
    <3>5. QED
      BY <3>4
  <2>5. GroupInv'
    BY <2>4 DEF GroupInv
  <2>6. ASSUME NEW f \in Runs, Heads(f)', epoch'[f] < evictions'
        PROVE  Bounded(f)'
    <3>1. /\ Heads(f) /\ Group(f)' = Group(f) /\ Passed(f)' = Passed(f)
          /\ now'[f] = now[f] /\ epoch[f] < evictions
      BY <2>1, <2>3, <2>6 DEF decisionVars
    <3>2. Bounded(f)
      BY <3>1 DEF PastBounded
    <3>3. PICK v \in Nat, j \in Nat :
              /\ v = IF Window = 0 THEN 0 ELSE (clock - now[f]) \div Window
              /\ j = IF Window = 0 THEN 0 ELSE (clock' - now[f]) \div Window
              /\ v <= j
      <4>1. /\ Window \in Nat /\ clock \in Nat /\ clock' \in Nat /\ now[f] \in Nat
            /\ now[f] <= clock
        BY TypeStep, GroupTypes DEF Chronicle, TypeOK, InstanceType
      <4>2. CASE Window = 0
        BY <4>2
      <4>3. CASE Window # 0
        <5>1. PICK d \in Nat, e \in Nat : d = clock - now[f] /\ e = clock' - now[f] /\ d <= e
          BY <2>1, <4>1
        <5>2. PICK q \in Nat, m \in 0..(Window - 1) :
                  q = d \div Window /\ d = Window * q + m
          BY <4>1, <4>3, Division
        <5>3. Window * q <= e
          <6>1. Window * q \in Nat
            BY <4>1
          <6>2. QED
            BY <5>1, <5>2, <6>1
        <5>4. q <= e \div Window /\ e \div Window \in Nat
          BY <4>1, <4>3, <5>3, AtMost
        <5>5. QED
          BY <4>3, <5>1, <5>2, <5>4
      <4>4. QED
        BY <4>2, <4>3
    <3>4. Allowance \in Nat
      BY GroupTypes
    <3>5. Allowance * (1 + v) <= Allowance * (1 + j)
      BY <3>3, <3>4, Times
    <3>6. /\ Cardinality(Passed(f)) \in Nat
          /\ Allowance * (1 + v) \in Nat /\ Allowance * (1 + j) \in Nat
      BY <3>4, GroupSets
    <3>7. (IF Thinned THEN Cardinality(Group(f)) \div Thereafter ELSE 0) \in Nat
      BY GroupSets, GroupTypes DEF Thinned
    <3>8. PICK z \in Nat : z = IF Thinned THEN Cardinality(Group(f)) \div Thereafter ELSE 0
      BY <3>7
    <3>9. Cardinality(Passed(f)) <= Allowance * (1 + v) + z
      BY <3>2, <3>3, <3>8 DEF Bounded
    <3>10. Cardinality(Passed(f)) <= Allowance * (1 + j) + z
      BY <3>5, <3>6, <3>9
    <3>11. QED
      BY <2>2, <3>1, <3>3, <3>8, <3>10 DEF Bounded
  <2>7. PastBounded'
    BY <2>6 DEF PastBounded
  <2>8. QED
    BY <2>5, <2>7
<1>3. QED
  BY <1>1, <1>2

\* What the decisions rest on.
MeasureInv ==
    /\ Chronicle
    /\ CauseInv /\ MutedForCause
    /\ SilenceInv /\ NoLongSilence
    /\ GroupInv /\ PastBounded

LEMMA InitMeasure == Init => MeasureInv
<1> SUFFICES ASSUME Init PROVE MeasureInv
  OBVIOUS
<1>1. \A r \in Runs : verdict[r] = "none" /\ order[r] = 0
  BY DEF Init
<1>2. Chronicle
  BY <1>1 DEF Init, Chronicle, Settled
<1>3. CauseInv /\ SilenceInv
  BY DEF Init, CauseInv, SilenceInv
<1>4. MutedForCause /\ NoLongSilence
  BY <1>1 DEF MutedForCause, NoLongSilence
<1>5. GroupInv /\ PastBounded
  BY <1>1 DEF GroupInv, PastBounded, Heads, Settled
<1>6. QED
  BY <1>2, <1>3, <1>4, <1>5 DEF MeasureInv

LEMMA MeasureStep == TypeOK /\ MeasureInv /\ [Next]_vars => MeasureInv'
<1> SUFFICES ASSUME TypeOK, MeasureInv, [Next]_vars PROVE MeasureInv'
  OBVIOUS
<1>1. Chronicle'
  BY ChronicleDecision, Otherwise DEF MeasureInv
<1>2. CauseInv' /\ MutedForCause'
  BY CauseStep DEF MeasureInv
<1>3. SilenceInv' /\ NoLongSilence'
  BY SilenceStep DEF MeasureInv
<1>4. GroupInv' /\ PastBounded'
  BY BoundStep DEF MeasureInv
<1>5. QED
  BY <1>1, <1>2, <1>3, <1>4 DEF MeasureInv

LEMMA MeasureGives == TypeOK /\ MeasureInv => Measured
<1> SUFFICES ASSUME TypeOK, MeasureInv PROVE Measured
  OBVIOUS
<1>1. ASSUME NEW f \in Runs, Heads(f) PROVE Bounded(f)
  <2>1. epoch[f] <= evictions /\ epoch[f] \in Nat /\ evictions \in Nat
    BY GroupTypes DEF MeasureInv, Chronicle
  <2>2. CASE epoch[f] < evictions
    BY <1>1, <2>2 DEF MeasureInv, PastBounded
  <2>3. CASE epoch[f] = evictions
    BY <1>1, <2>3, BoundNow DEF MeasureInv, GroupInv
  <2>4. QED
    BY <2>1, <2>2, <2>3
<1>2. PassesBounded
  BY <1>1 DEF PassesBounded, Bounded, Heads, Group, Passed, Settled, Thinned
<1>3. QED
  BY <1>2 DEF Measured, MeasureInv

\* No message is muted or passed that the windows of its key would not have:
\* each muting has its cause, the passes are bounded, and no silence is long,
\* whatever the order in which the goroutines read the clock and decide.
THEOREM DecisionsAreMeasured == Spec => []Measured
  BY InitMeasure, MeasureStep, MeasureGives, TypeCorrect, PTL DEF Spec

----------------------------------------------------------------------------
(* Nobody is blocked: a run inside a callback waits for a run that began   *)
(* later than its own decision and decides after it, so that the waits     *)
(* have an end.                                                            *)

Callbacks == {"calling", "logging", "done"}

\* r waits inside its callback for a run that is decided after it.
NestedLater(r) ==
    /\ pc[nested[r]] # "idle"
    /\ Settled(nested[r]) => order[r] < order[nested[r]]

NestInv ==
    \A r \in Runs : /\ pc[r] \in Callbacks => Settled(r)
                    /\ pc[r] = "logging" => NestedLater(r)

\* The decisions keep the waits; they make none.
LEMMA NestDecision ==
    ASSUME TypeOK, Chronicle, NestInv, NEW s \in Runs,
           Sample(s) \/ RateLimit(s) \/ Dedup(s)
    PROVE  NestInv'
<1>1. PICK v \in {"pass", "mute"}, n \in Nat : Decide(s, v, n)
  BY DecisionTypes
<1>2. /\ pc[s] = "locked" /\ pc'[s] \in {"calling", "done"} /\ nested' = nested
      /\ \A q \in Runs \ {s} : pc'[q] = pc[q]
  BY <1>1, DecisionTypes DEF TypeOK, RunType, Decide, Unlock, localVars
<1>3. nested \in [Runs -> Runs] /\ order \in [Runs -> Nat] /\ decided \in Nat
  BY DEF TypeOK, RunType, HistoryType
<1>4. ASSUME NEW r \in Runs, pc'[r] \in Callbacks PROVE Settled(r)'
  BY <1>2, <1>4, Chronicles DEF NestInv, Settled
<1>5. ASSUME NEW r \in Runs, pc'[r] = "logging" PROVE NestedLater(r)'
  <2>1. r # s /\ pc[r] = "logging" /\ NestedLater(r) /\ order'[r] = order[r]
    BY <1>2, <1>5, Chronicles DEF NestInv
  <2>2. PICK q \in Runs : q = nested[r]
    BY <1>3
  <2>3. CASE q = s
    <3>1. order'[q] = decided + 1 /\ order[r] <= decided
      BY <2>3, Chronicles DEF Chronicle
    <3>2. QED
      BY <1>2, <1>3, <2>1, <2>2, <2>3, <3>1 DEF NestedLater
  <2>4. CASE q # s
    <3>1. (Settled(q)' <=> Settled(q)) /\ order'[q] = order[q] /\ pc'[q] = pc[q]
      BY <1>2, <2>4, Chronicles DEF Settled
    <3>2. QED
      BY <1>2, <2>1, <2>2, <3>1 DEF NestedLater
  <2>5. QED
    BY <2>3, <2>4
<1>6. QED
  BY <1>4, <1>5 DEF NestInv

\* A step that decides nothing and takes no run back to where it was idle.
LEMMA NestKept ==
    ASSUME TypeOK, NestInv, nested' \in [Runs -> Runs], UNCHANGED <<verdict, order>>,
           \A q \in Runs :
               /\ pc[q] # "idle" => pc'[q] # "idle"
               /\ pc'[q] \in Callbacks => pc[q] \in Callbacks
               /\ pc'[q] = "logging" =>
                     \/ pc[q] = "logging" /\ nested'[q] = nested[q]
                     \/ pc'[nested'[q]] # "idle" /\ ~Settled(nested'[q])
    PROVE  NestInv'
<1>1. nested \in [Runs -> Runs]
  BY DEF TypeOK, RunType
<1>2. \A q \in Runs : Settled(q)' <=> Settled(q)
  BY DEF Settled
<1>3. ASSUME NEW r \in Runs, pc'[r] \in Callbacks PROVE Settled(r)'
  BY <1>2, <1>3 DEF NestInv
<1>4. ASSUME NEW r \in Runs, pc'[r] = "logging" PROVE NestedLater(r)'
  <2>1. CASE pc[r] = "logging" /\ nested'[r] = nested[r]
    BY <1>1, <1>2, <2>1 DEF NestInv, NestedLater
  <2>2. CASE pc'[nested'[r]] # "idle" /\ ~Settled(nested'[r])
    BY <1>2, <2>2 DEF NestedLater
  <2>3. QED
    BY <1>4, <2>1, <2>2
<1>5. QED
  BY <1>3, <1>4 DEF NestInv

LEMMA NestStep ==
    ASSUME TypeOK, Chronicle, NestInv, [Next]_vars
    PROVE  NestInv'
<1>0. /\ nested \in [Runs -> Runs]
      /\ pc \in [Runs -> {"idle", "timed", "locked", "calling", "logging", "done"}]
  BY DEF TypeOK, RunType
<1>1. CASE \E s \in Runs : Sample(s) \/ RateLimit(s) \/ Dedup(s)
  BY <1>1, NestDecision
<1>2. CASE UNCHANGED <<pc, nested, verdict, order>>
  BY <1>0, <1>2, NestKept
<1>3. ASSUME NEW s \in Runs, Run(s) PROVE NestInv'
  <2>1. /\ pc[s] = "idle" /\ pc' = [pc EXCEPT ![s] = "timed"]
        /\ UNCHANGED <<nested, verdict, order>>
    BY <1>3 DEF Run, Begin, decisionVars
  <2>2. QED
    BY <1>0, <2>1, NestKept DEF Callbacks
<1>4. ASSUME NEW s \in Runs, Lock(s) PROVE NestInv'
  <2>1. /\ pc[s] = "timed" /\ pc' = [pc EXCEPT ![s] = "locked"]
        /\ UNCHANGED <<nested, verdict, order>>
    BY <1>4 DEF Lock, localVars, decisionVars
  <2>2. QED
    BY <1>0, <2>1, NestKept DEF Callbacks
<1>5. ASSUME NEW r \in Runs, CallbackLogs(r) PROVE NestInv'
  <2>1. PICK s \in Runs : /\ Begin(s, [pc EXCEPT ![r] = "logging"])
                          /\ nested' = [nested EXCEPT ![r] = s]
                          /\ pc[r] = "calling"
                          /\ UNCHANGED <<verdict, order>>
    BY <1>5 DEF CallbackLogs, decisionVars
  <2>2. /\ pc[s] = "idle" /\ s # r /\ ~Settled(s)
        /\ pc'[s] = "timed" /\ pc'[r] = "logging"
        /\ nested'[r] = s /\ nested' \in [Runs -> Runs]
        /\ \A q \in Runs \ {r, s} : pc'[q] = pc[q] /\ nested'[q] = nested[q]
    BY <1>0, <2>1, BeginFacts DEF Begin, Settled
  <2>3. QED
    BY <1>0, <2>1, <2>2, NestKept DEF Callbacks
<1>6. ASSUME NEW r \in Runs, CallbackQuiet(r) \/ CallbackReturns(r) PROVE NestInv'
  <2>1. /\ pc[r] \in {"calling", "logging"} /\ pc' = [pc EXCEPT ![r] = "done"]
        /\ UNCHANGED <<nested, verdict, order>>
    BY <1>6 DEF CallbackQuiet, CallbackReturns, localVars, decisionVars
  <2>2. QED
    BY <1>0, <2>1, NestKept DEF Callbacks
<1>7. QED
  BY <1>1, <1>2, <1>3, <1>4, <1>5, <1>6
    DEF Next, Goes, Callback, Tick, vars, localVars, decisionVars

\* A bounded set of numbers that is not empty has a greatest one.
LEMMA GreatestNatural ==
    ASSUME NEW n \in Nat, NEW T, T \subseteq 0..n, T # {}
    PROVE  \E x \in T : \A y \in T : y <= x
<1> DEFINE S == {n - x : x \in T}
<1>1. S \subseteq Nat /\ S # {}
  <2>1. \A x \in T : n - x \in Nat
    OBVIOUS
  <2>2. QED
    BY <2>1
<1>2. \E m \in S : \A z \in S : ~ (<<z, m>> \in OpToRel(<, Nat))
  <2> HIDE DEF S
  <2>1. QED
    BY <1>1, NatLessThanWellFounded, WFMin, Zenon
<1>3. \A z, m \in S : z < m => <<z, m>> \in OpToRel(<, Nat)
  BY <1>1, Zenon DEF OpToRel
<1>4. PICK m \in S : \A z \in S : ~ (z < m)
  BY <1>2, <1>3, Zenon
<1>5. PICK x \in T : m = n - x
  BY <1>4
<1>6. \A y \in T : ~ (n - y < m)
  BY <1>4
<1>7. QED
  BY <1>5, <1>6

\* The run that decided last among those that wait inside a callback waits for
\* one that does not.
LEMMA SomebodyGoes == TypeOK /\ Chronicle /\ NestInv => NobodyBlocked
<1> SUFFICES ASSUME TypeOK, Chronicle, NestInv,
                    \E r \in Runs : pc[r] \notin {"idle", "done"}
             PROVE  \E r \in Runs : CanGo(r)
  BY DEF NobodyBlocked
<1>0. /\ nested \in [Runs -> Runs] /\ order \in [Runs -> Nat] /\ decided \in Nat
      /\ pc \in [Runs -> {"idle", "timed", "locked", "calling", "logging", "done"}]
      /\ lock \in Runs \cup {"free"}
  BY DEF TypeOK, RunType, HistoryType, InstanceType
<1>1. CASE lock # "free"
  BY <1>0, <1>1 DEF TypeOK, Places, CanGo
<1>2. CASE \E r \in Runs : pc[r] \in {"locked", "calling"}
  BY <1>2 DEF CanGo
<1>3. CASE lock = "free" /\ \E r \in Runs : pc[r] = "timed"
  BY <1>3 DEF CanGo
<1>4. CASE \A r \in Runs : pc[r] \in {"idle", "logging", "done"}
  <2> DEFINE T == {order[r] : r \in {q \in Runs : pc[q] = "logging"}}
  <2>1. T \subseteq 0..decided /\ T # {}
    BY <1>0, <1>4 DEF Chronicle
  <2>2. \E x \in T : \A y \in T : y <= x
    <3> HIDE DEF T
    <3>1. QED
      BY <1>0, <2>1, GreatestNatural
  <2>3. PICK r \in Runs : /\ pc[r] = "logging"
                          /\ \A q \in Runs : pc[q] = "logging" => order[q] <= order[r]
    BY <2>2
  <2>4. PICK q \in Runs : q = nested[r]
    BY <1>0
  <2>5. pc[q] \in {"logging", "done"}
    BY <1>4, <2>3, <2>4 DEF NestInv, NestedLater
  <2>6. order[r] < order[q]
    BY <2>3, <2>4, <2>5 DEF NestInv, NestedLater, Callbacks
  <2>7. pc[q] = "done"
    BY <1>0, <2>3, <2>5, <2>6
  <2>8. QED
    BY <2>3, <2>4, <2>7 DEF CanGo
<1>5. QED
  BY <1>0, <1>1, <1>2, <1>3, <1>4

\* As long as a run has not ended some run can go on: the mutex is never held
\* by a run that waits, and the runs inside callbacks never wait in a circle,
\* however deep the callbacks log into the instance.
THEOREM NobodyIsBlocked == Spec => []NobodyBlocked
<1>1. Init => NestInv
  BY DEF Init, NestInv, Callbacks
<1>2. TypeOK /\ MeasureInv /\ NestInv /\ [Next]_vars => NestInv'
  BY NestStep DEF MeasureInv
<1>3. TypeOK /\ MeasureInv /\ NestInv => NobodyBlocked
  BY SomebodyGoes DEF MeasureInv
<1>4. QED
  BY <1>1, <1>2, <1>3, InitMeasure, MeasureStep, TypeCorrect, PTL DEF Spec
=============================================================================
