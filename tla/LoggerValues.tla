---------------------------- MODULE LoggerValues ----------------------------
(***************************************************************************)
(* What a family of loggers promises: every logger has its own fields,     *)
(* tags and outputs, a derived one begins with those of its parent, and    *)
(* nothing done to one of them shows in another, except through a map of   *)
(* fields that the application handed to several of them and writes to.    *)
(***************************************************************************)
EXTENDS Integers, Sequences

CONSTANTS Loggers, Root, Outputs, Tags, Keys, Values, AppMaps, NoMap

VARIABLES
    exists,     \* the loggers there are
    own,        \* the fields a logger was derived with
    follows,    \* the map of the application it was given since, if any
    tags, outputs,
    maps        \* the maps of the application

valueVars == <<exists, own, follows, tags, outputs, maps>>

Contents == UNION {[D -> Values] : D \in SUBSET Keys}

Empty == [k \in {} |-> k]

\* The fields of one over those of another.
Over(below, above) ==
    [k \in DOMAIN below \cup DOMAIN above |->
        IF k \in DOMAIN above THEN above[k] ELSE below[k]]

Fields(l) == IF follows[l] = NoMap THEN own[l] ELSE maps[follows[l]]

Derive(p, l, given) ==
    /\ p \in exists /\ l \notin exists
    /\ exists' = exists \cup {l}
    /\ own' = [own EXCEPT ![l] = Over(Fields(p), given)]
    /\ follows' = [follows EXCEPT ![l] = NoMap]
    /\ tags' = [tags EXCEPT ![l] = tags[p]]
    /\ outputs' = [outputs EXCEPT ![l] = outputs[p]]
    /\ UNCHANGED maps

SetFields(l, a) ==
    /\ l \in exists
    /\ follows' = [follows EXCEPT ![l] = a]
    /\ own' = [own EXCEPT ![l] = Empty]
    /\ UNCHANGED <<exists, tags, outputs, maps>>

SetTags(l, t) ==
    /\ l \in exists
    /\ tags' = [tags EXCEPT ![l] = Append(@, t)]
    /\ UNCHANGED <<exists, own, follows, outputs, maps>>

AddOutputs(l, o) ==
    /\ l \in exists
    /\ outputs' = [outputs EXCEPT ![l] = Append(@, o)]
    /\ UNCHANGED <<exists, own, follows, tags, maps>>

\* An output takes the place of those with its name.
SetOutputs(l, o) ==
    /\ l \in exists
    /\ outputs' = [outputs EXCEPT ![l] =
                     [i \in DOMAIN @ |-> IF @[i].name = o.name THEN o ELSE @[i]]]
    /\ UNCHANGED <<exists, own, follows, tags, maps>>

Written(a, k, v) ==
    /\ maps' = [maps EXCEPT ![a] = Over(@, [x \in {k} |-> v])]
    /\ UNCHANGED <<exists, own, follows, tags, outputs>>

Init ==
    /\ exists = {Root}
    /\ own \in [Loggers -> Contents]
    /\ follows = [l \in Loggers |-> NoMap]
    /\ tags \in [Loggers -> Seq(Tags)]
    /\ outputs \in [Loggers -> Seq(Outputs)]
    /\ maps \in [AppMaps -> Contents]

Next ==
    \/ \E p, l \in Loggers, given \in Contents : Derive(p, l, given)
    \/ \E l \in Loggers, a \in AppMaps \cup {NoMap} : SetFields(l, a)
    \/ \E l \in Loggers, t \in Tags : SetTags(l, t)
    \/ \E l \in Loggers, o \in Outputs : AddOutputs(l, o) \/ SetOutputs(l, o)
    \/ \E a \in AppMaps, k \in Keys, v \in Values : Written(a, k, v)

Spec == Init /\ [][Next]_valueVars
=============================================================================
