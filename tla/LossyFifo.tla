----------------------------- MODULE LossyFifo -----------------------------
(***************************************************************************)
(* What an asynchronous output promises its callers, with no worker, lock, *)
(* condition variable or sequence arithmetic: a bounded first-in-first-out *)
(* pipe that may lose its oldest message to make room, that stops taking   *)
(* messages when it is shut down, and that still hands over everything it  *)
(* took.  Messages are numbered in the order in which they are taken.      *)
(***************************************************************************)
EXTENDS Naturals, Sequences

CONSTANT Room       \* how many messages the pipe can hold

VARIABLES
    taken,          \* how many messages the pipe has accepted
    pending,        \* the accepted messages that have met no fate, in order
    handedOver,     \* the messages that reached the sink
    displaced,      \* the messages given up to make room
    shut            \* no message is accepted any more

fifoVars == <<taken, pending, handedOver, displaced, shut>>

FifoInit ==
    /\ taken = 0
    /\ pending = <<>>
    /\ handedOver = {}
    /\ displaced = {}
    /\ shut = FALSE

Take ==
    /\ ~shut
    /\ Len(pending) < Room
    /\ taken' = taken + 1
    /\ pending' = Append(pending, taken + 1)
    /\ UNCHANGED <<handedOver, displaced, shut>>

\* The first pending message may already be on its way to the sink; the one
\* given up is then the second.
Displace(k) ==
    /\ ~shut
    /\ k \in 1..Len(pending)
    /\ k <= 2
    /\ displaced' = displaced \cup {pending[k]}
    /\ taken' = taken + 1
    /\ pending' = Append(SubSeq(pending, 1, k - 1)
                           \o SubSeq(pending, k + 1, Len(pending)), taken + 1)
    /\ UNCHANGED <<handedOver, shut>>

HandOver ==
    /\ pending # <<>>
    /\ handedOver' = handedOver \cup {Head(pending)}
    /\ pending' = Tail(pending)
    /\ UNCHANGED <<taken, displaced, shut>>

ShutDown ==
    /\ ~shut
    /\ shut' = TRUE
    /\ UNCHANGED <<taken, pending, handedOver, displaced>>

FifoNext == Take \/ HandOver \/ ShutDown \/ \E k \in {1, 2} : Displace(k)

\* Nothing accepted is forgotten: the pipe keeps handing over.
FifoSpec == FifoInit /\ [][FifoNext]_fifoVars /\ WF_fifoVars(HandOver)
=============================================================================
