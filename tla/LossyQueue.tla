------------------------------ MODULE LossyQueue ------------------------------
(***************************************************************************)
(* What an event FIFO of the driver promises, without its ring, its        *)
(* handler and its masking: every event seen is accounted for in order.    *)
(* The queue holds intervals of the events seen so far; an interval that   *)
(* is kept is the event itself, one that is not kept is an overflow record *)
(* that only says how many events it stands for.  Events are dropped only  *)
(* into the last place of the queue, and only while that place is taken.   *)
(***************************************************************************)
EXTENDS Naturals, Sequences

CONSTANT Capacity

VARIABLES
    queue,      \* intervals not yet delivered, oldest first
    seen,       \* number of events so far
    told        \* number of events the deliveries so far account for

vars == <<queue, seen, told>>

Interval == [from : Nat, to : Nat, kept : BOOLEAN]

Init == queue = <<>> /\ seen = 0 /\ told = 0

Keep ==
    /\ Len(queue) < Capacity - 1
    /\ queue' = Append(queue, [from |-> seen, to |-> seen + 1, kept |-> TRUE])

StartDropping ==
    /\ Len(queue) = Capacity - 1
    /\ queue' = Append(queue, [from |-> seen, to |-> seen + 1, kept |-> FALSE])

Drop ==
    /\ Len(queue) = Capacity
    /\ ~queue[Capacity].kept
    /\ queue' = [queue EXCEPT ![Capacity].to = @ + 1]

See ==
    /\ Keep \/ StartDropping \/ Drop
    /\ seen' = seen + 1
    /\ UNCHANGED told

Deliver ==
    /\ queue # <<>>
    /\ queue' = Tail(queue)
    /\ told' = Head(queue).to
    /\ UNCHANGED seen

Next == See \/ Deliver

\* The host that keeps asking gets everything that is queued.
Spec == Init /\ [][Next]_vars /\ WF_vars(Deliver)

-----------------------------------------------------------------------------
(* What follows from the promise.                                          *)

\* The intervals are adjacent, from what was delivered to what was seen.
Contiguous ==
    LET begin(k) == IF k <= Len(queue) THEN queue[k].from ELSE seen
    IN /\ told = begin(1)
       /\ \A k \in 1..Len(queue) : queue[k].from < queue[k].to /\ queue[k].to = begin(k + 1)
=============================================================================
